----------------------------- MODULE RepairScan -----------------------------
(***************************************************************************)
(* The scan of a broken file's mdat (mp4_repairer.cpp, mp4_scan.cpp,       *)
(* mp4_chunk_pred.cpp, mp4_match.cpp, mp4.cpp): the loop of                *)
(* Mp4Repairer::repair reads the content front to back and at every offset *)
(* skips padding, zeros or an atom, takes one frame, takes a whole         *)
(* predicted chunk, or steps over unknown bytes.  What it leaves behind is *)
(* the samples and chunks of every track and the byte ranges to leave out  *)
(* of the repaired mdat.                                                   *)
(*                                                                         *)
(* What the bytes are is not modelled: wherever the code looks at them     *)
(* (codec matchers, zero tests, transition patterns) each answer it could  *)
(* get is a choice.  What the code does with the answers, and what it      *)
(* knows from the reference file (job.ref), is modelled in full.           *)
(***************************************************************************)
EXTENDS ChunkOrder

CONSTANTS
    Tracks,        \* the tracks of the reference file
    Free,          \* the dummy track (idx_free_), or kNoFreeTrack without one
    Start,         \* last_track_idx_ == -1: nothing found yet
    Jobs,          \* the options and reference files considered
    Size,          \* mdat_->contentSize() of the broken file
    MdatStart,     \* mdat_->contentStart(): absolute offsets start there
    AtomLens,      \* the lengths of atoms that skipAtoms passes over
    ZeroStep,      \* bytes skipped at zeros: 4 in the code
    HeaderSize,    \* bytes of an mdat header: 8 in the code
    MinAlign,      \* alignments of up to this much are ignored: 4 in the code
    PatHalf,       \* half a transition pattern: pat_size_ / 2
    MinChunkBytes, \* smallest assumed chunk: 64 in the code
    PaddingGcd     \* end_off_gcd_ from which 'free' is padding: 8 in the code

AllTracks == Tracks \cup {Free}

\* What the reference file taught about a track (class Track).
TrackInfo ==
    [codec : STRING,            \* codec_.name_
     lens : SUBSET (Nat \ {0}), \* lengths a match can have; {} if unsupported
     bounded : BOOLEAN,         \* no constant_size_: predictSize checks the length
     has_duplicates : BOOLEAN,
     is_jpeg : BOOLEAN,
     pkt_sz_gcd : Nat \ {0},
     pad_after_chunk : Nat \cup {-1},
     likely_n : Seq(Nat \ {0}), \* likely_n_samples_
     likely_n_p : 0 .. 100,     \* likely_n_samples_p in percent
     likely_sizes : Seq(Nat \ {0}),
     predictable : BOOLEAN,     \* shouldUseChunkPrediction()
     distance_gcd : Nat \ {0},
     start_gcd : Nat \ {0},
     end_gcd : Nat \ {0},
     next : SUBSET AllTracks]   \* the tracks its dyn_patterns_ lead to

JobType ==
    [use_chunk_stats : BOOLEAN, ignore_unknown : BOOLEAN, dont_exclude : BOOLEAN,
     step : Nat \ {0},
     ref : [AllTracks -> TrackInfo],
     has_free : BOOLEAN,        \* idx_free_ is a track
     zero_transitions : BOOLEAN,
     order : Seq([track : Tracks, n : Nat \ {0}]),
     simple : Seq(Tracks),      \* track_order_simple_
     cycle_size : Nat,
     first_rel : Nat, first_abs : Int, \* first_off_rel_, first_off_abs_ - contentStart()
     orig_first : Tracks,
     fallback : SUBSET Tracks]  \* {} or {fallback_track_idx_}

ASSUME TracksAssumption ==
    /\ Free \notin Tracks /\ Start \notin Tracks \cup {Free}
    /\ Tracks # {}
ASSUME SizeAssumption ==
    /\ Size \in Nat \ {0} /\ MdatStart \in Nat
    /\ {ZeroStep, HeaderSize} \subseteq Nat \ {0}
    /\ AtomLens \subseteq Nat \ {0}
    /\ {MinAlign, PatHalf, MinChunkBytes} \subseteq Nat
    /\ PaddingGcd \in Nat \ {0, 1}
\* shouldUseChunkPrediction() needs hasPredictableChunks().
ASSUME JobsAssumption ==
    /\ Jobs \subseteq JobType
    /\ \A j \in Jobs, t \in AllTracks :
         j.ref[t].predictable => j.ref[t].likely_n # <<>> /\ j.ref[t].likely_sizes # <<>>

VARIABLES
    job,      \* the options and the reference file: never change
    pc,       \* where the loop stands
    offset,   \* the local offset of repair()
    from,     \* orig_off of chkOffset
    padding,  \* the local padding of advanceOffset
    st        \* everything else, a record: see InitState

vars == <<job, pc, offset, from, padding, st>>

-----------------------------------------------------------------------------
(***************************************************************************)
(* The state that the scan loop's functions change.  An operator below     *)
(* takes it as w and returns it changed, as the C++ function changes the   *)
(* objects.  failed names the first assertion or read that failed: there   *)
(* the program ends, so what later operators do to w is not read.          *)
(***************************************************************************)
NoChunk == [off |-> 0, already_excluded |-> 0, size |-> 0, n |-> 0]

InitState ==
    [\* BufferedAtom: sequences_to_exclude_, total_excluded_yet_, contentSize()
     excluded |-> <<>>, total_excluded |-> 0, content_size |-> Size,
     \* ScanState
     unknown_length |-> 0, unknown_sequences |-> <<>>, last_track |-> Start,
     done_padding |-> FALSE, done_padding_after |-> FALSE,
     first_chunk_found |-> FALSE, ignored_chunk_order |-> FALSE,
     \* ChunkOrderState
     next_chunk |-> 0,
     \* of every Track: current_chunk_, chunks_ and, for sizes_, the frames with
     \* the offsets they were found at
     current |-> [t \in AllTracks |-> NoChunk],
     chunks |-> [t \in AllTracks |-> <<>>],
     frames |-> [t \in AllTracks |-> <<>>],
     failed |-> "none"]

\* assertt(holds) in the function of that name.
Assertt(w, holds, name) ==
    IF w.failed = "none" /\ ~holds THEN [w EXCEPT !.failed = name] ELSE w

\* last_track_idx_ < 0
NoLastTrack(w) == w.last_track = Start \/ (w.last_track = Free /\ ~job.has_free)

ExcludedEnd(w) ==
    IF w.excluded = <<>> THEN 0
    ELSE w.excluded[Len(w.excluded)].start + w.excluded[Len(w.excluded)].length

\* A mutant: the running total is not kept.
AddToExcludeNoTotal(w, start, length) ==
    IF job.dont_exclude THEN w
    ELSE [w EXCEPT !.excluded = Append(@, [start |-> start, length |-> length])]

\* A length that reaches beyond the content is cut.
AddToExclude(w, start, length) ==
    LET kept == IF start + length > Size THEN Size - start ELSE length
    IN  IF job.dont_exclude THEN w
        ELSE [Assertt(w, w.excluded # <<>> => start >= ExcludedEnd(w), "addToExclude")
                EXCEPT !.excluded = Append(@, [start |-> start, length |-> kept]),
                       !.total_excluded = @ + kept]

AddUnknownSequence(w, start, length) ==
    [AddToExclude(Assertt(w, length # 0, "addUnknownSequence"), start, length)
        EXCEPT !.unknown_sequences = Append(@, [start |-> start, length |-> length])]

\* A mutant: the unknown bytes are counted on.
ChkUnknownSequenceEndedNoReset(w, off) ==
    IF w.unknown_length = 0 THEN w
    ELSE AddUnknownSequence(w, off - w.unknown_length, w.unknown_length)

\* The unknown bytes before off, if any, become an excluded sequence.
ChkUnknownSequenceEnded(w, off) ==
    IF w.unknown_length = 0 THEN w
    ELSE [AddUnknownSequence(w, off - w.unknown_length, w.unknown_length)
            EXCEPT !.unknown_length = 0]

\* A mutant: overlaps are not looked for.
ExcludeAllSkipped(w, start, end) == AddToExclude(w, start, end - start)

\* chkExcludeOverlap and addToExclude, as chkOffset calls them for the bytes that
\* advanceOffset skipped: the part that is excluded already is left out.
ExcludeSkipped(w, start, end) ==
    LET first == IF ExcludedEnd(w) > start THEN ExcludedEnd(w) ELSE start
    IN  AddToExclude(Assertt(w, end >= first, "chkExcludeOverlap"), first, end - first)

-----------------------------------------------------------------------------
(* Chunks and their order                                                  *)

\* off_ and already_excluded_ stay as they are.
FinalizeCurrentChunk(w) ==
    LET t == w.last_track
        c == w.current[t]
    IN  IF t = Free /\ c.n = 0 THEN w
        ELSE [Assertt(w, c.n > 0, "finalizeCurrentChunk")
                EXCEPT !.chunks[t] = Append(@, c),
                       !.current[t].n = 0, !.current[t].size = 0]

\* The bytes of a chunk of the dummy track are unknown bytes.
PushBackLastChunk(w) ==
    LET c == w.current[w.last_track]
    IN  IF NoLastTrack(w) THEN w
        ELSE FinalizeCurrentChunk(
                IF w.last_track = Free /\ c.n > 0 /\ c.size > 0
                THEN AddUnknownSequence(w, c.off, c.size) ELSE w)

\* correctChunkIdx, and correctChunkIdxSimple without a track_order_.  The loop
\* over track_order_ does not end if the track is not in it.
CorrectChunkIdx(w, t) ==
    LET order == IF job.order # <<>> THEN TracksOf(job.order) ELSE job.simple
        ok == Assertt(w, t # Free, "correctChunkIdx")
    IN  IF order = <<>> THEN ok
        ELSE IF CanSkipTo(order, t)
             THEN [ok EXCEPT !.next_chunk = SkipToTrack(order, @, t)]
             ELSE Assertt(ok, FALSE, IF job.order # <<>> THEN "correctChunkIdx loop"
                                    ELSE "correctChunkIdxSimple")

OnFirstChunkFound(w, t) ==
    IF t = Free THEN w
    ELSE CorrectChunkIdx(Assertt([w EXCEPT !.first_chunk_found = TRUE],
                                w.next_chunk = 0, "onFirstChunkFound"), t)

OnNewChunkStarted(w, t) ==
    LET corrected == IF w.ignored_chunk_order
                     THEN [CorrectChunkIdx(w, t) EXCEPT !.ignored_chunk_order = FALSE]
                     ELSE w
        pushed == [PushBackLastChunk(corrected) EXCEPT !.done_padding_after = FALSE]
        found == IF pushed.first_chunk_found THEN pushed ELSE OnFirstChunkFound(pushed, t)
    IN  IF t = Free THEN pushed ELSE [found EXCEPT !.next_chunk = @ + 1]

SetLastTrack(w, t) == [w EXCEPT !.last_track = t, !.done_padding = FALSE]

\* chunkProbablyAtAnd and chunkReachedSampleLimit
ChunkProbablyAtEnd(w, t) ==
    /\ w.current[t].n > 0
    /\ job.ref[t].likely_n_p >= 70
    /\ \E i \in DOMAIN job.ref[t].likely_n : w.current[t].n = job.ref[t].likely_n[i]

ChunkReachedSampleLimit(w, t) ==
    /\ Len(job.ref[t].likely_n) = 1 /\ job.ref[t].likely_n_p >= 99
    /\ w.current[t].n = job.ref[t].likely_n[1]

-----------------------------------------------------------------------------
(* Where chunks may start                                                  *)

IsChunkOffsetOk(w, t, off) ==
    /\ (MdatStart + off) % job.ref[t].start_gcd = 0
    /\ w.current[t].off # 0 => (off - w.current[t].off) % job.ref[t].distance_gcd = 0

StepToNextOwnChunk(w, t, off) ==
    LET d == job.ref[t].distance_gcd
        step == d - ((off - w.current[t].off) % d)
    IN  IF w.current[t].off = 0 THEN Min({step, d - ((MdatStart + off) % d)}) ELSE step

StepToNextOwnChunkAbs(t, off) ==
    LET g == job.ref[t].start_gcd IN (g - ((MdatStart + off) % g)) % g

\* For the dummy track a whole period, not 0, when off is aligned.
StepToNextOtherChunk(t, off) ==
    LET g == job.ref[t].end_gcd
        step == g - ((MdatStart + off) % g)
    IN  IF g = 1 \/ (t # Free /\ step = g) THEN 0 ELSE step

\* do_padding_skip_: the free chunks of the reference pad to an alignment.
DoPaddingSkip == job.has_free /\ job.ref[Free].end_gcd >= PaddingGcd

\* A mutant: nothing is stepped over.
StepNothing(w, off) == 0

CalcStep(w, off) ==
    IF DoPaddingSkip THEN StepToNextOtherChunk(Free, off)
    ELSE IF job.use_chunk_stats
         THEN Min({StepToNextOwnChunk(w, t, off) : t \in Tracks} \cup {Size - off})
         ELSE job.step

\* What skipZeros skips if four zero bytes are at off.
ZeroLength(w, off) ==
    IF DoPaddingSkip \/ w.unknown_length > 0 \/ job.use_chunk_stats
    THEN CalcStep(w, off) ELSE ZeroStep

-----------------------------------------------------------------------------
(***************************************************************************)
(* Predicted chunks.  A prediction is a record of the chunk and of         *)
(* whether the call set ignored_chunk_order_; a chunk without samples and  *)
(* with track Start stands for none.                                       *)
(***************************************************************************)
Chunk(off, n, t, sample) ==
    [off |-> off, size |-> n * sample, n |-> n, track |-> t, sample |-> sample]

Nothing == Chunk(0, 0, Start, 0)

Elements(s) == {s[i] : i \in DOMAIN s}

\* fitChunk for sample counts ns: what follows the chunk and its padding must look
\* like another track's chunk.  With one sample size the chunk is a multiple of
\* it; with several any size between 9/10 of the smallest and 11/10 of the largest
\* is tried too, and the average becomes the sample size.
FitChunks(off, t, ns) ==
    LET sizes == Elements(job.ref[t].likely_sizes)
        pad == job.ref[t].pad_after_chunk
        constant == {Chunk(off, n, t, s) : n \in ns, s \in sizes}
        variable == {[off |-> off, size |-> b, n |-> n, track |-> t, sample |-> b \div n] :
                        n \in ns, b \in 1 .. Size}
    IN  IF sizes = {} \/ job.ref[t].likely_n = <<>> THEN {}
        ELSE {c \in constant : off + c.size + pad < Size}
             \cup {c \in variable :
                     /\ Cardinality(sizes) > 1
                     /\ off + c.size + Max({0, pad}) < Size
                     /\ c.size >= c.n * ((job.ref[t].likely_sizes[1] * 9) \div 10)
                     /\ c.size <= c.n * ((job.ref[t].likely_sizes[Len(job.ref[t].likely_sizes)] * 11)
                                           \div 10)}

LikelyNext(w) == At(job.order, w.next_chunk)

NearEnd(off) == off > Size - job.cycle_size

\* The chunk before next_chunk_idx_ must be the one being filled.
ChunkOrderInStep(w) ==
    w.next_chunk = 0 \/ At(job.order, w.next_chunk - 1).track = w.last_track

CurrentChunkFinished(w) ==
    \/ w.next_chunk = 0
    \/ LET entry == At(job.order, w.next_chunk - 1)
       IN  w.current[entry.track].n >= entry.n

\* The conditions under which predictChunkViaOrder asks currentChunkFinished,
\* and under which it then relies on the order.
AsksOrder(w) == job.order # <<>> /\ w.last_track # Free
PredictsViaOrder(w, off) == AsksOrder(w) /\ (CurrentChunkFinished(w) \/ NearEnd(off))

\* The chunks predictChunkViaOrder may find.
OrderChunks(w, off) ==
    LET t == LikelyNext(w).track
        n == LikelyNext(w).n
        sizes == job.ref[t].likely_sizes
    IN  IF sizes = <<>> \/ job.ref[t].likely_n = <<>> THEN {Nothing}
        ELSE IF Len(sizes) > 1
             THEN FitChunks(off, t, {n} \cup Elements(job.ref[t].likely_n)) \cup {Nothing}
             ELSE {IF n * sizes[1] <= Size - off THEN Chunk(off, n, t, sizes[1]) ELSE Nothing}

\* chunkStartLooksInvalid may reject any chunk but the first.
ViaOrder(w, off) ==
    LET kept == {[chunk |-> c, ignored |-> w.ignored_chunk_order] : c \in OrderChunks(w, off)}
    IN  IF w.last_track = Start \/ OrderChunks(w, off) = {Nothing} THEN kept
        ELSE kept \cup {[chunk |-> Nothing, ignored |-> TRUE]}

\* The tracks whose transition patterns may match at off (useDynPatternsForTrack), but for
\* tracks that look like twos.
NextTracks(w, off) ==
    IF off - PatHalf < 0 \/ off + PatHalf > Size THEN {}
    ELSE {t \in job.ref[IF w.done_padding /\ job.has_free THEN Free ELSE w.last_track].next :
            /\ t = Free => job.has_free
            /\ IsChunkOffsetOk(w, t, off)}

\* "we boldly assume that track_idx was correct": a chunk too short to be one
\* of the likely ones is taken to be the last of the file.
BoldChunk(off, t) ==
    LET ref == job.ref[t]
        s == ref.likely_sizes[1]
        assumed == IF ref.likely_n_p < 90 THEN Max({1, MinChunkBytes \div s}) ELSE ref.likely_n[1]
        n == Min({assumed, (Size - off) \div s})
    IN  IF n < ref.likely_n[1] THEN Chunk(off, n, t, s) ELSE Nothing

TrackChunks(off, t, only_perfect_fit) ==
    IF ~job.ref[t].predictable THEN {Nothing}
    ELSE FitChunks(off, t, Elements(job.ref[t].likely_n))
         \cup {IF only_perfect_fit THEN Nothing ELSE BoldChunk(off, t)}

\* No pattern matches: the simple order says which track to fit.
FallbackChunks(w, off) ==
    IF job.simple = <<>> THEN {Nothing}
    ELSE TrackChunks(off, At(job.simple, w.next_chunk), TRUE) \cup {Nothing}

\* getChunkPrediction; no answer where it throws (ThrowBeyondEnd).
Predictions(w, off, only_perfect_fit) ==
    LET chunks ==
          IF w.last_track = Start
          THEN {Nothing} \cup UNION {TrackChunks(off, t, only_perfect_fit) :
                                       t \in {job.orig_first} \cup job.fallback}
          ELSE FallbackChunks(w, off)
               \cup UNION {TrackChunks(off, t, only_perfect_fit) : t \in NextTracks(w, off)}
        none == [chunk |-> Nothing, ignored |-> w.ignored_chunk_order]
    IN  IF w.last_track = Free /\ ~job.has_free THEN {none}
        ELSE IF PredictsViaOrder(w, off) THEN ViaOrder(w, off)
        ELSE IF w.last_track = Start /\ off + PatHalf > Size THEN {}
        ELSE {[none EXCEPT !.chunk = c] : c \in chunks}

\* getChunkPrediction called on w: the assertion of currentChunkFinished, then
\* ignored_chunk_order_.
Predicting(w, prediction) ==
    [Assertt(w, AsksOrder(w) => ChunkOrderInStep(w), "currentChunkFinished")
        EXCEPT !.ignored_chunk_order = prediction.ignored]

\* The predictions of a call that finds no chunk; without use_chunk_stats there
\* is no call.
Misses(w, off, only_perfect_fit) ==
    IF job.use_chunk_stats
    THEN {p \in Predictions(w, off, only_perfect_fit) : p.chunk = Nothing}
    ELSE {[chunk |-> Nothing, ignored |-> w.ignored_chunk_order]}

-----------------------------------------------------------------------------
(* Frames                                                                  *)

AddFrames(w, t, off, n, length) ==
    SetLastTrack([w EXCEPT !.frames[t] =
        @ \o [i \in 1 .. n |-> [off |-> off + (i - 1) * length, length |-> length]]], t)

\* isExpectedTrackIdx: of duplicate tracks only the one the simple order names.
\* Another codec than expected is believed, and the order corrected.
Expected(w, t) ==
    LET expected == At(job.simple, w.next_chunk)
    IN  job.simple = <<>> \/ expected = t \/ job.ref[expected].codec # job.ref[t].codec

AfterExpected(w, t) ==
    IF job.ref[t].has_duplicates /\ job.simple # <<>> /\ At(job.simple, w.next_chunk) # t
    THEN CorrectChunkIdx(w, t) ELSE w

\* The frames that getMatch may find at off: [track, length, pad].
Matches(w, off) ==
    LET frame(t, len) ==
          LET g == job.ref[t].pkt_sz_gcd
          IN  [track |-> t,
               length |-> len + (IF job.ref[t].is_jpeg THEN StepToNextOtherChunk(t, off + len)
                                 ELSE 0),
               pad |-> IF job.ref[t].is_jpeg THEN 0 ELSE (g - (len % g)) % g]
    IN  UNION {{frame(t, len) :
                  len \in {l \in job.ref[t].lens : job.ref[t].bounded => l <= Size - off}} :
                t \in {u \in Tracks :
                         /\ \/ ~job.use_chunk_stats
                            \/ w.last_track = u /\ w.unknown_length = 0
                            \/ IsChunkOffsetOk(w, u, off)
                         /\ job.ref[u].has_duplicates => Expected(w, u)}}

\* A mutant: the new chunk does not note what was excluded before it.
BeginChunkStale(w, t, off) == [w EXCEPT !.current[t].off = off]

BeginChunk(w, t, off) ==
    [w EXCEPT !.current[t].off = off, !.current[t].already_excluded = w.total_excluded]

\* Mp4Repairer::addMatch up to the frame itself: the chunk it belongs to.
ChunkForMatch(w, t, off) ==
    LET ended == IF w.unknown_length > 0
                 THEN CorrectChunkIdx(ChkUnknownSequenceEnded(w, off), t) ELSE w
        found == IF ended.first_chunk_found THEN ended ELSE OnFirstChunkFound(ended, t)
        started == IF found.last_track = t THEN found
                   ELSE BeginChunk(OnNewChunkStarted(found, t), t, off)
    IN  IF job.ref[t].has_duplicates /\ ChunkReachedSampleLimit(started, t)
        THEN OnNewChunkStarted(started, t) ELSE started

\* addMatch: the frame, then the padding after it.
AddMatch(w, off, m) ==
    LET added == AddFrames(ChunkForMatch(w, m.track, off), m.track, off, 1, m.length)
        counted == [added EXCEPT !.current[m.track].n = @ + 1]
    IN  IF m.pad = 0 THEN counted
        ELSE [AddToExclude(counted, off + m.length, m.pad) EXCEPT !.done_padding = TRUE]

\* tryChunkPrediction with the chunk c found.  Inside unknown bytes a chunk of the
\* dummy track makes them more.  n samples of the (average) sample size are added.
AddPredicted(w, off, c) ==
    LET ended == IF w.unknown_length = 0 THEN w
                 ELSE IF c.track = Free THEN [w EXCEPT !.unknown_length = @ + c.size]
                 ELSE CorrectChunkIdx(ChkUnknownSequenceEnded(w, off), c.track)
        started == OnNewChunkStarted(ended, c.track)
        filled == [started EXCEPT !.current[c.track] =
                      [off |-> off, already_excluded |-> started.total_excluded,
                       size |-> c.size, n |-> c.n]]
    IN  IF c.track = Free THEN filled
        ELSE AddFrames(filled, c.track, off, c.n, c.sample)

\* shouldPreferChunkPrediction: the prediction is asked before the matchers.
PreferPrediction(w) ==
    /\ job.use_chunk_stats
    /\ IF w.last_track = Start THEN job.ref[job.orig_first].predictable
       ELSE ~NoLastTrack(w) /\ ChunkProbablyAtEnd(w, w.last_track)

\* A mutant: the track before the unknown bytes stays the last one.
EnterUnknownKeepTrack(w) == IF w.unknown_length = 0 THEN PushBackLastChunk(w) ELSE w

\* No matcher and no prediction: a free sequence begins or goes on.
EnterUnknown(w) ==
    IF w.unknown_length = 0 THEN SetLastTrack(PushBackLastChunk(w), Free) ELSE w

-----------------------------------------------------------------------------
(***************************************************************************)
(* The loop.  pc is "start" before calcStartOffset, "advance" where        *)
(* chkOffset is called, "skip" in the loop of advanceOffset, "try" where   *)
(* tryAll is called, and "done" after the loop.                            *)
(***************************************************************************)
Init ==
    /\ job \in Jobs
    /\ pc = "start" /\ offset = 0 /\ from = 0 /\ padding = 0
    /\ st = InitState

Running == st.failed = "none"

\* Where calcStartOffset may begin: at the first chunk's absolute or relative
\* offset in the reference file, the latter also after skipped atoms (skipped).
\* That wouldMatch throws at an offset near the content's end is left out.
StartPoints ==
    {[skipped |-> 0, off |-> 0]} \cup
    IF ~job.use_chunk_stats THEN {}
    ELSE {[skipped |-> 0, off |-> o] : o \in {job.first_abs, job.first_rel} \cap 1 .. Size - 1}
         \cup {[skipped |-> s, off |-> s + job.first_rel] :
                 s \in {x \in 1 .. Size - 1 : job.first_rel > 0 /\ x + job.first_rel < Size}}

CalcStartOffset ==
    /\ pc = "start"
    /\ \E p \in StartPoints :
         /\ offset' = p.off
         /\ st' = IF p.off = 0 THEN st ELSE AddUnknownSequence(st, p.skipped, p.off)
    /\ pc' = "advance"
    /\ UNCHANGED <<job, from, padding>>

\* The padding getChunkPadding reports, and whether it is the chunk's own.
OwnPadding(w) ==
    IF w.last_track # Free /\ ~w.done_padding_after
    THEN Max({0, job.ref[w.last_track].pad_after_chunk}) ELSE 0

CurrentChunkIsDone(w) ==
    /\ job.use_chunk_stats
    /\ ~NoLastTrack(w)
    /\ ChunkProbablyAtEnd(w, w.last_track)

AlignPadding(w, off) ==
    LET step == StepToNextOwnChunkAbs(LikelyNext(w).track, off)
    IN  IF job.order # <<>> /\ step > MinAlign THEN step ELSE 0

\* chkOffset and advanceOffset up to the loop.
GetChunkPadding ==
    LET own == CurrentChunkIsDone(st) /\ OwnPadding(st) > 0
        pad == IF own THEN OwnPadding(st)
               ELSE IF CurrentChunkIsDone(st) THEN AlignPadding(st, offset) ELSE 0
    IN  /\ Running /\ pc = "advance"
        /\ from' = offset
        /\ padding' = pad
        /\ st' = [st EXCEPT !.done_padding_after = @ \/ own,
                            !.done_padding = @ \/ (pad > 0 /\ offset < Size)]
        /\ offset' = IF offset < Size THEN offset + pad ELSE offset
        /\ pc' = "skip"
        /\ UNCHANGED job

\* has_zero_transitions_: zeros may be the start of a chunk, so the prediction is asked.
AfterZeros ==
    IF job.use_chunk_stats /\ job.zero_transitions
    THEN {Predicting(st, p) : p \in Misses(st, offset, TRUE)} ELSE {st}

SkipZeros ==
    /\ Running /\ pc = "skip" /\ offset < Size
    /\ padding = 0
    /\ st' \in AfterZeros
    /\ offset' = offset + ZeroLength(st, offset)
    /\ UNCHANGED <<job, pc, from, padding>>

\* An mdat header (skipAtomHeaders) or an atom (skipAtoms) that fits.
Skippable == {HeaderSize} \cup {len \in AtomLens : len <= Size - offset}

\* skipZeros is called first.  Where it asks for a prediction and does not skip,
\* for a chunk was found or padding was applied, the loop goes on with these.
ZeroTests ==
    {st} \cup
    IF ~job.use_chunk_stats \/ ~job.zero_transitions THEN {}
    ELSE {Predicting(st, p) : p \in {q \in Predictions(st, offset, TRUE) :
                                        padding > 0 \/ q.chunk # Nothing}}

SkipAtom ==
    /\ Running /\ pc = "skip" /\ offset < Size
    /\ \E len \in Skippable : offset' = offset + len
    /\ \E w \in ZeroTests : st' = ChkUnknownSequenceEnded(w, offset)
    /\ UNCHANGED <<job, pc, from, padding>>

\* A mutant: an exclusion is made whether or not something was skipped.
AfterAdvanceAlways(w) == IF w.unknown_length = 0 THEN ExcludeSkipped(w, from, offset) ELSE w

\* A mutant: what was skipped is left in.
AfterAdvanceKeeping(w) == w

\* What chkOffset excludes once advanceOffset is back.
AfterAdvance(w) ==
    IF offset > from /\ w.unknown_length = 0 THEN ExcludeSkipped(w, from, offset) ELSE w

\* Nothing is left to skip: advanceOffset leaves its loop.
EndAdvance ==
    /\ Running /\ pc = "skip" /\ offset < Size
    /\ \E w \in ZeroTests : st' = AfterAdvance(w)
    /\ pc' = "try"
    /\ UNCHANGED <<job, offset, from, padding>>

\* The end of the content.
ReachEnd ==
    /\ Running /\ pc = "skip" /\ offset >= Size
    /\ st' = ChkUnknownSequenceEnded(PushBackLastChunk(AfterAdvance(st)), offset)
    /\ pc' = "done"
    /\ UNCHANGED <<job, offset, from, padding>>

\* The states tryMatch can start in: a prediction may have been asked before.
BeforeMatch ==
    IF PreferPrediction(st) THEN {Predicting(st, p) : p \in Misses(st, offset, FALSE)} ELSE {st}

TryMatch ==
    /\ Running /\ pc = "try"
    /\ \E asked \in BeforeMatch :
         \E m \in Matches(asked, offset) :
               /\ st' = AddMatch(AfterExpected(asked, m.track), offset, m)
               /\ offset' = offset + m.length + m.pad
    /\ pc' = "advance"
    /\ UNCHANGED <<job, from, padding>>

TryChunkPrediction ==
    /\ Running /\ pc = "try" /\ job.use_chunk_stats
    /\ \E p \in Predictions(st, offset, FALSE) :
         /\ p.chunk # Nothing
         /\ st' = AddPredicted(Predicting(st, p), offset, p.chunk)
         /\ offset' = offset + p.chunk.size
    /\ pc' = "advance"
    /\ UNCHANGED <<job, from, padding>>

\* tryAll fails and -s is given: step over unknown bytes.
StepThroughUnknown ==
    /\ Running /\ pc = "try" /\ job.ignore_unknown
    /\ \E p \in Misses(st, offset, FALSE) :
         LET w == EnterUnknown(IF job.use_chunk_stats THEN Predicting(st, p) ELSE st)
             step == CalcStep(w, offset)
         IN  /\ st' = [w EXCEPT !.unknown_length = @ + step]
             /\ offset' = offset + step
    /\ pc' = "advance"
    /\ UNCHANGED <<job, from, padding>>

\* tryAll fails without -s: the content ends here (file_end_, length_).
PrematureEnd ==
    /\ Running /\ pc = "try" /\ ~job.ignore_unknown
    /\ \E p \in Misses(st, offset, FALSE) :
         LET w == EnterUnknown(IF job.use_chunk_stats THEN Predicting(st, p) ELSE st)
         IN  st' = [w EXCEPT !.content_size = offset]
    /\ pc' = "done"
    /\ UNCHANGED <<job, offset, from, padding>>

\* Before anything was found, anyPatternMatchesHalf reads half a pattern at the offset, and so
\* does chunkStartLooksInvalid of a chunk of the order, unless the track's starts were
\* unpredictable: nearer to the content's end getFragment throws, and the repair ends there.
ThrowBeyondEnd ==
    /\ Running /\ job.use_chunk_stats /\ offset < Size
    /\ pc = "try" \/ (pc = "skip" /\ job.zero_transitions)
    /\ st.last_track = Start /\ offset + PatHalf > Size
    /\ PredictsViaOrder(st, offset) => OrderChunks(st, offset) # {Nothing}
    /\ st' = [st EXCEPT !.failed = "getFragment"]
    /\ UNCHANGED <<job, pc, offset, from, padding>>

Next ==
    \/ CalcStartOffset \/ GetChunkPadding \/ SkipZeros \/ SkipAtom \/ EndAdvance
    \/ ReachEnd \/ TryMatch \/ TryChunkPrediction \/ StepThroughUnknown \/ PrematureEnd
    \/ ThrowBeyondEnd

\* The program is sequential: it keeps running until the loop ends.
Spec == Init /\ [][Next]_vars /\ WF_vars(Next)

-----------------------------------------------------------------------------
(* What the scan promises                                                  *)

ChunkRecord == [off : Nat, already_excluded : Int, size : Nat, n : Nat]

Failures == {"none", "addToExclude", "addUnknownSequence", "chkExcludeOverlap",
             "finalizeCurrentChunk", "correctChunkIdx", "correctChunkIdx loop",
             "correctChunkIdxSimple", "onFirstChunkFound", "currentChunkFinished", "getFragment"}

StateType ==
    [excluded : Seq([start : Int, length : Int]), total_excluded : Int, content_size : Nat,
     unknown_length : Nat, unknown_sequences : Seq([start : Int, length : Nat]),
     last_track : AllTracks \cup {Start},
     done_padding : BOOLEAN, done_padding_after : BOOLEAN,
     first_chunk_found : BOOLEAN, ignored_chunk_order : BOOLEAN,
     next_chunk : Nat,
     current : [AllTracks -> ChunkRecord],
     chunks : [AllTracks -> Seq(ChunkRecord)],
     frames : [AllTracks -> Seq([off : Nat, length : Nat])],
     failed : Failures]

\* Every variable has the type its C++ declaration gives it.
TypeOK ==
    /\ job \in Jobs
    /\ pc \in {"start", "advance", "skip", "try", "done"}
    /\ offset \in Nat /\ from \in Nat /\ padding \in Nat
    /\ st \in StateType

\* No assertt of the scan is violated: a broken file, whatever it contains, never
\* makes the repair abort; only the read of ThrowBeyondEnd does.
NoAssertionFails == st.failed \in {"none", "getFragment"}

Bytes(range) == range.start .. range.start + range.length - 1
ExcludedBytes == UNION {Bytes(st.excluded[i]) : i \in DOMAIN st.excluded}

\* The sequences to exclude are in file order and apart, and none is ahead of what
\* was read or, between chkOffset and the tail it still holds back, of the unknown
\* bytes: BufferedAtom::write walks them once, front to back.
ExclusionsInOrder ==
    /\ \A i, j \in DOMAIN st.excluded :
         i < j => st.excluded[i].start + st.excluded[i].length <= st.excluded[j].start
    /\ \A i \in DOMAIN st.excluded :
         /\ st.excluded[i].start >= 0 /\ st.excluded[i].length >= 0
         /\ st.excluded[i].start + st.excluded[i].length <= Min({offset, Size})

\* What BufferedAtom::write asserts of the list, and relies on: it steps over one sequence
\* per read, so a second one at the same place, or an empty one ahead of content, would
\* abort it after the scan succeeded; and what it leaves is as long as the content less
\* total_excluded_yet_, the length written ahead.
WriteAccepts ==
    /\ pc = "done" => st.total_excluded = Cardinality(ExcludedBytes \cap 0 .. st.content_size - 1)
    /\ \A i, j \in DOMAIN st.excluded : i < j => st.excluded[i].start < st.excluded[j].start
    /\ \A i \in DOMAIN st.excluded : st.excluded[i].length > 0 \/ st.excluded[i].start = Size

\* total_excluded_yet_ is the number of bytes excluded: the length of the repaired
\* mdat is computed from it before the bytes are written.
TotalIsExcluded == st.total_excluded = Cardinality(ExcludedBytes)

Found == UNION {Elements(st.frames[t]) : t \in Tracks}
FrameBytes(f) == f.off .. f.off + f.length - 1

\* No byte of a frame is left out of the output, and no byte belongs to two frames.
FramesAreKept ==
    /\ \A f \in Found : FrameBytes(f) \cap ExcludedBytes = {}
    /\ \A t, u \in Tracks : \A i \in DOMAIN st.frames[t], j \in DOMAIN st.frames[u] :
         (t # u \/ i # j) => FrameBytes(st.frames[t][i]) \cap FrameBytes(st.frames[u][j]) = {}

\* The sums of a sequence's first numbers.
SumUpTo(numbers) ==
    LET sum[i \in 0 .. Len(numbers)] == IF i = 0 THEN 0 ELSE sum[i - 1] + numbers[i] IN sum

Counts(chunks) == [k \in DOMAIN chunks |-> chunks[k].n]
Lengths(frames) == [i \in DOMAIN frames |-> frames[i].length]

\* The chunks of a track that will be stored, and the samples before the k-th.
StoredChunks(t) ==
    IF st.current[t].n > 0 /\ st.last_track = t THEN Append(st.chunks[t], st.current[t])
    ELSE st.chunks[t]
SamplesBefore(t, k) == SumUpTo(Counts(StoredChunks(t)))[k - 1]

\* Where a byte of the broken file ends up in the repaired mdat.
NewPosition(b) == b - Cardinality({x \in ExcludedBytes : x < b})

\* Where a player looks for the j-th sample of the k-th chunk: the chunk offset
\* saved by applyExcludedToOffs, then the sizes of the samples before.
TablePosition(t, k, j) ==
    LET sizes == SumUpTo(Lengths(st.frames[t]))
        before == SamplesBefore(t, k)
    IN  StoredChunks(t)[k].off - StoredChunks(t)[k].already_excluded
        + (sizes[before + j - 1] - sizes[before])

EverySampleHasAChunk ==
    \A t \in Tracks : SamplesBefore(t, Len(StoredChunks(t)) + 1) = Len(st.frames[t])

\* Every sample belongs to exactly one chunk, so that stsc and stsz agree, and the sample
\* tables lead to its own bytes in the repaired mdat.
SampleTableExact ==
    /\ EverySampleHasAChunk
    /\ ~job.dont_exclude =>
      \A t \in Tracks : \A k \in DOMAIN StoredChunks(t) : \A j \in 1 .. StoredChunks(t)[k].n :
         TablePosition(t, k, j) = NewPosition(st.frames[t][SamplesBefore(t, k) + j].off)

\* What is excluded later lies behind every frame found: already_excluded_, taken
\* when a chunk begins, never goes stale.
ExcludesOnlyBehindFrames ==
    [][\A i \in DOMAIN st'.excluded \ DOMAIN st.excluded :
         \A f \in Found : st'.excluded[i].start >= f.off + f.length]_vars

\* Unknown bytes are being counted only in a free sequence (asserted in
\* shouldBeStrict, mp4_match.cpp:15).
UnknownOnlyInFree == st.unknown_length > 0 => st.last_track = Free

\* Without -s every byte of the repaired mdat belongs to a frame: what it holds was recognised.
StrictScanKeepsOnlyFrames ==
    pc = "done" /\ ~job.dont_exclude /\ ~job.ignore_unknown =>
        \A b \in 0 .. st.content_size - 1 :
            b \in ExcludedBytes \/ \E f \in Found : b \in FrameBytes(f)

\* The scan ends, whatever the file contains.
Terminates == <>(pc = "done" \/ st.failed # "none")
=============================================================================
