----------------------------- MODULE ChunkStats -----------------------------
(***************************************************************************)
(* What the repair learns from the healthy file's chunks before it scans   *)
(* the broken one (Mp4Repairer::prepareStats): DynStatsBuilder::generate   *)
(* (core/dyn_stats_builder.cpp), the chunk iterator it walks               *)
(* (core/chunk_it.cpp), Track's merging and likely values (track/track.cpp)*)
(* and the chunk order (core/mp4_stats.cpp).                               *)
(*                                                                         *)
(* The healthy file is the job: its chunks in the order of the file, each  *)
(* with the sizes of its samples and the unused bytes behind it.  Chunks   *)
(* beyond the mdat's end and more than 100 transitions of a pair, of which *)
(* the code picks some, are left out.                                      *)
(***************************************************************************)
EXTENDS Integers, Sequences, FiniteSetsExt, SequencesExt, TrackOrder
CONSTANTS Jobs,         \* [start, lead, layout, media, clean, dyn]: where the content starts, the bytes
                        \* before the first chunk, the chunks [track, sizes, gap], each track's
                        \* [codec, supported, constant], whether advanceOffset steps over what
                        \* the gaps hold, and the option -dyn
          HalfPattern,  \* pat_size_ / 2, 16
          TmcdSize,     \* a tmcd track whose first chunk is not larger is a bad one, 4
          IgnoreFirst,  \* its chunks are ignored among as many first chunks, 10
          MinSizes,     \* sizes it takes to believe in an alignment, 3
          OrderEntries, \* chunks an order is looked for in, 101
          OrderLimit,   \* longest order whose last repetition may differ, 4
          FewCounts,    \* so many different sample counts are all likely, 3
          PaddingGcd,   \* an alignment of the free chunks that counts as padding, 8
          Unclear       \* more transitions without a pattern make one unclear, 5

None == -1

VARIABLES job,      \* never changes
          phase,    \* the step that comes next, "done" or "failed"
          tracks,   \* the tracks; the last is the dummy track 'free' while there is one
          idx_free, \* its index
          left, last_chunk,  \* chunks genChunkTransitions has yet to see, and the one it saw last
          merged,   \* analyzeFree has merged chunks: the transitions are made again
          chunk_transitions, free_seqs,
          scan,     \* first_off_abs_ and orig_first_track_
          order,    \* track_order_ and track_order_simple_
          has_unclear_transition,
          dummy     \* is_skippable_ and do_padding_skip_
walk == <<left, last_chunk, merged, chunk_transitions, free_seqs, scan>>
vars == <<job, phase, tracks, idx_free, walk, order, has_unclear_transition, dummy>>

Sum(numbers) == FoldLeft(+, 0, numbers)
InOrder(S, before(_, _)) ==
    [i \in 1 .. Cardinality(S) |-> CHOOSE x \in S : Cardinality({y \in S : before(y, x)}) = i - 1]
GcdOf(S) == Max({d \in 1 .. Min(S) : \A s \in S : s % d = 0})

(***************************************************************************)
(* Tracks and their chunks                                                 *)
(***************************************************************************)
Chunk(off, size, n) == [off |-> off, size |-> size, n |-> n]
NewTrack(media, sizes, chunks) ==
    [media |-> media, sizes |-> sizes, chunks |-> chunks, pkt_sz_gcd |-> 1,
     pad_after_chunk |-> None, last_pad_after_chunk |-> None,
     likely_sample_sizes |-> {}, likely_n_samples |-> {},
     chunk_distance_gcd |-> 1, start_off_gcd |-> 1, end_off_gcd |-> 1]
Dummy == NewTrack([codec |-> "free", supported |-> FALSE, constant |-> 1], <<>>, <<>>)

RealTracks == DOMAIN tracks \ {idx_free}
IsChunkTrack(t) == t.media.constant # 0
SizeOf(t, i) == IF IsChunkTrack(t) THEN t.media.constant ELSE t.sizes[i]
Aligned(t, size) == size + ((t.pkt_sz_gcd - (size % t.pkt_sz_gcd)) % t.pkt_sz_gcd)

\* How many samples come before the track's chunk c.
Before(t, c) == Sum([i \in 1 .. c - 1 |-> t.chunks[i].n])

\* The chunks with their sizes: as read, or with each sample aligned.
Sized(t) ==
    [c \in DOMAIN t.chunks |->
        [t.chunks[c] EXCEPT !.size = Sum([i \in 1 .. t.chunks[c].n |-> Aligned(t, SizeOf(t, Before(t, c) + i))])]]

\* Mutant: chunks are joined over a gap, too.
MergeNear(t) ==
    [t EXCEPT !.chunks =
        FoldLeft(LAMBDA done, c :
                    IF done # <<>> /\ Last(done).off + Last(done).size + 1 >= c.off
                    THEN Append(Front(done), Chunk(Last(done).off, Last(done).size + c.size, Last(done).n + c.n))
                    ELSE Append(done, c),
                 <<>>, Sized(t))]

MergeChunks(t) ==
    [t EXCEPT !.chunks =
        FoldLeft(LAMBDA done, c :
                    IF done # <<>> /\ Last(done).off + Last(done).size = c.off
                    THEN Append(Front(done), Chunk(Last(done).off, Last(done).size + c.size, Last(done).n + c.n))
                    ELSE Append(done, c),
                 <<>>, Sized(t))]

GenChunkSizes(t) == IF t.chunks[1].n = 1 THEN MergeChunks(t) ELSE [t EXCEPT !.chunks = Sized(t)]

(***************************************************************************)
(* ChunkIt: the chunks of all tracks in the order of the file.             *)
(***************************************************************************)
\* Of several tmcd tracks only the first may be bad.
BadTmcd(t) ==
    LET c == tracks[t].chunks
    IN  /\ tracks[t].media.codec = "tmcd" /\ (c = <<>> \/ c[1].size <= TmcdSize)
        /\ \A u \in 1 .. t - 1 : tracks[u].media.codec # "tmcd"

AllChunks(indices, do_filter) ==
    LET all == UNION {{[track |-> t, chunk |-> c] : c \in ToSet(tracks[t].chunks)} : t \in indices}
        before(a, b) == a.chunk.off < b.chunk.off \/ (a.chunk.off = b.chunk.off /\ a.track < b.track)
        sorted == InOrder(all, before)
        marked == [i \in DOMAIN sorted |->
                      [track |-> sorted[i].track, off |-> sorted[i].chunk.off, size |-> sorted[i].chunk.size,
                       n |-> sorted[i].chunk.n,
                       should_ignore |-> i <= IgnoreFirst /\ BadTmcd(sorted[i].track)]]
    IN  IF do_filter THEN SelectSeq(marked, LAMBDA c : ~c.should_ignore) ELSE marked
NoChunk == [track |-> None, off |-> None, size |-> None, n |-> None, should_ignore |-> FALSE]
EndOf(c) == c.off + c.size

(***************************************************************************)
(* The healthy file                                                        *)
(***************************************************************************)
OffsetOf(j, i) == j.start + j.lead + Sum([k \in 1 .. i - 1 |-> Sum(j.layout[k].sizes) + j.layout[k].gap])
TrackOf(j, t) ==
    LET items == InOrder({i \in DOMAIN j.layout : j.layout[i].track = t}, <)
        sizes == FlattenSeq([k \in DOMAIN items |-> j.layout[items[k]].sizes])
    IN  NewTrack(j.media[t], IF j.media[t].constant # 0 THEN <<>> ELSE sizes,
                 [k \in DOMAIN items |-> Chunk(OffsetOf(j, items[k]), None, Len(j.layout[items[k]].sizes))])

Init ==
    /\ job \in Jobs
    /\ phase = "prepare"
    /\ tracks = [t \in DOMAIN job.media |-> TrackOf(job, t)]
    /\ idx_free = None
    /\ left = <<>> /\ last_chunk = NoChunk /\ merged = FALSE
    /\ chunk_transitions = <<>> /\ free_seqs = <<>>
    /\ scan = [first_off |-> None, first_track |-> None]
    /\ order = [full |-> <<>>, simple |-> <<>>]
    /\ has_unclear_transition = {}
    /\ dummy = [is_skippable |-> FALSE, do_padding_skip |-> FALSE]

(***************************************************************************)
(* genChunkTransitions                                                     *)
(***************************************************************************)
\* supported is FALSE also of a track that only statistics can size (needsDynStatsForSizing).
NeedDynStats == job.dyn \/ \E t \in DOMAIN tracks : ~tracks[t].media.supported

\* genChunks.
GenChunks ==
    /\ phase = "prepare" /\ NeedDynStats
    /\ tracks' = [t \in DOMAIN tracks |-> GenChunkSizes(tracks[t])]
    /\ phase' = "begin"
    /\ UNCHANGED <<job, idx_free, walk, order, has_unclear_transition, dummy>>

BeginTransitions ==
    /\ phase = "begin"
    /\ tracks' = Append(tracks, Dummy)
    /\ idx_free' = Len(tracks) + 1
    /\ left' = AllChunks(DOMAIN tracks, FALSE)
    /\ last_chunk' = NoChunk
    /\ phase' = "walk"
    /\ UNCHANGED <<job, merged, chunk_transitions, free_seqs, scan, order, has_unclear_transition, dummy>>

AdjustPadAfterChunk(t, new_pad) ==
    [t EXCEPT !.pad_after_chunk = IF t.last_pad_after_chunk = None THEN @
                                  ELSE IF @ \in {None, t.last_pad_after_chunk} THEN t.last_pad_after_chunk ELSE 0,
              !.last_pad_after_chunk = new_pad]

Walks(c) ==
    /\ phase = "walk" /\ left # <<>> /\ c = Head(left)
    /\ left' = Tail(left)
    /\ last_chunk' = c
    /\ scan' = IF ~c.should_ignore /\ scan.first_off = None THEN [first_off |-> c.off, first_track |-> c.track] ELSE scan
    /\ UNCHANGED <<job, idx_free, merged, order, has_unclear_transition, dummy>>

\* The first chunk, one that is ignored, and those too near to the start for a pattern.
HasNoTransition(c) == c.should_ignore \/ last_chunk = NoChunk \/ c.off - job.start < HalfPattern
PassChunk ==
    \E c \in ToSet(left) :
      /\ Walks(c) /\ HasNoTransition(c)
      /\ UNCHANGED <<phase, tracks, chunk_transitions, free_seqs>>

Transition(from, to, off) == [from |-> from, to |-> to, off |-> off]
NextChunk ==
    \E c \in ToSet(left) :
      /\ Walks(c) /\ ~HasNoTransition(c)
      /\ c.off = EndOf(last_chunk)
      /\ chunk_transitions' = Append(chunk_transitions, Transition(last_chunk.track, c.track, c.off))
      /\ tracks' = [tracks EXCEPT ![last_chunk.track] = AdjustPadAfterChunk(@, 0)]
      /\ UNCHANGED <<phase, free_seqs>>

FindFree ==
    \E c \in ToSet(left) :
      LET end == EndOf(last_chunk)
          sz == c.off - end
      IN  /\ Walks(c) /\ ~HasNoTransition(c)
          /\ sz > 0
          /\ chunk_transitions' = chunk_transitions \o
                <<Transition(last_chunk.track, idx_free, end), Transition(idx_free, c.track, c.off)>>
          /\ tracks' = [tracks EXCEPT ![idx_free].chunks = Append(@, Chunk(end, sz, sz)),
                                      ![last_chunk.track] = AdjustPadAfterChunk(@, sz)]
          /\ free_seqs' = Append(free_seqs, [offset |-> end, sz |-> sz, prev |-> last_chunk.track, last_size |-> last_chunk.size])
          /\ UNCHANGED phase

\* assertt(off >= last_end)
FailOverlap ==
    \E c \in ToSet(left) :
      /\ Walks(c) /\ ~HasNoTransition(c)
      /\ c.off < EndOf(last_chunk)
      /\ phase' = "failed"
      /\ UNCHANGED <<tracks, chunk_transitions, free_seqs>>

\* Mutant: the dummy track stays although there was nothing for it.
EndKeepingDummy ==
    /\ phase = "walk" /\ left = <<>>
    /\ phase' = IF merged THEN "order" ELSE "analyze"
    /\ UNCHANGED <<job, tracks, idx_free, walk, order, has_unclear_transition, dummy>>

EndTransitions ==
    LET none == tracks[idx_free].chunks = <<>>
    IN  /\ phase = "walk" /\ left = <<>>
        /\ tracks' = IF none THEN Front(tracks) ELSE tracks
        /\ idx_free' = IF none THEN None ELSE idx_free
        /\ phase' = IF merged THEN "order" ELSE "analyze"
        /\ UNCHANGED <<job, walk, order, has_unclear_transition, dummy>>

(***************************************************************************)
(* analyzeFree: do a track's packets, with what follows each of them, all  *)
(* have sizes that are multiples of something?                             *)
(***************************************************************************)
\* The sizes that speak for the track's alignment, by sample: those with a
\* sample of their chunk behind them, and those with padding and then a chunk
\* of their own track.  (last_padding outlives a chunk track's chunk, but that chunk
\* is last_real then.)
PktSizes(t) ==
    LET track == tracks[t]
        all == AllChunks(DOMAIN tracks, FALSE)
        inner == {i \in DOMAIN track.sizes :
                     \A c \in DOMAIN track.chunks : i # Before(track, c) + track.chunks[c].n}
        ended(k) == Sum([i \in 1 .. k |-> IF all[i].track = t THEN all[i].n ELSE 0])
        padded == {k \in 2 .. Len(all) - 1 :
                      all[k].track = idx_free /\ all[k - 1].track = t /\ all[k + 1].track = t}
    IN  {<<i, SizeOf(track, i)>> : i \in inner}
            \cup {<<ended(k), SizeOf(track, ended(k)) + all[k].size>> : k \in padded}
PktSzGcd(t) == GcdOf({s[2] : s \in PktSizes(t)})
PadsPackets(t) == ~IsChunkTrack(tracks[t]) /\ Cardinality(PktSizes(t)) >= MinSizes /\ PktSzGcd(t) > 1

AnalyzeFree ==
    /\ phase = "analyze"
    /\ LET found == IF idx_free = None THEN {} ELSE {t \in RealTracks : PadsPackets(t)}
           merge == [t \in DOMAIN tracks |-> IF t \in found THEN MergeChunks([tracks[t] EXCEPT !.pkt_sz_gcd = PktSzGcd(t)])
                                             ELSE tracks[t]]
       IN  /\ tracks' = merge
           /\ phase' = IF found = {} THEN "order" ELSE "reset"
           /\ merged' = (found # {})
    /\ UNCHANGED <<job, idx_free, left, last_chunk, chunk_transitions, free_seqs, scan, order, has_unclear_transition, dummy>>

\* Mutant: the padding learnt before the merge stays.
KeepPads(t) == t

Forgotten(t) == [t EXCEPT !.pad_after_chunk = None, !.last_pad_after_chunk = None]
ResetTransitions ==
    /\ phase = "reset"
    /\ tracks' = [t \in RealTracks |-> Forgotten(tracks[t])]
    /\ idx_free' = None
    /\ chunk_transitions' = <<>> /\ free_seqs' = <<>>
    /\ phase' = "begin"
    /\ UNCHANGED <<job, left, last_chunk, merged, scan, order, has_unclear_transition, dummy>>

(***************************************************************************)
(* Orders and likely values                                                *)
(***************************************************************************)
FoundOrder ==
    LET all == AllChunks(RealTracks, TRUE)
        entries == [i \in 1 .. Min({Len(all), OrderEntries}) |-> [track |-> all[i].track, n |-> all[i].n]]
    IN  [full |-> FindOrder(entries, OrderLimit), simple |-> FindOrderSimple(entries)]

GenTrackOrder ==
    /\ phase = "order"
    /\ order' = FoundOrder
    /\ phase' = "likely"
    /\ UNCHANGED <<job, tracks, idx_free, walk, has_unclear_transition, dummy>>

\* Sizes are drawn at random from all but the last; what makes a fifth of the draws is likely.
LikelySizes(t) ==
    LET n == Len(t.sizes)
        drawn == ToSet(Front(t.sizes))
        draws == {d \in [drawn -> 0 .. n] : FoldFunction(+, 0, d) = n}
    IN  IF n > 1 THEN {{s \in drawn : 5 * d[s] >= n} : d \in draws}
        ELSE IF IsChunkTrack(t) THEN {{t.media.constant}} ELSE {{t.sizes[1]}}

\* Sample counts of all chunks but the last.
LikelyCounts(t) ==
    LET counts == [i \in 1 .. Len(t.chunks) - 1 |-> t.chunks[i].n]
    IN  {n \in ToSet(counts) : \/ Cardinality(ToSet(counts)) <= FewCounts
                               \/ 5 * Len(SelectSeq(counts, LAMBDA m : m = n)) >= Len(counts)}

\* Mutant: the distances between chunks are taken to be multiples of the first.
FirstDistance(t, sizes) ==
    [t EXCEPT !.likely_sample_sizes = sizes, !.likely_n_samples = LikelyCounts(t),
              !.chunk_distance_gcd = IF Len(t.chunks) = 1 THEN 1 ELSE t.chunks[2].off - t.chunks[1].off]

\* genLikely, called once.  What share the likely values make up is RepairScan's predictable and
\* likely_n_p, whatever it is.
GenLikely(t, sizes) ==
    LET c == t.chunks
        gcd(values) == IF Len(c) = 1 THEN 1 ELSE GcdOf(values)
    IN  [t EXCEPT !.likely_sample_sizes = sizes,
                  !.likely_n_samples = LikelyCounts(t),
                  !.chunk_distance_gcd = gcd({c[i + 1].off - c[i].off : i \in 1 .. Len(c) - 1}),
                  !.start_off_gcd = gcd({c[i].off : i \in DOMAIN c}),
                  !.end_off_gcd = gcd({EndOf(c[i]) : i \in DOMAIN c})]

GenLikelyAll ==
    /\ phase = "likely"
    /\ \E sizes \in [DOMAIN tracks -> UNION {LikelySizes(tracks[t]) : t \in DOMAIN tracks}] :
         /\ \A t \in DOMAIN tracks : sizes[t] \in LikelySizes(tracks[t])
         /\ tracks' = [t \in DOMAIN tracks |-> GenLikely(tracks[t], sizes[t])]
    /\ phase' = "patterns"
    /\ UNCHANGED <<job, idx_free, walk, order, has_unclear_transition, dummy>>

(***************************************************************************)
(* genDynPatterns and setHasUnclearTransition: whether a pair of tracks    *)
(* has a pattern depends on the bytes where the one follows the other.     *)
(***************************************************************************)
GenDynPatterns ==
    LET count(a, b) == Len(SelectSeq(chunk_transitions, LAMBDA x : x.from = a /\ x.to = b))
        often == {p \in (DOMAIN tracks) \X (DOMAIN tracks) :
                     ~tracks[p[2]].media.supported /\ count(p[1], p[2]) > Unclear}
    IN  /\ phase = "patterns"
        /\ \E withoutPattern \in SUBSET often : has_unclear_transition' = withoutPattern
        /\ phase' = "dummy"
        /\ UNCHANGED <<job, tracks, idx_free, walk, order, dummy>>

(***************************************************************************)
(* setDummyIsSkippable                                                     *)
(***************************************************************************)
\* chooseFreeSeqs: without the last behind each track, which may be another.
ChosenFreeSeqs ==
    LET kept == {i \in DOMAIN free_seqs : \E k \in i + 1 .. Len(free_seqs) : free_seqs[k].prev = free_seqs[i].prev}
        at == InOrder(kept, <)
    IN  [k \in DOMAIN at |-> free_seqs[at[k]]]

\* advanceOffset gets to the end of the sequence from one of the offsets tried.
IsSteppedOver(s) ==
    LET t == tracks[s.prev]
        to_pad == Aligned(t, s.last_size) - s.last_size
        tried == {s.offset + to_pad, s.offset + to_pad + t.pad_after_chunk}
    IN  \E off \in tried : off = s.offset + s.sz \/ (job.clean /\ off < s.offset + s.sz)

\* An absent dummy track leaves everything as it is.
SetDummyIsSkippable ==
    /\ phase = "dummy"
    /\ IF idx_free = None THEN UNCHANGED <<free_seqs, dummy>>
       ELSE LET padding == tracks[idx_free].end_off_gcd >= PaddingGcd
                canSkipFree == \A i \in DOMAIN ChosenFreeSeqs : IsSteppedOver(ChosenFreeSeqs[i])
            IN  /\ dummy' = [is_skippable |-> canSkipFree \/ padding, do_padding_skip |-> padding]
                /\ free_seqs' = ChosenFreeSeqs
    /\ phase' = "done"
    /\ UNCHANGED <<job, tracks, idx_free, left, last_chunk, merged, chunk_transitions, scan, order, has_unclear_transition>>

(***************************************************************************)
(* setDuplicateInfo, where no statistics are needed: the order only tells  *)
(* tracks of the same codec apart.                                         *)
(***************************************************************************)
Duplicates == {t \in DOMAIN tracks : \E u \in DOMAIN tracks \ {t} : tracks[u].media.codec = tracks[t].media.codec}
SetDuplicateInfo ==
    /\ phase = "prepare" /\ ~NeedDynStats
    /\ \E sizes \in [Duplicates -> UNION {LikelySizes(tracks[t]) : t \in Duplicates}] :
         /\ \A t \in Duplicates : sizes[t] \in LikelySizes(tracks[t])
         /\ tracks' = [t \in DOMAIN tracks |-> IF t \in Duplicates THEN GenLikely(tracks[t], sizes[t]) ELSE tracks[t]]
    /\ order' = IF Duplicates = {} THEN order ELSE FoundOrder
    /\ phase' = "done"
    /\ UNCHANGED <<job, idx_free, walk, has_unclear_transition, dummy>>

Next == \/ GenChunks \/ BeginTransitions \/ PassChunk \/ NextChunk \/ FindFree \/ FailOverlap \/ EndTransitions
        \/ AnalyzeFree \/ ResetTransitions \/ GenTrackOrder \/ GenLikelyAll \/ GenDynPatterns
        \/ SetDummyIsSkippable \/ SetDuplicateInfo
Spec == Init /\ [][Next]_vars

(***************************************************************************)
(* Properties                                                              *)
(***************************************************************************)
TrackType ==
    [media : ToSet(job.media) \cup {Dummy.media}, sizes : Seq(Nat), chunks : Seq([off : Nat, size : Nat \cup {None}, n : Nat]),
     pkt_sz_gcd : Nat \ {0}, pad_after_chunk : Nat \cup {None}, last_pad_after_chunk : Nat \cup {None},
     likely_sample_sizes : SUBSET Nat, likely_n_samples : SUBSET Nat,
     chunk_distance_gcd : Nat \ {0}, start_off_gcd : Nat \ {0}, end_off_gcd : Nat \ {0}]

\* The variables have the shapes the steps rely on; the dummy track is the last one, and has a chunk wherever it is used.
TypeOK ==
    /\ phase \in {"prepare", "begin", "walk", "analyze", "reset", "order", "likely", "patterns", "dummy", "done", "failed"}
    /\ \A t \in DOMAIN tracks : tracks[t] \in TrackType
    /\ idx_free \in {None, Len(tracks)}
    /\ idx_free # None => tracks[idx_free].media = Dummy.media /\ (phase \notin {"walk", "failed"} => tracks[idx_free].chunks # <<>>)
    /\ \A x \in ToSet(chunk_transitions) : {x.from, x.to} \subseteq DOMAIN tracks
    /\ has_unclear_transition \subseteq (DOMAIN tracks) \X (DOMAIN tracks)

Learnt == phase = "done" /\ NeedDynStats

\* Where the track's sample i begins, by its chunks: its chunk's samples, each aligned, lie one behind the other.
SampleOffset(t, i) ==
    LET c == CHOOSE k \in DOMAIN t.chunks : Before(t, k) < i /\ i <= Before(t, k) + t.chunks[k].n
    IN  t.chunks[c].off + Sum([k \in 1 .. i - 1 - Before(t, c) |-> Aligned(t, SizeOf(t, Before(t, c) + k))])

\* Merging chunks of padded packets (track.cpp:766) moves no sample of the
\* healthy file, and free sequences (dyn_stats_builder.cpp:138) are exactly
\* what no chunk covers: each byte behind the first chunk, wherever a
\* transition was looked for, belongs to one chunk, a track's or a free one.
BytesAccountedFor ==
    Learnt =>
      LET was(t) == TrackOf(job, t)
          all == AllChunks(DOMAIN tracks, FALSE)
      IN  /\ \A t \in RealTracks : \A i \in 1 .. Sum([c \in DOMAIN was(t).chunks |-> was(t).chunks[c].n]) :
               SampleOffset(tracks[t], i) = SampleOffset(was(t), i)
          /\ \A i \in 2 .. Len(all) :
               all[i].off = EndOf(all[i - 1]) \/ all[i].should_ignore \/ all[i].off - job.start < HalfPattern

\* What lies between a track's chunks and those that follow, wherever a transition was looked for.
PadsAfter(t) ==
    LET all == AllChunks(RealTracks, FALSE)
        followed == {i \in 1 .. Len(all) - 1 :
                        all[i].track = t /\ ~all[i + 1].should_ignore /\ all[i + 1].off - job.start >= HalfPattern}
        at == InOrder(followed, <)
    IN  [k \in DOMAIN at |-> all[at[k] + 1].off - EndOf(all[at[k]])]

\* A track's pad_after_chunk_, which the repair skips behind each of its chunks,
\* is what follows all its chunks in the healthy file but the last one, 0 if
\* they differ, and unknown if there are none: also after the chunks were
\* merged and everything was counted again (dyn_stats_builder.cpp:170).
PadIsCommon ==
    Learnt =>
      \A t \in RealTracks :
        LET pads == PadsAfter(t)
        IN  tracks[t].pad_after_chunk =
                IF Len(pads) < 2 THEN None ELSE IF \A k \in 1 .. Len(pads) - 1 : pads[k] = pads[1] THEN pads[1] ELSE 0

\* The healthy file itself passes what the repair will ask of the broken one:
\* it starts at its first chunk, each chunk's offset is one that
\* isChunkOffsetOk accepts, the chunks follow the order believed up to its last
\* repetition, and the simple order, which correctChunkIdxSimple looks a
\* track up in, has every track (mp4_chunk_pred.cpp:41).
ReferenceFits ==
    Learnt =>
      LET chunks == AllChunks(RealTracks, TRUE)
          entries == {i \in 1 .. OrderEntries : i <= Len(chunks)}
          simple == order.simple
      IN  /\ scan = [first_off |-> chunks[1].off, first_track |-> chunks[1].track]
          /\ \A t \in DOMAIN tracks : LET c == tracks[t].chunks IN
               \A i \in DOMAIN c :
                 /\ c[i].off % tracks[t].start_off_gcd = 0
                 /\ EndOf(c[i]) % tracks[t].end_off_gcd = 0
                 /\ i > 1 => (c[i].off - c[i - 1].off) % tracks[t].chunk_distance_gcd = 0
          /\ order.full # <<>> =>
               \A i \in entries : i + Len(order.full) <= Cardinality(entries) =>
                 [track |-> chunks[i].track, n |-> chunks[i].n] = order.full[((i - 1) % Len(order.full)) + 1]
          /\ simple # <<>> =>
               \A i \in entries : \E k \in DOMAIN simple : simple[k] = chunks[i].track

\* "assertt(off >= last_end);" (dyn_stats_builder.cpp:137): no chunk of a
\* healthy file begins before the one in front of it ends.
NoOverlap == phase # "failed"
=============================================================================
