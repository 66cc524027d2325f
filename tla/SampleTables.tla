---------------------------- MODULE SampleTables ----------------------------
(***************************************************************************)
(* The life of a Track's sample tables (track/track.cpp): read from the    *)
(* healthy file, cleared, filled again by the scan, and written; or, when  *)
(* a file is only made streamable, written as they were read.              *)
(*                                                                         *)
(* A table is a sequence of its entries: stts and ctts of <<count, value>>,*)
(* stsc of <<first chunk, samples>>.  What the scan finds is one choice: it *)
(* is RepairScan's subject.                                                *)
(***************************************************************************)
EXTENDS Integers, Sequences, FiniteSetsExt, SequencesExt, TrackOrder
CONSTANTS Jobs,        \* [ref, path, gcd, padded, raw, mebx, mdat, base]: the healthy file's tables,
                       \* "repair" or "streamable", pkt_sz_gcd_, whether dont_exclude keeps the padding
                       \* in the file, the frame size of a sowt or twos track or 0, whether the track
                       \* is mebx, the old and the new begin of the mdat's content
          Finds(_),    \* what the scan may find for a job: chunks of samples
          ConstantRun, \* a single run longer than this is a constant duration, 500
          OrderLimit   \* longest order whose last repetition may differ, 4

None == -1

VARIABLES job,    \* never changes
          phase,  \* "parse", "scan", "fix", "save", "saved" or "pruned"
          track,  \* the Track in memory
          found,  \* the chunks the scan found
          tables  \* the tables of the file
vars == <<job, phase, track, found, tables>>

Sum(numbers) == FoldLeft(+, 0, numbers)
Chunk(off, n, excluded) == [off |-> off, n |-> n, excluded |-> excluded]

(***************************************************************************)
(* Runs                                                                    *)
(***************************************************************************)
Expand(runs) == FlattenSeq([i \in 1 .. Len(runs) |-> [j \in 1 .. runs[i][1] |-> runs[i][2]]])

Compress(values) ==
    FoldLeft(LAMBDA runs, v : IF runs # <<>> /\ Last(runs)[2] = v THEN Append(Front(runs), <<Last(runs)[1] + 1, v>>)
                              ELSE Append(runs, <<1, v>>),
             <<>>, values)

\* expandCtts: the pattern over and over, its last run cut to the number of samples.
ExpandCtts(pattern, n) ==
    LET runs == FlattenSeq([i \in 1 .. n |-> pattern])
        k == Min({i \in 1 .. Len(runs) : Sum([j \in 1 .. i |-> runs[j][1]]) >= n})
        before == Sum([j \in 1 .. k - 1 |-> runs[j][1]])
    IN  IF n = 0 THEN <<>> ELSE Append(SubSeq(runs, 1, k - 1), <<n - before, runs[k][2]>>)

(***************************************************************************)
(* Reading the tables                                                      *)
(***************************************************************************)
\* How many samples chunk i has: the entry that begins last before it.
SamplesOfChunk(stsc, i) == Last(SelectSeq(stsc, LAMBDA e : e[1] <= i))[2]

Read(t) ==
    LET constant == Len(t.stts) = 1 /\ t.stts[1][1] > ConstantRun
    IN  [times |-> IF constant THEN <<>> ELSE Expand(t.stts),
         constant_duration |-> IF constant THEN t.stts[1][2] ELSE None,
         constant_size |-> IF job.raw # 0 THEN job.raw ELSE t.stsz.constant,
         sizes |-> t.stsz.sizes,
         num_samples |-> IF t.stsz.constant # 0 THEN t.stsz.count ELSE Len(t.stsz.sizes),
         keyframes |-> [i \in 1 .. Len(t.stss) |-> t.stss[i] - 1],
         chunks |-> [i \in 1 .. Len(t.stco) |-> Chunk(t.stco[i], SamplesOfChunk(t.stsc, i), 0)],
         orig_ctts |-> t.ctts,
         orig_times |-> <<>>]

Parse ==
    /\ phase = "parse"
    /\ track' = Read(tables)
    /\ phase' = IF job.path = "repair" THEN "scan" ELSE "save"
    /\ UNCHANGED <<job, found, tables>>

(***************************************************************************)
(* The scan: clear, and what addFrame, addChunk and finalizeCurrentChunk   *)
(* leave.                                                                  *)
(***************************************************************************)
Cleared == [track EXCEPT !.orig_times = track.times, !.times = <<>>, !.sizes = <<>>,
                         !.keyframes = <<>>, !.chunks = <<>>, !.num_samples = 0]

Samples(chunks) == FlattenSeq([i \in 1 .. Len(chunks) |-> chunks[i].samples])

Scan ==
    /\ phase = "scan"
    /\ \E f \in Finds(job) :
         LET samples == Samples(f)
             keys == {i \in 1 .. Len(samples) : samples[i].key}
         IN  /\ found' = f
             /\ track' = [Cleared EXCEPT
                    !.num_samples = Len(samples),
                    !.keyframes = SetToSortSeq({i - 1 : i \in keys}, <),
                    !.times = IF track.constant_duration # None THEN <<>>
                              ELSE SelectSeq([i \in 1 .. Len(samples) |-> samples[i].duration], LAMBDA d : d # 0),
                    !.sizes = IF track.constant_size # 0 THEN <<>> ELSE [i \in 1 .. Len(samples) |-> samples[i].size],
                    !.chunks = [i \in 1 .. Len(f) |-> Chunk(f[i].off, Len(f[i].samples), f[i].excluded)]]
    /\ phase' = "fix"
    /\ UNCHANGED <<job, tables>>

\* Mutant: a track without durations takes its constant duration, set or not.
FixedByConstant(t) ==
    IF t.times # <<>> \/ t.constant_duration # None THEN t
    ELSE [t EXCEPT !.times = [i \in 1 .. t.num_samples |-> t.constant_duration]]

\* fixTimes: the durations found, or the reference's, over and over; those of mebx are constant.
Fixed(t) ==
    LET times == IF t.times = <<>> THEN t.orig_times ELSE t.times
    IN  IF job.mebx THEN [t EXCEPT !.constant_duration = 1]
        ELSE IF t.constant_duration # None \/ times = <<>> THEN t
        ELSE [t EXCEPT !.times = [i \in 1 .. t.num_samples |-> times[((i - 1) % Len(times)) + 1]]]

FixTimes ==
    /\ phase = "fix"
    /\ track' = Fixed(track)
    /\ phase' = "save"
    /\ UNCHANGED <<job, found, tables>>

(***************************************************************************)
(* Writing them                                                            *)
(***************************************************************************)
Aligned(t, size) == size + ((job.gcd - (size % job.gcd)) % job.gcd)
SizeOf(t, i) == IF t.constant_size # 0 THEN t.constant_size ELSE t.sizes[i]

ApplyExcluded(t) == [t EXCEPT !.chunks = [i \in 1 .. Len(t.chunks) |->
                        Chunk(t.chunks[i].off - t.chunks[i].excluded, t.chunks[i].n, 0)]]

\* Mutant: the padding behind a sample is not stepped over.
SplitUnpadded(t) ==
    LET first(i) == Sum([j \in 1 .. i - 1 |-> t.chunks[j].n])
        at(i, k) == t.chunks[i].off + Sum([j \in 1 .. k - 1 |-> SizeOf(t, first(i) + j)])
    IN  [t EXCEPT !.chunks = FlattenSeq([i \in 1 .. Len(t.chunks) |->
                        [k \in 1 .. t.chunks[i].n |-> Chunk(at(i, k), 1, 0)]])]

\* splitChunks: one chunk for each sample, so that padding may follow each.
SplitChunks(t) ==
    LET first(i) == Sum([j \in 1 .. i - 1 |-> t.chunks[j].n])
        at(i, k) == t.chunks[i].off + Sum([j \in 1 .. k - 1 |-> Aligned(t, SizeOf(t, first(i) + j))])
    IN  [t EXCEPT !.chunks = FlattenSeq([i \in 1 .. Len(t.chunks) |->
                        [k \in 1 .. t.chunks[i].n |-> Chunk(at(i, k), 1, 0)]])]

\* Mutant: an entry for each number of samples, at its first chunk only.
SampleToChunkOnce(chunks) ==
    LET starts == {i \in 1 .. Len(chunks) : \A j \in 1 .. i - 1 : chunks[i].n # chunks[j].n}
        order == SetToSortSeq(starts, <)
    IN  [k \in 1 .. Len(order) |-> <<order[k], chunks[order[k]].n>>]

\* saveSampleToChunk: an entry where the number of samples changes.
SampleToChunk(chunks) ==
    LET starts == {i \in 1 .. Len(chunks) : i = 1 \/ chunks[i].n # chunks[i - 1].n}
        order == SetToSortSeq(starts, <)
    IN  [k \in 1 .. Len(order) |-> <<order[k], chunks[order[k]].n>>]

\* Mutant: raw offsets are lost when they follow no order.
CttsOfOrder(t) ==
    LET order == FindOrder(t.orig_ctts, OrderLimit)
    IN  IF order = <<>> THEN <<>> ELSE ExpandCtts(order, t.num_samples)

\* saveCompositionOffsets: the reference's order if it has one, else its raw offsets.
Ctts(t) ==
    LET order == FindOrder(t.orig_ctts, OrderLimit)
    IN  IF t.orig_ctts = <<>> THEN <<>>
        ELSE ExpandCtts(IF order # <<>> THEN order ELSE t.orig_ctts, t.num_samples)

\* writeToAtoms, and the offsets again once the mdat's place is known.  An stss that the reference did
\* not have is put beside the stbl, where no player looks for it: to a player it is absent.
Written(t, base) ==
    [stts |-> IF t.constant_duration # None THEN << <<t.num_samples, t.constant_duration>> >> ELSE Compress(t.times),
     stss |-> IF job.ref.stss = <<>> THEN <<>> ELSE [i \in 1 .. Len(t.keyframes) |-> t.keyframes[i] + 1],
     stsz |-> [constant |-> t.constant_size, count |-> t.num_samples, sizes |-> t.sizes],
     stsc |-> SampleToChunk(t.chunks),
     stco |-> [i \in 1 .. Len(t.chunks) |-> t.chunks[i].off + base],
     ctts |-> Ctts(t)]

\* makeStreamable makes the offsets relative to the mdat; a repair's are.
Rebased(t) ==
    IF job.path = "repair" THEN t
    ELSE [t EXCEPT !.chunks = [i \in 1 .. Len(t.chunks) |-> [t.chunks[i] EXCEPT !.off = @ - job.mdat]]]

\* saveVideo, for one track; an empty one is pruned.
Save ==
    /\ phase = "save"
    /\ LET applied == ApplyExcluded(Rebased(track))
       IN  track' = IF job.gcd > 1 /\ job.padded THEN SplitChunks(applied) ELSE applied
    /\ phase' = IF track.num_samples = 0 THEN "pruned" ELSE "saved"
    /\ tables' = Written(track', job.base)
    /\ UNCHANGED <<job, found>>

Init ==
    /\ job \in Jobs
    /\ phase = "parse"
    /\ tables = job.ref
    /\ track = <<>>
    /\ found = <<>>

Done == phase \in {"saved", "pruned"} /\ UNCHANGED vars
Next == Parse \/ Scan \/ FixTimes \/ Save \/ Done
Spec == Init /\ [][Next]_vars

-----------------------------------------------------------------------------
\* What a player reads from tables: each sample's place, length, duration and composition offset, and
\* whether it is a key frame, as all are without a table of them.
Played(t) ==
    LET counts == [c \in 1 .. Len(t.stco) |-> SamplesOfChunk(t.stsc, c)]
        size(i) == IF t.stsz.constant # 0 THEN t.stsz.constant ELSE t.stsz.sizes[i]
        before(c) == Sum(SubSeq(counts, 1, c - 1))
        chunkOf(i) == Min({c \in 1 .. Len(counts) : before(c) + counts[c] >= i})
        durations == Expand(t.stts)
        offsets == Expand(t.ctts)
    IN  [i \in 1 .. t.stsz.count |->
            [off |-> t.stco[chunkOf(i)] + Sum([j \in 1 .. i - 1 - before(chunkOf(i)) |-> size(before(chunkOf(i)) + j)]),
             size |-> size(i),
             duration |-> durations[i],
             comp |-> IF t.ctts = <<>> THEN 0 ELSE offsets[i],
             key |-> t.stss = <<>> \/ i \in ToSet(t.stss)]]

\* The variables keep their types.
TypeOK ==
    /\ phase \in {"parse", "scan", "fix", "save", "saved", "pruned"}
    /\ phase # "parse" =>
        /\ track.num_samples \in Nat /\ track.times \in Seq(Nat) /\ track.sizes \in Seq(Nat)
        /\ track.chunks \in Seq([off : Int, n : Nat \ {0}, excluded : Nat])

\* The five tables of a saved track, each written from another field, have the same number of
\* samples (saveSampleTimes to saveCompositionOffsets, track.cpp:458-599): a player that finds
\* one of them shorter drops the rest or fails.
TablesAgree ==
    phase = "saved" =>
        /\ Len(Expand(tables.stts)) = tables.stsz.count
        /\ tables.stsz.constant = 0 => Len(tables.stsz.sizes) = tables.stsz.count
        /\ Sum([c \in 1 .. Len(tables.stco) |-> SamplesOfChunk(tables.stsc, c)]) = tables.stsz.count
        /\ tables.ctts # <<>> => Len(Expand(tables.ctts)) = tables.stsz.count
        /\ ToSet(tables.stss) \subseteq 1 .. tables.stsz.count

\* A player of a repaired file finds each sample the scan found where the scan left it: behind
\* what was excluded before its chunk, behind the padding of the samples before it if padding is
\* kept in the file (track.cpp:794, mp4_output.cpp:119); with its duration, if the scan found all of
\* them; and as a key frame if it is one.  That no other sample is a key frame needs a table of them:
\* there is none if the scan found no key frame or the reference had no table (track.cpp:485-497).
PlaysWhatWasFound ==
    phase = "saved" /\ job.path = "repair" =>
        LET played == Played(tables)
            first(c) == Sum([k \in 1 .. c - 1 |-> Len(found[k].samples)])
            all == ToSet(Samples(found))
            timed == track.constant_duration = None /\ \A sample \in all : sample.duration # 0
            keyed == job.ref.stss # <<>> /\ \E sample \in all : sample.key
        IN  \A c \in 1 .. Len(found) : \A k \in 1 .. Len(found[c].samples) :
                LET sample == played[first(c) + k]
                    left(j) == IF job.padded THEN Aligned(track, found[c].samples[j].size) ELSE found[c].samples[j].size
                IN  /\ sample.size = found[c].samples[k].size
                    /\ timed => sample.duration = found[c].samples[k].duration
                    /\ found[c].samples[k].key => sample.key
                    /\ keyed /\ sample.key => found[c].samples[k].key
                    /\ sample.off = job.base + found[c].off - found[c].excluded + Sum([j \in 1 .. k - 1 |-> left(j)])

\* Making a file streamable moves its mdat: a player finds each sample behind the move, as long and
\* for as long, a key frame or not, and with the same composition offset.  Every table is read and
\* written again, in runs that another muxer cut otherwise (mp4_output.cpp:72).  The exception are
\* the composition offsets of the last repetition, where the runs of the file follow an order in
\* all others: those the code does change (track_order.cpp:28, track.cpp:572).
StreamableKeepsSamples ==
    phase = "saved" /\ job.path = "streamable" =>
        LET before == Played(job.ref)
            after == Played(tables)
            ctts == job.ref.ctts
            order == FindOrder(ctts, OrderLimit)
            changed == IF order = FindOrder(ctts, 0) THEN 0 ELSE Len(order)
            kept == Sum([k \in 1 .. Len(ctts) - changed |-> ctts[k][1]])
        IN  /\ Len(after) = Len(before)
            /\ \A i \in 1 .. Len(before) :
                   LET comp == IF ctts = <<>> \/ i <= kept THEN before[i].comp ELSE after[i].comp
                   IN  after[i] = [before[i] EXCEPT !.off = @ - job.mdat + job.base, !.comp = comp]
=============================================================================
