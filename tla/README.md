# A TLA+ model of untrunc

untrunc repairs a truncated or damaged MP4/MOV file with the help of an intact
file of the same camera (the *reference* file).  It learns from the reference
which tracks there are, how their frames look and how chunks of samples follow
one another; then it scans the media data (`mdat`) of the broken file front to
back, recognises the samples, and writes a new file: the reference's headers with
new sample tables, and the media data with everything left out that is not a
sample.  A wrong step in that scan silently gives a file that plays garbage, or
aborts the program with an assertion after minutes of work.

All paths below are relative to the repository's `src/` directory.

## 1. The system

### Components

| Component | State | Operations | Modules |
|---|---|---|---|
| **Repair scan loop** `core/mp4_repairer.cpp`, `mp4_scan.cpp`, `mp4.cpp`, `repair_context.h` | the local `offset`; `ScanState` (unknown bytes being counted, last track, padding flags, first chunk found, order ignored); each track's `current_chunk_`, `chunks_`, `sizes_`; the list of byte ranges to exclude and their total | `calcStartOffset`, `chkOffset`/`advanceOffset`, `tryMatch`/`addMatch`, `tryChunkPrediction`, stepping over unknown bytes, premature end | `RepairScan` |
| **Chunk prediction and order** `core/mp4_chunk_pred.cpp`, `mp4_match.cpp` | `next_chunk_idx_`, `track_order_`, `track_order_simple_`, `ignored_chunk_order_` | `getChunkPrediction`, `predictChunkViaOrder`, `fitChunk`, `correctChunkIdx`, `onFirstChunkFound`, `getMatch`, `predictSize` | `ChunkOrder`, `RepairScan` |
| **Chunk statistics** `core/dyn_stats_builder.cpp`, `mp4_stats.cpp`, `chunk_it.cpp`, `track/track_order.cpp` | chunk transitions, free sequences, divisors, paddings, likely sizes and counts, order | `generate` and its passes | `ChunkStats`, `TrackOrder` |
| **Codecs** `codec/`, `track/sample_stats.h` | what is known of the unit before, the size limits, the key frame mark | `getSizeAvc1`, `hvc1GetLengths`, `findSizeWithContinuation`; `matchSample` | `NalScan` |
| **Sample tables** `track/track.cpp` | sizes, times, key frames, chunks of a track | `parseOk`, `clear`, `fixTimes`, `splitChunks`, `applyExcludedToOffs`, `save*` | `SampleTables`, `TrackOrder` |
| **Writing** `atom/atom.cpp` (`BufferedAtom`), `core/mp4_output.cpp` | exclusion list, `length_`, `file_end_`, the atom tree | `saveVideo`, `prune`, `updateLength`, `write`, `makeStreamable` | `MdatWrite`, `AtomTree`, `SampleTables` |
| **Reference parsing and mdat search** `core/mp4_parse.cpp`, `atom/` | the atom tree, the mdat | `parseOk`, `findMdat`, `findNextAtomOff` | `AtomTree`, `AtomSearch` |
| **File tools** `core/mp4_tools.cpp` | | `shorten`, `unite` | `AtomSearch` |
| **RSV repair** `core/rsv.cpp` | structure of a group of pictures, the walk's position | `detectStructure`, `processGops` | `RsvScan` |
| **Buffered files** `io/file.cpp` | a 15 MB window of the file, a position in it, the `FILE`'s own position | `seek`, `fillBuffer`, `readBuffer`, `getPtr`, `getFragment`, `copyRange` | `RandomAccess`, `FileWindow`, `FileBuffer` |
| **Analysis and reports** `core/mp4_verify.cpp`, `*_report.cpp` | counters | `analyze`, printing | none |
| **Byte patterns, logging, options, utilities** | | | none |

### How they interact

The reference is parsed into a tree (`AtomTree`), its tracks read (`SampleTables`),
and what their chunks have in common is learnt (`ChunkStats`).  The broken file's mdat
is looked for (`AtomSearch`), and `Mp4Repairer::repair` scans it in one sequential loop
(`RepairScan`).  Each turn `chkOffset` lets `advanceOffset` skip what cannot be a sample
(padding after a chunk, zeros, atoms) and excludes the bytes skipped; `tryAll` asks the
matchers for one frame (`NalScan` for video) and the chunk prediction for a whole chunk, in
the order `shouldPreferChunkPrediction` says; if neither succeeds, the loop steps over
unknown bytes (`-s`) or ends.  Then the tracks write their tables (`SampleTables`), the tree is
pruned and counted (`AtomTree`), and the media data follow (`MdatWrite`), read through a window
(`FileWindow`).  Sony RSV recordings take another way through the file (`RsvScan`) to
the same saving.

The parts share the `RepairContext`: the scan moves `next_chunk_idx_`, on which
the next prediction rests; the total of excluded bytes is copied into each chunk
when it begins and subtracted from its offset when the file is saved; the list of
exclusions is what `BufferedAtom::write` leaves out, and its total is the length
written ahead of the data.

### What is hard

There is one thread; what makes the scan hard is that nearly every function
changes the shared context and is called from several others in different
states: sequences of legal calls that nobody tested, values copied early and used
late, boundaries (end of content, end of unknown bytes, start of chunk) met by two
mechanisms at once, and progress of the loop.  Around it, files are cut at
any byte, lengths and names in them are wrong, and one table or length is derived
from another that changes afterwards.  `PROJECT.json` lists each such
hazard at its line, with the properties that would catch it.

### What makes each component correct

* Scan: the exclusions are in order, apart and counted right; no frame's byte is
  excluded and none belongs to two frames; each sample is in one chunk; the tables
  lead to each sample's own bytes in the repaired file; only unknown bytes are left
  out with `-s` and only recognised bytes stay without it; no assertion fails; the
  scan ends.
* Order: `next_chunk_idx_` never moves back and stops at the least index of the
  track found.
* Statistics: what is learnt holds of the file it was learnt from: each byte is in one
  chunk, the padding is what follows the chunks, the order and the divisors fit.
* Codecs: a sample is one access unit, and a key frame if it has a key slice.
* Sample tables: what is saved, read back, is what the scan found; the tables agree
  on the number of samples.
* Writing: what is written is the content less the exclusions, and as long as
  the header says; chunk offsets are moved by what really is in front.
* Parsing: a reference that is cut is read up to the cut; the search finds the file's own mdat.
* RSV: groups follow one another without gap or overlap, up to the last packet.
* Buffered files: a fragment is the file's bytes at that position, whatever was
  read before.

## 2. Modules

| Module | What it is |
|---|---|
| `ChunkOrder` | the cyclic chunk order and the movement of `next_chunk_idx_` along it |
| `RepairScan`, `MCRepairScan` | the scan loop: all of the context it changes, one action per step |
| `RepairScanProofs` | arithmetic lemmas; `correctChunkIdx` goes to the right index; type correctness of the scan, one lemma per operator; unknown bytes are counted behind the dummy track only; exclusions and frames: apart, counted, kept, for every content |
| `OutcomeProofs` | the list of exclusions is one that `BufferedAtom::write` accepts, and without `-s` leaves nothing but frames; no assertion of the scan fails; every sample is in a chunk, and the tables lead to its bytes |
| `TrackOrder` | `findOrder` and `findOrderSimple`, for chunks and composition offsets |
| `ChunkStats`, `MCChunkStats` | what is learnt of the reference's chunks, pass by pass |
| `NalScan`, `MCNalScan` | the walk over the NAL units of a video sample |
| `NalScanProofs` | the walk stays in the content, marks the samples with a key slice, and finds the access unit |
| `SampleTables`, `MCSampleTables` | a track's tables: read, cleared, filled, written |
| `AtomTree`, `MCAtomTree` | the reference's atoms: read, edited, counted and written |
| `AtomSearch`, `MCAtomSearch` | looking for atoms in damaged files; `shorten` and `unite` |
| `AtomSearchProofs` | in every file the first mdat at the root is found, and what is written around it can be played |
| `RsvScan`, `MCRsvScan` | Sony recordings without an index |
| `RsvScanProofs` | what the walk over a recording's groups saves, what it loses, and what a camera's groups become |
| `RandomAccess` | what `FileRead` promises: a file with a position |
| `FileWindow` | `FileRead`'s sliding window, as operators on a record |
| `FileBuffer`, `MCFileBuffer` | a `FileRead` under any sequence of calls |
| `FileWindowProofs` | what the window's operators return and keep |
| `FileBufferProofs` | `FileBuffer` implements `RandomAccess` |
| `MdatWrite`, `MCMdatWrite` | the end of `saveVideo` and `BufferedAtom::write`, on top of `FileWindow` |
| `MdatWriteProofs` | what is written is what is kept, as long as announced, where the offsets say |

An operator that a comment names "Mutant" is a plausible bug in the definition
below it; no action uses it, and a property would be violated if one did.

### RepairScan

The C++ functions change objects; here an operator takes the record `st` of
everything the loop changes and returns it changed (`AddToExclude(w, ..)` is
`Mp4::addToExclude` on the state `w`), so a nested call is a nested application and
the order of effects is the code's.  The control points are in `pc`:

| `pc` | stands at |
|---|---|
| `"start"` | before `calcStartOffset` |
| `"advance"` | `chkOffset` is called |
| `"skip"` | the loop in `advanceOffset` |
| `"try"` | `tryAll` is called |
| `"done"` | after the loop |

Actions: `CalcStartOffset`, `GetChunkPadding`, `SkipZeros`, `SkipAtom`,
`EndAdvance`, `ReachEnd`, `TryMatch`, `TryChunkPrediction`, `StepThroughUnknown`,
`PrematureEnd`, and `ThrowBeyondEnd`: near the content's end, with no chunk found yet, the
patterns ask for bytes beyond it (`mp4_match.cpp:210`, also from `mp4_chunk_pred.cpp:224`),
`getFragment` throws and the repair ends without a file.  Splitting `advanceOffset` at its loop is faithful because nothing
runs between; it only makes the steps small.

*Bytes* are not modelled.  Where the code looks at content, each answer it could
get is a choice: whether zeros or an atom are at the offset, which track matches and
with which of its lengths, which transition pattern fits, where a chunk of
varying sample size ends.  *Reference data* is the record `job.ref[t]` of
each track and the order: what `ChunkStats` and the parser would have learnt.
A *job* is a set of options with a reference.  An assertion that fails is recorded
in `st.failed` and stops the scan, as `assertt` aborts the program.

### ChunkStats and TrackOrder

`phase` names the pass of `DynStatsBuilder::generate` that comes next: `GenChunks`,
`BeginTransitions`, one `PassChunk`, `NextChunk` or `FindFree` for each chunk in file order,
`EndTransitions`, `AnalyzeFree`, and if that merged chunks of padded packets
`ResetTransitions` and the transitions once more; then `GenTrackOrder`, `GenLikelyAll`,
`GenDynPatterns`, `SetDummyIsSkippable`.  Without statistics there is only `SetDuplicateInfo`.
The job is the healthy file itself, chunk by chunk with the gap behind each; offsets and
the chunks of each track follow from it.  Random draws (`genLikely` draws sample sizes)
are a choice of every outcome that counts can have; whether a pair of tracks
has a byte pattern is a choice.

### NalScan

The content is a sequence of NAL units, each a record of what the walk reads of it.
`job.units` says which of them an encoder put together as an access unit; only the properties look
at that.  One action takes or ends at one unit: `TakeAvc1`, `EndAvc1`, `TakeHvc1`, `EndHvc1`,
`NoNal`; `Choose` is `getSizeHvc1`'s choice among alternative lengths with
`findSizeWithContinuation`.  What follows the sample is another picture, audio, or what does not parse.
A job is any stream of units with any options and statistics (`JobsAssumption`); what the sample should be is
stated for streams and statistics that the code's means can tell apart: `IsAccessUnit` (the units are laid out as the
standards say: one picture's slices, what leads them and what trails them), `SizeIsUsual` (the reference had samples of this size), `NextIsTold` (without `strict` the pictures
differ in what is compared; no H.265 picture begins with an SEI unit) and `ContinuesRightly` (when
the chunk is believed to go on, it does).  The streams have temporal id 1 as the `hvc1` matcher
wants it, and picture order counts of type 0; parameter sets are taken as read.

### SampleTables

A table is the sequence of its entries.  `Parse` reads the healthy file's, `Scan` clears the
track and fills it with any chunks of samples the scan may find (`Finds`), `FixTimes` and
`Save` do what their names say; a job on the path `"streamable"` goes from `Parse` to `Save`.  The
reference of what a table *means* is `Played`: for each sample its place, size, duration, composition
offset and key frame as a player reads them from the tables.  A job also says whether the track is
`sowt` or `twos`, whose frame size is not the table's but the channels' (`track.cpp:142`), or `mebx`, whose
samples last 1 each (`track.cpp:232`).  An `stss` that the reference did not have is written beside the
`stbl` (`track.cpp:493`): no player looks there, so `Written` has none.

### AtomTree and AtomSearch

A file is its size and the headers that stand in it.  `AtomTree` reads the reference atom by
atom (`EnterParent`, `LeaveParent`, `PassMdat`, `ReadContent`, `FailAtom`, `EndOfFile`) into a
sequence of atoms with depths, which is also the order they are written in; then come `saveVideo`'s edits
(`WriteTables`, `PruneAndCount`, `PruneEmpty`) and `WriteFront`.  `WindowHoldsFile` is assumed: the
reference lies in one window, so that a read beyond its end sees zeros; a place that has no header in `heads`
does not read as one; a 64-bit header is not cut in two.

`AtomSearch` is the search itself, a turn of `findAtom` per step, and its three users.
`heads` has the file's atoms and whatever in their contents reads as an atom as well; a length of 32 bits is at most
`Limit`, one of 64 bits may be anything (`IsFile`).  What `shorten` and `unite` write is a sequence of pieces of files
and new headers.  `RootAtoms` is what the search should go by: the places to which the stated lengths lead from the begin
of the file, the least set that has the first header and with each the next.

### RsvScan

A file is a function from its places to what begins there: a packet's header, an access unit
delimiter, or something else.  `Detect` is `detectStructure` with the lengths `repair` derives from it,
`Group` one turn of `processGops`; `Save` and `ReadFails` are its ends.  The code's lengths (12 bytes, 128 MB,
500 KB ...) are constants; the audio of a group is `AudioPerFrame` times its frames, which
leaves out the fraction the code cuts.

What a camera wrote is not part of the code: a job may say where each group and its parts begin, and `IsRecording` what
makes the file such a recording: headers and delimiters at those places and no others, at least one audio track, the same
number of units in each group, the next packet where the code looks for it.  `IsUsual` is about `detectStructure`: what it sees
at the first two packets and between the groups is either in the range it believes, and then right, or else the
default is.  The repaired tracks are compared with what was written (`IsRecovered`).

### FileWindow, FileBuffer, RandomAccess

`Window` is a `FileRead`: `begin` and `off` are `buf_begin_` and `buf_off_`, `at` is
where the C `FILE` stands, `cells` is the buffer.  Bytes are named by their place in
the file, so that "the right byte" can be stated.  `FillBuffer`, `SeekTo`, `PointTo`,
`FragmentAt` and `ReadBuffer` translate `fillBuffer`, `seek`, `getPtr`, `getFragment`
and `readBuffer` with their branches; they are operators because `MdatWrite`
uses the same window.  `FileBuffer` calls them in any order.
`RandomAccess` is the abstract file: the position is `buf_begin_ + buf_off_`, and an
answer gives the file's own bytes; what stands for a byte beyond the end is left
open, because `readBuffer` takes such bytes from the buffer without an error.

### MdatWrite

Starts where the scan ended: `mdat` holds the content's bounds and any list of
exclusions that satisfies `ExclusionsInOrder` and `WriteAccepts` of `RepairScan`, which
are what the scan is shown to leave.  Its actions follow `saveVideo`:

| Action | Code |
|---|---|
| `UpdateLength` | `root_atom_->updateLength()` |
| `FixOffsets` | `newHeaderSize() + moov->length_ (+ ftyp)` added to every chunk's offset |
| `WriteHeader` | the first half of `BufferedAtom::write` |
| `CopyPart` | one turn of its loop: the read cut three ways, the step over an exclusion |
| `Finish` | the assertion on the length |

Each byte of the content is taken as a possible chunk start.  `Limit` stands for 2^32, `Front` for
the length of `ftyp` and `moov` that `CountsWhatItWrites` of `AtomTree` is about.

## 3. Runs

| Run | Distinct states | Question |
|---|---|---|
| `scan` | 900 000 | do samples, chunks, exclusions and counts agree at every step, for seven jobs? |
| `ends` | 12 000 | does the scan end? |
| `stats` | 138 000 | does what is learnt of the reference hold of it? |
| `nal` | 103 000 | is a video sample an access unit, and a key frame if it has a key slice? |
| `tables` | 412 000 | does a player find every sample in the tables saved? |
| `tree` | 42 000 | is a cut reference read up to the cut, and an edited one as long as counted? |
| `atoms` | 129 000 | is the mdat found the file's own, and do rebuilt files lead through? |
| `rsv` | 39 000 | are the groups of a cut recording recovered, each byte once? |
| `access` | 7 500 | is `FileRead` a random-access file? |
| `write` | 90 000 | does the repaired mdat hold what is kept, as long as stated, where the offsets say? |
| `overlap` | violation | does every chunk of a healthy file end before the next begins? |
| `keyframe` | violation | does every sample marked a key frame have a key slice? |

### What the passing runs show

`scan`: the jobs are the option sets that change the control flow - plain, `-s`,
`-k`, a known chunk order, transition patterns with a dummy track, padded and
varying frame sizes, duplicate tracks - and the content is *anything*: all
that a matcher, a pattern or a zero test could say of any byte.  The properties
relate the pieces of state that the code keeps in different places:

* `ExclusionsInOrder`, `WriteAccepts`, `TotalIsExcluded`: what `BufferedAtom::write` takes
  for granted of a list to which five call sites append.
* `FramesAreKept`: no byte of a sample is left out, none is in two samples.
* `SampleTableExact`: chunk offset less `already_excluded_` plus the sizes before
  it is where the sample's first byte ends up, and every sample has a chunk.
* `ExcludesOnlyBehindFrames`: why `already_excluded_`, copied when a chunk begins,
  does not go stale.
* `StrictScanKeepsOnlyFrames`, `UnknownOnlyInFree`, `NoAssertionFails`.

`ends` is the liveness side: each turn moves the offset.

`stats`: `BytesAccountedFor` and `PadIsCommon` compare what was learnt, after chunks were merged and
everything counted a second time, with the file the job describes; `ReferenceFits` puts the
healthy file to the tests that the repair will put the broken one to.

`nal`: two pictures that differ in any one field of the slice header that H.264 (7.4.1.2.4) or H.265
lets tell pictures apart, each in one or two slices, with delimiters, parameter sets, SEI units and filler
before and behind; or one picture and audio or broken bytes; whole or cut; with the limits for key frames and without.

`tables`: whatever chunks the scan finds, whatever of sizes and durations is constant, whether padding is kept in
the file, the player's view of the repaired file is the scan's (`PlaysWhatWasFound`), and of a streamable
file the original's (`StreamableKeepsSamples`): place, size, duration, key frame, and the composition offset
but for the last repetition where the offsets' runs follow an order in all others: those the code
does change (known disagreements, `track_order.cpp:28`), and the property says nothing of them (`kept`).  Streamable files with the wrong frame size of a `sowt` or `twos` track
are left out, for that size is corrected on purpose; of a repaired file that only the samples found
as key frames are key frames is claimed if it has a table of them.

`tree`: `KeepsWholeRoots` takes a reference cut at every byte, or with any one atom under a 64-bit
header; `CountsWhatItWrites` is about who computes a length when, while tables grow, are swapped and tracks go.

`atoms`: files of two to four atoms in five orders, with one wrong length and one false header inside
any content, whole, cut, or behind bytes that are no header.

`rsv`: `RecoversWholeGroups` compares three groups as a camera writes them, cut at every byte, with what is
found; `NoByteTwice` and `LosesOnlyLeads` also take every content of seven bytes.

`access` lets callers seek, point and read in every order in a file that is more than
two windows long, up to five bytes beyond its end; `IsRandomAccess` is the refinement.

`write` takes every list of at most three exclusions, in contents of 3, 5, 6 and 8
bytes, with the window wherever the scan may have left it.  `NoAssertionFails` holds
both assertions in the loop and the one on the length; `OffsetsLeadToBytes` is about
the size of the header being decided twice, the width of the offset table, and who reads the file.

### What the violation runs show

Each is a disagreement between what a comment or an assertion says and
what the code does; `PROJECT.json` quotes both.

* `overlap`: the divisor of packet sizes is learnt without the last sample of a chunk before another
  track's (`dyn_stats_builder.cpp:61`), but chunks are merged with that one aligned, too (`track.cpp:776`); the
  merged chunk ends inside the next, and the assertion in `genChunkTransitions` aborts for a healthy file.
* `keyframe`: `hvc1GetLengths` marks the sample by a unit it has just read, before it sees that this unit
  begins the next picture (`hvc1.cpp:34`); `getSizeAvc1` looks first.

### Known disagreements

The models above also served to look at cases that the passing runs leave out, because the code does not
do there what it says elsewhere.  No run keeps them; each can be seen again with the
change named.

* `mp4_chunk_pred.cpp:54`: `addMatch` moves `next_chunk_idx_` out of an unknown sequence before
  `onFirstChunkFound` asserts that it is 0 (`OrderJob` with `ignore_unknown`).
* `track.cpp:832`: a predicted chunk of the dummy track leaves `last_track_idx_` at the track
  whose chunk it closed; the next chunk closes it again, without samples (`PatternJob` with a predictable
  dummy track).
* `atom.cpp:493`, `mp4.cpp:121`: a step over padding or zeros may end beyond a premature end, and a
  negative length is added to the total of excluded bytes (`PatternJob` with `end_gcd` 4 of the dummy track).
* `mp4_scan.cpp:43`: zeros skipped inside an unknown sequence are not counted into it,
  so as many of its first bytes stay in the repaired mdat with `-s`.
* `mp4_repairer.cpp:99`: a duplicate track's chunk that reached its sample limit is followed
  by one that keeps the old offset (`DuplicateJob` without `simple`).
* `mp4_repairer.cpp:381`: `calcStartOffset` passes the offset to begin at as the *length* of what lies before
  it; after skipped atoms that is too much, and the first frames' bytes are excluded (`first_rel` 1).
* `track.cpp:563`: the offset table is chosen by the broken file's length, but holds offsets in
  the repaired file, where `moov` comes first: just below 4 GiB they are cut (`OffsetsLeadToBytes` without its
  last condition).
* `mp4_chunk_pred.cpp:332`: the bold prediction takes as many samples as fit in the bytes left; where less than
  one does it is a chunk without samples, which `tryChunkPrediction` takes without moving the offset, and
  closing it fails the assertion at `track.cpp:832` (`PatternJob` with `likely_n` <<2>>, `likely_sizes` <<3>>).
* `mp4_match.cpp:210`: `anyPatternMatchesHalf` tests the fragment for null, but `getFragment` throws beyond the
  end (`atom.cpp:423`): a content in whose last bytes nothing was found yet ends the repair (`ThrowBeyondEnd`).
* `mp4_parse.cpp:219`: a comment says that an order was checked with `isTrackOrderEnough`, which nobody calls.
* `mp4_parse.cpp:235`: without any atom header at the file's begin, `header_length_` may be that of the
  atom searched last, so that content begins 8 bytes late.
* `mp4_chunk_pred.cpp:377`: `predictChunkViaOrder` asserts that the chunk before `next_chunk_idx_` is the one being
  filled, but `onNewChunkStarted` advances the index by one whatever track the new chunk is of
  (`mp4_repairer.cpp:51`), and a matcher may find a frame of any.  With two tracks in turn a new chunk is of
  the other one; with three the index may then name the third, and the next prediction aborts the repair
  (`OrderJob` with a third track at the order's end, of which alone chunks are predicted).
  With two it does, too, if chunks of one track follow one another: behind padding with a dummy track,
  behind unknown bytes with `-s`, by a transition pattern from the track to itself (`OrderJob` with two predicted
  video samples in a chunk, and `next` with `v`, or with `ignore_unknown`, or with `has_free`, padded frames
  and `next` of the dummy track).
* `track_order.cpp:28`: `findOrder` lets the last repetition of an order differ because "last values might be shorter",
  but takes any difference, and `saveCompositionOffsets` then writes the order over all samples (`track.cpp:572`):
  making a file streamable changes the composition offsets of its last samples (`StreamableKeepsSamples` without
  the condition on `kept`; the runs of <<0, 1, 0, 2, 0>> become those of <<0, 1, 0, 1, 0>>).
* `rsv.cpp:163`: a metadata packet cut by the file's end makes the length of the rest negative; the read fails and
  nothing is saved, though the README promises that such recordings are recovered.
* `hvc1.cpp:69`: a prefix SEI unit in front of a picture is counted into the sample before it.
* `avc1.cpp:19`: `sps_info` is static: what was read of one track's parameter set serves the others.
* `mp4.cpp:171`: `findSizeWithContinuation` looks at the track that matched last, not the one being measured.
* `mp4_tools.cpp:101`, `mp4_tools.cpp:135`: `unite` and `shorten` abort where a file has no `moov` or the length wanted
  leaves no room for a header; `atom.cpp:454`: a united mdat of 4 GiB gets a longer header, and every chunk
  offset of the `moov` is 8 short.
* `file.cpp:100`: a leaf that the file's end cuts is filled with zeros, if the window ends behind it.

### Bounds, and why they are enough

| Run | Constant | Value | Why |
|---|---|---|---|
| `scan`, `ends` | `Size` | 10, 6 | a header-sized tail, an atom, an unknown sequence and two chunks fit, in every order; the shorter keeps liveness checking small |
| | `AtomLens` | {3} | longer than a header, so that an atom may end at or beyond the content's end |
| | `ZeroStep` | 2 | a skip of more than one frame's byte; alignment and rest of a skip differ |
| | `HeaderSize`, `PatHalf`, `MinChunkBytes`, `MinAlign` | 2, 2, 2, 1 | smallest values for which their comparisons have both outcomes |
| | `PaddingGcd` | 3 | above the divisors of the jobs |
| | `Tracks` | 2 and the dummy | the order alternates, a free sequence lies between |
| `access`, `write` | file, window | 7, 3 and 14, 3 | the window moves at least twice, and a read may span two moves |
| | `Furthest` | 12 | bounds positions behind the end, which only grow |
| | `MaxExcluded` | 3 | two adjacent sequences and one at the end |
| | `Limit` | 14 | lengths fall on both sides of it, and on it |
| `stats` | chunks | 4-6 | merged, gapped and followed by another track, twice |
| | `Sizes`, `Gaps` | {3, 4}, {0, 1} | sizes with and without the gap's divisor |
| | `OrderEntries`, `MinSizes`, `IgnoreFirst`, `Unclear`, `HalfPattern` | 5, 2, 3, 1, 2 | their comparisons have both outcomes among so few chunks; 101, 3, 10, 5, 16 in the code |
| `nal` | `Lookahead` | 3 | no more than a slice; 1024 in the code |
| | access units | 2 | the walk never goes beyond the second one's first units |
| `tables` | samples | 3 found, 5 read | three chunks, two runs and a cut repetition |
| | `ConstantRun` | 1 | runs on both sides; 500 in the code |
| `tree` | `Lengths`, `TableSizes` | {0, 3}, {0, 4} | empty atoms; tables that grow and shrink |
| | `BufSize` | 400 | behind the end of every file, as the code's 15 MB are for a reference |
| `atoms` | `Limit` | 40 | united files are on both sides; the narrow lengths are below it |
| | `MCWrong` | -9, 4, 1000, -1000 | a length that ends before its content, in the next atom, behind the file; 0 |
| `rsv` | lengths | 1-24 | each of the code's comparisons has both outcomes |
| | groups | 3 | the middle one has both neighbours, the last is cut |

All are constants of the modules; the theorems hold for every value of them.

### Fairness

`RepairScan` and `MdatWrite` assume `WF_vars(Next)`: one thread runs a loop that waits for
nothing, so while a step is possible one is taken.  Which step is not assumed: no
choice about the content is fair.  The other modules assume none: `FileBuffer`'s callers may
stop, and no liveness is claimed of the rest.
Deadlock checking is off where a program ends without a stuttering step of its own.

## 4. Proofs

| Module | Theorem | For every value of the constants |
|---|---|---|
| `RepairScanProofs` | `SkipToTrackCorrect` | `correctChunkIdx` moves to the first chunk of the track, less than a cycle ahead |
| `RepairScanProofs` | `TypeCorrect` | `TypeOK` |
| `RepairScanProofs` | `UnknownBytesInFree` | `UnknownOnlyInFree` |
| `RepairScanProofs` | `ExclusionsAreInOrder`, `TotalIsCounted`, `EveryFrameIsKept`, `ExclusionsComeBehind` | `ExclusionsInOrder`, `TotalIsExcluded`, `FramesAreKept`, `ExcludesOnlyBehindFrames`, if the jobs are `Orderly` |
| `OutcomeProofs` | `ListIsAccepted` | `WriteAccepts`, if the jobs are `Orderly` |
| `OutcomeProofs` | `StrictKeepsOnlyFrames` | `StrictScanKeepsOnlyFrames`, if the jobs are `Orderly` and those without `-s` have `OneSize` |
| `OutcomeProofs` | `TablesAreExact` | `SampleTableExact`, if the jobs are `Sampled` |
| `OutcomeProofs` | `ScanNeverAsserts` | `NoAssertionFails`, if the jobs are `Steady` |
| `MdatWriteProofs` | `KeptIsWritten`, `OffsetsAreRight`, `NeverAborts`, `TypeCorrect` | `WritesWhatIsKept`, `OffsetsLeadToBytes`, `NoAssertionFails`, `TypeOK` |
| `FileBufferProofs` | `Implements`, `ShowsTheFile`, `FileFollows`, `TypeCorrect` | `IsRandomAccess`, `WindowIsFile`, that the `FILE` stands behind the window, `TypeOK` |
| `RsvScanProofs` | `RsvTypes`, `RsvChunksApart`, `RsvLosesOnlyLeads`, `RsvGroupsRecovered` | `TypeOK`, `NoByteTwice`, `LosesOnlyLeads`, `RecoversWholeGroups` |
| `NalScanProofs` | `WalkTypes`, `KeyframesAreMarked`, `SampleIsAccessUnit` | `TypeOK`, `MarksKeyframes`, `EndsWithAccessUnit` |
| `AtomSearchProofs` | `SearchTypes`, `RootMdatIsFound`, `RebuiltFilesAreLed` | `TypeOK`, `FindsRootMdat`, `RebuiltFilesLead` |

**The scan.**  The type proof has one lemma per operator on the state (each keeps
`StateType`, given the guard it is called under) and one step per action.  None of the
range properties is inductive: whether an exclusion may be appended depends on
what is *between* the last one and the offset.  `RangeInv` says so:

* `Book`: exclusions apart and counted, frames apart from them and one another;
* `Behind(st, Reached)`: neither reaches beyond `offset - unknown_length`, the place the
  next exclusion or frame begins;
* `UnknownInv`, `PlaceInv`: where that place is while `chkOffset` holds the bytes it
  skipped back from the list (`from`, `padding`), and that a first chunk's start
  offset is excluded only once.

Every operator that appends is shown to append at or behind its frontier `f` and to leave
`Behind` for the new one; the steps of the loop then only move the frontier.

`Orderly(job)` is assumed: the dummy track does not pad and is not predicted, the first
chunk begins at the content's start, and tracks of constant sample size, whose length
`predictSize` does not compare with the content's end, are not padded.  The first three
are needed, as the known disagreements at `mp4.cpp:121`, `track.cpp:832` and
`mp4_repairer.cpp:381` show; the last only keeps
the invariant simple.  The jobs of `scan` are orderly.  The constants' own assumptions are
`TracksAssumption`, `SizeAssumption` and `JobsAssumption` of `RepairScan`, which TLC evaluates
on every run.

**The file.**  `Inv` is `Good(file)`: the window has its type, shows the file wherever a
cell's place is in it, and the `FILE` stands behind the window unless both are at
the end.  The last is what makes the first survive: `fillBuffer` reads on from
where the `FILE` is.  `EveryStep` proves invariance and refinement together, because a
step maps to a step of `RandomAccess` only from a good window.

**The list.**  That exclusions *begin* one behind the other does not follow from being
apart: of two empty ones at the same place neither reaches into the other.  `ListInv` adds to `RangeInv`
that only a frame's padding cut at the content's end is empty, that the scan then stands there, and
that what `chkOffset` has skipped reaches beyond all that was excluded meanwhile (`SkippedPast`),
so that the overlap it excludes at its end is not empty.

**Without `-s`.**  `CoverInv` says that each byte before the offset, or before `from` while `chkOffset`
skips, is excluded or in a frame, and that nothing is excluded behind `from` meanwhile, for there are no
unknown bytes; so what `chkOffset` excludes in the end begins exactly where the known bytes end.
`OneSize(job)` is needed: of several sample sizes `fitChunk` takes the average, rounded down
(`mp4_chunk_pred.cpp:142`), and the bytes of the chunk that remain are kept without belonging to a frame.

**The tables.**  A chunk's offset is stored less what was excluded before it, and a player adds the sizes of
the samples before.  `TableInv` therefore says of each chunk that its samples are frames that follow one
another *in the repaired file* (`Placed`), of all chunks together that they are as many samples as there are
frames (`Tiled`, `OneOpen`), and of the open one that a frame found at the offset would continue it
(`Continues`): the offset, less all that is excluded, is where the next sample is looked for.  That an exclusion made
later does not move an earlier sample is `EveryFrameIsKept` and its frontier.  The position is
a cardinality and the samples before a recursive sum; both are shown to move as expected by
induction over an interval (`InductionTo`, from the fact that a set of numbers that is not empty has a least one).
`Sampled(job)` adds to `Orderly` that no frame found by its codec continues a chunk of averaged
sizes, whose remainder would lie in between; and that a chunk that ends at its limit
(`mp4_repairer.cpp:99`: the new one keeps the offset of the old) belongs to a duplicate track whose next
chunk the simple order forbids, so that the limit is never met.

**The assertions.**  `CourseInv` is what they rest on together with the ranges: only the last
track has samples in its current chunk (`Open`), so that a chunk is closed once and never empty; the
index into the order stays 0 until the first chunk is found; and from then on (`InStep`) the chunk before the
index is the last track's.
That a new chunk keeps `InStep` is the order's property that two tracks take turns (`TakesTurns`,
`OtherIsDue`): a new chunk is of another track than the last one, so it is of the one that is due, wherever
in its cycle the order is, and whether a matcher found it or a prediction.

`Steady(job)` adds to `Orderly` what else the code takes for granted of a reference.  Each condition leaves out
a case in which an assertion does fail:

* a full order has two tracks that take turns: with more the index gets out of step;
* with it there is no dummy track that may follow padding, no transition pattern from a track to itself
  and no `-s`, or two chunks of one track may follow one another; no duplicate tracks, of which a chunk at
  its sample limit is followed by one of the same track if there is no simple order, and a frame of another codec's
  duplicate moves the index inside a chunk (where the simple order tells two tracks of one codec apart TLC finds no
  failure: there the condition is wider than it need be); and the simple order, taken from
  the same chunks, names the same tracks;
* a simple order has all tracks (`mp4_chunk_pred.cpp:43`) and is not combined with `-s` or with
  duplicates of another codec than its first (`mp4_chunk_pred.cpp:54`);
* samples to predict are no longer than half a pattern, or a bold prediction at the content's end
  is a chunk of none (`mp4_chunk_pred.cpp:332`).

**Writing.**  `WriteInv` says of every prefix of the content what `WritesWhatIsKept` says of the whole: `out` is
the kept bytes before `offset`, in order (`Written`), and as many as the prefix is long, less the
sequences stepped over; `Between`: the loop stands behind those and before the others; `Announced`: the
numbers written ahead are the ones the loop will meet.  The sum over a list is a recursive function, and what it
returns is shown by the least index for which it would not (`SumsType`), because
the library's induction rules cannot be used.  `FileWindowProofs` gives the reads: a fragment is the file's bytes at
its place as long as the window is `Good`.

**Recordings.**  A group's audio is counted back from the next packet and its frames forward from the packets
before; that they meet rests on the frames being cut where the audio begins.  `PlacesInOrder` and `FramesTile` say
of any group with a frame that packets, frames and audio follow one another, `AddedCovers` that they leave
out nothing but what lies before the first unit: the tracks' shares fill the audio because its length is a
multiple of their number (`Measured`, kept by `DetectMeasures`).  `IInv` says of all chunks that they end
before `pos` and are pairwise apart, to which a group's can be added (`ApartExtends`).  Of the
files only their being finite is assumed, of the constants their ranges; the detected lengths may
be wrong.  `InOrderCorrect` is the lemma about the order in which the units are found.

That the groups found are the ones the camera wrote (`RecoversWholeGroups`) is about recordings, of any number of groups
with any lengths.  Groups share no place (`GroupsApart`), so what begins at a place
of a whole group is what was written there (`HeadsOfGroup`, `UnitsOfGroup`), although all groups are in one file.
`LengthsDetected` shows that `detectStructure` measures what was written, also where it sees no second packet or
believes none.  From the begin of a whole group `GroupFound` then finds its packets, its audio, its units and the next
group: the next header is in the part looked at, and no other is before it; the units are the only
sequence of all delimiters in order (`InOrderUnique`).  `Recovering` is the invariant: the walk stands where the next group
begins as long as that group is whole, and all whole groups before are recovered, so it cannot end before the last of them
(`RecSave`).  It is relative to `IInv`.  The assumptions are the ranges of the lengths, and that
a delimiter is not longer than a header (5 and 12 bytes): the scan for delimiters stops two of them
before the end of what it looks at, the camera's last one is a header before it.

**Samples.**  `WalkInv` has the walk's arithmetic: the length is where the units taken end, below what may be read while
the walk goes on, and each alternative is where an earlier one ended.  `MarkInv`: no key slice has been passed
without the mark.  That the walk ends *with* the access unit needs to know what it remembers: `SeenInv` says that
it has seen a slice exactly when it is behind the first one, and which unit it compares with (in H.264 that first slice,
in H.265 the unit just before), so that no unit of the access unit ends it.  `UnitInv`
says that it is not beyond the unit that must end it, that the mark is not set before the first slice (or the
limit for the size would be the wrong one), and that a walk that has ended has the right length.  The
shorter alternatives of H.265 do not spoil it: the choice takes the longest that another sample could follow.
`Ends` is a recursive function; that it exists and grows is shown by the least number for which it would not (`EndsDef`).
Of H.265, `MarksKeyframes` claims only one half; the other fails, as the run `keyframe` shows.

**The search.**  From one header the search goes to exactly one other, or ends, so all it can ever stand at are the
headers on its `Path`: the least set with the first header in the content and with each the next.  `ReachedInOrder` says of any such set,
if each step goes forward, that it is a chain: of two members the later is reached from the earlier one.
While nothing is found, `WalkInv` has the search on the path with no mdat before it (`IsFirst`).  `PathIsAtRoot`
then compares this path with `RootAtoms`: up to any root atom of known length both are the same, because an atom
that leads to another header is left by its length, so that what reads as an atom *inside* it is never looked at; an mdat at the
root is therefore on the path, and nothing that is called mdat is on it before.  That is `FindsRootMdat`, for files of any number of
atoms with any lengths.  `FoundInv` keeps what `mdat` is until it is used.  For `RebuiltFilesLead`
the new header must be as long as the old one, though it is chosen by another length (`needs64bitVersion`): a narrow
header states at most `Limit`, and taking off what the file is shortened by keeps it below (`ShorterTypes`); a header
whose stated length ends behind the file cannot come here, for then nothing would be behind the mdat.
`PlacesStep` gives the places of the pieces one by one.

**How they fit.**  `MdatWrite` starts from a list with `ExclusionsInOrder` and `WriteAccepts`; the scan is
proved to leave such a list for orderly jobs and checked to for all.  Its reads go through
`FragmentAt`, the fragment that `Implements` is about.

**With TLC only**: both `Terminates` (liveness); `ChunkStats`, `SampleTables` and
`AtomTree`.  The three are made of folds over sequences (run lengths, trees in order, merged chunks): what a fold
computes is an induction over data that takes an operator as its parameter.

## 5. Not modelled

* In the scan: the hardcoded `tmcd` frame, the zero cave after a `priv` thumbnail, the
  look-alike correction for `twos` (which needs no `isChunkOffsetOk`, `mp4_match.cpp:187`), `wouldMatch`
  throwing at a start offset near the content's end (the jobs of the runs begin at 0), the `currentChunkFinished` that
  `findSizeWithContinuation` asks while a length is chosen (`mp4.cpp:168`; its assertion is the one
  `predictChunkViaOrder` makes), detection of
  a chunk's offset map, part size limits, counters of skipped atoms, logs, progress.
* In the statistics: the bytes of the patterns (`mutual_pattern.cpp`), which 100 transitions of many are
  looked at, `cycle_size_`, the shares of likely sizes and counts (`RepairScan` takes what is decided by them as
  `predictable` and `likely_n_p`), the warnings about bad tracks, chunks outside the mdat.
* Of the codecs: formats other than H.264 and H.265, audio that FFmpeg decodes, the decoding of
  parameter sets and slice headers bit by bit, padded video samples (`mp4.cpp:173`), units that end a
  stream and must have no temporal id (`hvc1/nal.cpp:77`).  They are answers about bytes, without a state of their own.
* Of the tables and atoms: edit lists, durations in header atoms, dumps, the checks of `parseTracksOk`, FFmpeg's contexts,
  negative 64-bit lengths (`atom.cpp:60`).
* Of RSV: references without an `rtmd` track (`rsv.cpp:285`) or without video (`rsv.cpp:349`, refused), and what the
  window holds behind the file's end (`rsv.cpp:142`).
* `FileWrite`, `copyRange`, `listm`, reports and `analyze`: thin layers over stdio, or output that nothing reads.
* The `tests` of the repository and its vendored code.

## 6. Plan

The components that keep state of their own have a module each, and every safety property of the scan, of
the writing, of the buffered file, of the codecs' walk, of the search and of the RSV repair
is a theorem.  What is left, in order:

1. A proof of `AtomTree`'s `TypeOK`, and of `KeepsWholeRoots` from a path of atoms like that of `AtomSearchProofs`.
2. `ScanWindow`: fragments that `getMatch`, `wouldMatch` and `advanceOffset` hold while the
   window moves, on top of `FileWindow`.
3. `TablesAgree` of `SampleTables`, as far as it is not a fold.
