---------------------------- MODULE MCRepairScan ----------------------------
(***************************************************************************)
(* Instances of RepairScan: a video track and an audio track, and the jobs *)
(* each run considers.                                                     *)
(***************************************************************************)
EXTENDS RepairScan, TLC
CONSTANTS v, a

\* A track whose codec finds frames of the given lengths.
Supported(codec, lens) ==
    [codec |-> codec, lens |-> lens, bounded |-> TRUE, has_duplicates |-> FALSE,
     is_jpeg |-> FALSE, pkt_sz_gcd |-> 1, pad_after_chunk |-> -1,
     likely_n |-> <<>>, likely_n_p |-> 0, likely_sizes |-> <<>>, predictable |-> FALSE,
     distance_gcd |-> 1, start_gcd |-> 1, end_gcd |-> 1, next |-> {}]

PlainRef(video, audio) ==
    (v :> Supported("avc1", video)) @@ (a :> Supported("mp4a", audio))
    @@ (Free :> Supported("free", {}))

\* No chunk statistics: every codec is supported and tells a frame's length.
PlainJob ==
    [use_chunk_stats |-> FALSE, ignore_unknown |-> TRUE, dont_exclude |-> FALSE, step |-> 1,
     ref |-> PlainRef({2}, {1}), has_free |-> FALSE, zero_transitions |-> FALSE,
     order |-> <<>>, simple |-> <<>>, cycle_size |-> 0, first_rel |-> 0, first_abs |-> -1,
     orig_first |-> v, fallback |-> {}]

PlainJobs == {PlainJob,
              [PlainJob EXCEPT !.ignore_unknown = FALSE],
              [PlainJob EXCEPT !.dont_exclude = TRUE]}

\* A track known only by its chunks: n samples of the given sizes in each.
Predicted(codec, n, sizes, next) ==
    [Supported(codec, {}) EXCEPT !.likely_n = n, !.likely_n_p = 100,
        !.likely_sizes = sizes, !.predictable = TRUE, !.next = next]

StatsRef(video, audio, free) == (v :> video) @@ (a :> audio) @@ (Free :> free)

\* The order video, audio is known; video frames are found by their codec, audio
\* chunks of two samples are predicted and followed by a byte of padding.
OrderJob ==
    [PlainJob EXCEPT !.use_chunk_stats = TRUE, !.ignore_unknown = FALSE,
        !.ref = StatsRef([Supported("avc1", {1, 2}) EXCEPT !.likely_n = <<1>>, !.likely_n_p = 80,
                              !.next = {a}],
                         [Predicted("sowt", <<2>>, <<1>>, {v}) EXCEPT !.pad_after_chunk = 1],
                         Supported("free", {})),
        !.order = <<[track |-> v, n |-> 1], [track |-> a, n |-> 2]>>, !.simple = <<v, a>>]

\* No order: transition patterns lead from video to audio and out of free bytes.
PatternJob ==
    [OrderJob EXCEPT !.ignore_unknown = TRUE, !.order = <<>>, !.simple = <<>>,
        !.has_free = TRUE, !.first_abs = 1,
        !.ref = StatsRef([Supported("avc1", {2}) EXCEPT !.pkt_sz_gcd = 2, !.next = {a, Free}],
                         Predicted("sowt", <<2>>, <<1>>, {v, Free}),
                         [Supported("free", {}) EXCEPT !.next = {v, a}])]

\* Frames are padded to two bytes; audio sample sizes vary.
VariableJob ==
    [PatternJob EXCEPT
        !.ref = StatsRef([Supported("avc1", {1}) EXCEPT !.pkt_sz_gcd = 2, !.next = {a}],
                         Predicted("mp4a", <<2>>, <<1, 2>>, {v}),
                         [Supported("free", {}) EXCEPT !.next = {v, a}]),
        !.first_abs = -1, !.first_rel = 0, !.zero_transitions = TRUE]

StatsJobs == {OrderJob, PatternJob, VariableJob}

\* Two tracks of one codec: the simple order tells their frames apart.
DuplicateJob ==
    [PlainJob EXCEPT !.ignore_unknown = FALSE, !.simple = <<v, a>>,
        !.ref = (v :> [Supported("mp4a", {2}) EXCEPT !.has_duplicates = TRUE,
                         !.likely_n = <<1>>, !.likely_n_p = 100])
                @@ (a :> [Supported("mp4a", {1}) EXCEPT !.has_duplicates = TRUE,
                            !.likely_n = <<1>>, !.likely_n_p = 100])
                @@ (Free :> Supported("free", {}))]

AllJobs == PlainJobs \cup StatsJobs \cup {DuplicateJob}
=============================================================================
