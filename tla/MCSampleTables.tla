--------------------------- MODULE MCSampleTables ---------------------------
(***************************************************************************)
(* SampleTables over short tracks.  The healthy file's tables are as a     *)
(* muxer writes them, in runs or entry by entry.                           *)
(***************************************************************************)
EXTENDS SampleTables
CONSTANTS MaxFound,  \* samples the scan finds
          Sizes, Durations, Composition

SeqsOf(S, lengths) == UNION {[1 .. n -> S] : n \in lengths}

\* Ways to lay n samples into chunks.
Layouts(n) == {l \in SeqsOf(1 .. n, 0 .. n) : Sum(l) = n}

EntryByEntry(values) == [i \in 1 .. Len(values) |-> <<1, values[i]>>]
Tables(sizes, constant, durations, ctts, stss, layout, runs) ==
    [stts |-> IF runs THEN Compress(durations) ELSE EntryByEntry(durations),
     stss |-> stss,
     stsz |-> [constant |-> constant, count |-> Len(durations), sizes |-> IF constant = 0 THEN sizes ELSE <<>>],
     stsc |-> [i \in 1 .. Len(layout) |-> <<i, layout[i]>>],
     stco |-> [i \in 1 .. Len(layout) |-> 20 + 10 * i],
     ctts |-> ctts]

Job(ref, path, gcd, padded) == [ref |-> ref, path |-> path, gcd |-> gcd, padded |-> padded, raw |-> 0, mebx |-> FALSE,
                                 mdat |-> 20, base |-> 7]

\* Files made streamable: every layout and run of durations; every short sequence of composition offsets.
Streamed ==
    UNION {{Job(Tables(sizes, 0, durations, <<>>, stss, layout, runs), "streamable", 1, FALSE) :
               sizes \in [1 .. n -> Sizes], durations \in [1 .. n -> Durations], layout \in Layouts(n),
               stss \in {<<>>, <<1, n>>}, runs \in BOOLEAN} : n \in 2 .. 4}
    \cup UNION {{Job(Tables(<<>>, 2, [i \in 1 .. n |-> 1], Compress(comps), <<>>, <<n>>, TRUE), "streamable", 1, FALSE) :
               comps \in [1 .. n -> Composition]} : n \in 4 .. 5}

\* References of a repair: what of them outlives clear.
References ==
    {Job(Tables([i \in 1 .. 2 |-> 1], constant, durations, ctts, <<1>>, <<2>>, TRUE), "repair", gcd, padded) :
        constant \in {0, 3}, durations \in {<<1, 2>>, <<2, 2>>}, gcd \in {1, 2}, padded \in BOOLEAN,
        ctts \in {<<>>, << <<1, 0>>, <<1, 1>> >>, << <<2, 0>>, <<1, 1>>, <<2, 0>> >>}}
\* A reference without key frames; one whose stated frame size is corrected; one of metadata.
OtherReferences ==
    {Job(Tables(<<1, 1>>, 0, <<1, 2>>, <<>>, <<>>, <<2>>, TRUE), "repair", 1, FALSE),
     [Job(Tables(<<>>, 1, <<2, 2>>, <<>>, <<>>, <<2>>, TRUE), "repair", 1, FALSE) EXCEPT !.raw = 3],
     [Job(Tables(<<1, 1>>, 0, <<1, 2>>, <<>>, <<>>, <<2>>, TRUE), "repair", 1, FALSE) EXCEPT !.mebx = TRUE]}
MCJobs == Streamed \cup References \cup OtherReferences

\* Chunks with a gap of one byte between them, which is excluded or not.
Found(samples, layout, gap) ==
    LET first(c) == Sum(SubSeq(layout, 1, c - 1))
    IN  [c \in 1 .. Len(layout) |->
            [off |-> 6 * first(c) + c, excluded |-> c * gap, samples |-> SubSeq(samples, first(c) + 1, first(c) + layout[c])]]

MCFinds(j) ==
    LET sizes == IF j.raw # 0 THEN {j.raw} ELSE IF j.ref.stsz.constant = 0 THEN Sizes ELSE {j.ref.stsz.constant}
        sample == [size : sizes, duration : {0, 2}, key : BOOLEAN]
    IN  UNION {{Found(samples, layout, gap) : samples \in [1 .. n -> sample], layout \in Layouts(n), gap \in {0, 1}} :
               n \in 0 .. MaxFound}
=============================================================================
