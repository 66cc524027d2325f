---------------------------- MODULE MCChunkStats ----------------------------
(***************************************************************************)
(* ChunkStats over short healthy files.                                    *)
(***************************************************************************)
EXTENDS ChunkStats
CONSTANTS Sizes, Gaps

Video == [codec |-> "avc1", supported |-> TRUE, constant |-> 0]
Audio == [codec |-> "sowt", supported |-> FALSE, constant |-> 2]
Text  == [codec |-> "text", supported |-> FALSE, constant |-> 0]
Tmcd  == [codec |-> "tmcd", supported |-> TRUE, constant |-> 0]

Item(track, sizes, gap) == [track |-> track, sizes |-> sizes, gap |-> gap]
Job(lead, layout, media, clean, dyn) ==
    [start |-> 4, lead |-> lead, layout |-> layout, media |-> media, clean |-> clean, dyn |-> dyn]

\* Every track has a chunk.
Complete(layout, media) == \A t \in DOMAIN media : \E i \in DOMAIN layout : layout[i].track = t

\* Packets of a text track, padded or not, with one video chunk somewhere and one at the end.
Padded ==
    {Job(lead, [i \in 1 .. 5 |-> Item(IF i \in {v, w} THEN 1 ELSE 2, <<s[i]>>, g[i])], <<Video, Text>>, TRUE, FALSE) :
        lead \in {0, 1}, v \in {1, 3, 4}, w \in {5}, s \in {f \in [1 .. 5 -> Sizes] : f[5] = 3},
        g \in {f \in [1 .. 5 -> Gaps] : f[5] = 0}}

\* Chunks of one or two samples without gaps, of up to three tracks: their order.
Ordered ==
    {Job(0, [i \in DOMAIN ts |-> Item(ts[i], [k \in 1 .. IF i = long THEN 2 ELSE 1 |-> 2], 0)],
         <<Video, Audio, Tmcd>>, FALSE, TRUE) :
        ts \in [1 .. 6 -> 1 .. 3], long \in 0 .. 6}

\* Free sequences behind chunks of known size, which the scan steps over or not.
Freed ==
    {Job(lead, [i \in 1 .. 6 |-> Item((i % 2) + 1, IF i % 2 = 0 THEN <<s[i]>> ELSE <<2, 2>>, g[i])], <<Video, Audio>>, clean, FALSE) :
        lead \in {0, 2}, clean \in BOOLEAN, s \in {f \in [1 .. 6 -> Sizes] : \A i \in {1, 3, 5} : f[i] = 3},
        g \in [1 .. 6 -> {0, 3}]}

\* Supported tracks only: no statistics, and an order for two of the same codec.
Plain ==
    {Job(0, [i \in 1 .. 4 |-> Item(ts[i], <<s[i]>>, 0)], media, FALSE, FALSE) :
        ts \in [1 .. 4 -> 1 .. 2], s \in [1 .. 4 -> Sizes], media \in {<<Video, Video>>, <<Video, Tmcd>>}}

MCJobs == {j \in Padded \cup Ordered \cup Freed \cup Plain : Complete(j.layout, j.media)}
=============================================================================
