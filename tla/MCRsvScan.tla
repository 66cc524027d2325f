----------------------------- MODULE MCRsvScan -----------------------------
(***************************************************************************)
(* RsvScan over short files of every content, and over recordings as a     *)
(* camera leaves them: three groups of Packet-long metadata packets,       *)
(* Units access units and the audio of each track, cut at any byte.        *)
(***************************************************************************)
EXTENDS RsvScan
CONSTANTS AnyLength, Packet, Units, UnitSizes, TrackCounts

Repeat(x, n) == [i \in 1 .. n |-> x]
GroupBytes(g, tracks) ==
    FlattenSeq(Repeat(<<"head">> \o Repeat("other", Packet - 1), g.packets))
    \o FlattenSeq([u \in 1 .. Units |-> <<"unit">> \o Repeat("other", g.sizes[u] - 1)])
    \o Repeat("other", Units * AudioPerFrame * tracks)

Total(lengths) == SumFunction(lengths)

Groups == [packets : 1 .. 2, sizes : [1 .. Units -> UnitSizes]]
Recorded(groups, tracks) == FlattenSeq([g \in 1 .. Len(groups) |-> GroupBytes(groups[g], tracks)])
Cut(bytes, n) == [i \in 0 .. n - 1 |-> bytes[i + 1]]

\* Where a recording's groups were written.
Begins(groups, tracks, g) == Total([k \in 1 .. g - 1 |-> Len(GroupBytes(groups[k], tracks))])
Laid(groups, tracks) ==
    [g \in 1 .. Len(groups) |->
        LET begin == Begins(groups, tracks, g)
            frame(u) == begin + groups[g].packets * Packet + Total(SubSeq(groups[g].sizes, 1, u - 1))
        IN  [begin |-> begin, packets |-> groups[g].packets,
             frames |-> [u \in 1 .. Units |-> frame(u)], audio |-> frame(Units + 1)]]

\* The files of any content have none.
AnyFiles == {[file |-> f, tracks |-> t, packet |-> Packet, units |-> Units, groups |-> <<>>] :
                f \in [0 .. AnyLength - 1 -> {"head", "unit", "other"}], t \in {0} \cup TrackCounts}
Recordings ==
    UNION {LET bytes == Recorded(groups, t)
               laid == Laid(groups, t)
           IN  {[file |-> Cut(bytes, n), tracks |-> t, packet |-> Packet, units |-> Units, groups |-> laid] : n \in 1 .. Len(bytes)} :
           groups \in {<<a, b, a>> : a, b \in Groups}, t \in TrackCounts}
MCJobs == AnyFiles \cup Recordings

ASSUME CameraWroteThem == \A j \in Recordings : IsRecording(j)
=============================================================================
