------------------------------ MODULE RsvScan ------------------------------
(***************************************************************************)
(* RsvRepairer (core/rsv.cpp): a Sony recording that was never closed has  *)
(* no index.  It is groups of metadata packets, access units and audio,    *)
(* one after the other; the groups are found by the headers of the packets *)
(* and of the access units, and the audio by its length before the next    *)
(* packet.                                                                 *)
(*                                                                         *)
(* A file is a function from its places to what begins there: the header   *)
(* of a packet ("head"), an access unit delimiter ("unit"), or other.      *)
(* Lengths are the code's, to scale.                                       *)
(***************************************************************************)
EXTENDS Integers, Sequences, FiniteSets, FiniteSetsExt, SequencesExt
CONSTANTS Jobs,          \* [file, tracks, ...]: the file, how many audio tracks the reference has,
                         \* and where a camera wrote what (IsRecording; not seen by the code)
          HeadLen,       \* bytes of a packet's header, 12
          AudLen,        \* bytes of a delimiter, 5
          BufSize,       \* bytes looked at at once, 128 MB
          HeadScan,      \* where two packets are looked for, 100000
          PacketSizes,   \* the distances believed, 1001 .. 99999
          DefaultPacket, \* 19456
          MaxPackets,    \* of a group, 100
          MinVideo,      \* where the next packet is looked for, 500 KB
          Margin,        \* left out at the end of the video when its units are counted, 100000
          FrameCounts,   \* the numbers of units believed, 6 .. 60
          DefaultFrames, \* 12
          AudioPerFrame  \* bytes of one audio track while a frame is shown

ASSUME LengthsAssumption ==
    /\ HeadLen \in Nat \ {0} /\ AudLen \in 1 .. HeadLen /\ BufSize \in Nat /\ HeadScan \in Nat
    /\ PacketSizes \subseteq Nat \ {0} /\ DefaultPacket \in Nat \ {0} /\ MaxPackets \in Nat
    /\ MinVideo \in Nat /\ Margin \in Nat /\ AudioPerFrame \in Nat
    /\ FrameCounts \subseteq Nat /\ DefaultFrames \in Nat

ASSUME JobsAssumption ==
    \A j \in Jobs :
        /\ j.tracks \in Nat
        /\ IsFiniteSet(DOMAIN j.file) /\ DOMAIN j.file = 0 .. Cardinality(DOMAIN j.file) - 1

VARIABLES job,    \* the configuration: never changes
          state,  \* "detect", "groups", "saved", or "failed": an exception leaves repair
          packet, \* rtmd_packet_size
          total,  \* total_audio_chunk_size
          pos,    \* where the next group begins
          video,  \* the video track: sizes of its samples, keyframes, chunks
          audio,  \* the chunks of each audio track
          meta    \* the chunks of the rtmd track
vars == <<job, state, packet, total, pos, video, audio, meta>>

Size == Cardinality(DOMAIN job.file)
\* Nearer to the end than a header, what the window holds is taken to be no header.
HeadAt(i) == i + HeadLen <= Size /\ job.file[i] = "head"
UnitAt(i) == i + AudLen <= Size /\ job.file[i] = "unit"
FirstOr(S, other) == IF S = {} THEN other ELSE Min(S)
\* The numbers of S from the least on.
InOrder(S) == [k \in 1 .. Cardinality(S) |-> CHOOSE x \in S : Cardinality({y \in S : y < x}) = k - 1]
Chunk(off, size, n) == [off |-> off, size |-> size, n |-> n]

(***************************************************************************)
(* detectStructure                                                         *)
(***************************************************************************)
DetectRead == Min({BufSize, Size})

DetectedPacket ==
    LET heads == {i \in 0 .. Min({DetectRead, HeadScan}) - HeadLen : HeadAt(i)}
        first == FirstOr(heads, 0)
        second == FirstOr(heads \ {first}, first)
    IN  IF second - first \in PacketSizes THEN second - first ELSE DefaultPacket

\* The units before the second group's first packet; none are counted when it is not found.
DetectedFrames(size) ==
    LET packets == Min({n \in 0 .. MaxPackets : n = MaxPackets \/ n * size + HeadLen >= DetectRead \/ ~ HeadAt(n * size)})
        start == packets * size
        next == FirstOr({i \in start + MinVideo .. DetectRead - HeadLen : HeadAt(i)}, 0)
        units == {i \in start .. next - Margin - AudLen : UnitAt(i)}
    IN  IF packets > 0 /\ Cardinality(units) \in FrameCounts THEN Cardinality(units) ELSE DefaultFrames

Detect ==
    /\ state = "detect"
    /\ state' = "groups"
    /\ packet' = IF Size < HeadLen + 1 THEN DefaultPacket ELSE DetectedPacket
    /\ total' = (IF Size < HeadLen + 1 THEN DefaultFrames ELSE DetectedFrames(packet')) * AudioPerFrame * Max({1, job.tracks})
    /\ UNCHANGED <<job, pos, video, audio, meta>>

(***************************************************************************)
(* processGops                                                             *)
(***************************************************************************)
Packets == Min({n \in 0 .. MaxPackets : n = MaxPackets \/ ~ HeadAt(pos + n * packet)})
VideoStart == pos + Packets * packet
BufEnd == Min({VideoStart + BufSize, Size})

\* Where the next group begins: at the first header beyond the least length of video.
NextHead ==
    LET skip == Min({MinVideo, (BufEnd - VideoStart) \div 4})
    IN  FirstOr({i \in VideoStart + skip .. BufEnd - HeadLen - 1 : HeadAt(i)}, Size)

\* Mutant: the audio lies at the end of the file.
AudioAtEnd == Size - total
AudioStart == NextHead - total

\* Mutant: units in the audio are kept.
FramesWithAudio == InOrder({i \in VideoStart .. BufEnd - 2 * AudLen : UnitAt(i) /\ i < NextHead})

Frames == InOrder({i \in VideoStart .. BufEnd - 2 * AudLen : UnitAt(i) /\ i < AudioStart})

\* Mutant: the audio's length is taken off a second time.
FrameSizeLessAudio(i) == (IF i < Len(Frames) THEN Frames[i + 1] ELSE AudioStart - total) - Frames[i]
FrameSize(i) == (IF i < Len(Frames) THEN Frames[i + 1] ELSE AudioStart) - Frames[i]

\* Mutant: every audio track reads the whole region.
AudioChunksShared == [t \in 1 .. job.tracks |-> Chunk(AudioStart, total \div job.tracks, total \div job.tracks)]

AudioChunks ==
    LET each == total \div job.tracks
    IN  [t \in 1 .. job.tracks |-> Chunk(AudioStart + (t - 1) * each, each, each)]

Turn == state = "groups" /\ pos < Size

\* A packet that the file's end cuts: the length of the rest of the file is negative, and the read fails.
ReadFails ==
    /\ Turn /\ Packets > 0 /\ VideoStart > Size
    /\ state' = "failed"
    /\ UNCHANGED <<job, packet, total, pos, video, audio, meta>>

\* The loop ends at a group without packets or without frames, and what was found is saved.
Save ==
    /\ state = "groups"
    /\ pos < Size /\ Packets > 0 => VideoStart <= Size /\ Frames = <<>>
    /\ state' = "saved"
    /\ UNCHANGED <<job, packet, total, pos, video, audio, meta>>

\* One group, of a reference that has a video track (repair refuses another) and an rtmd
\* track (without it no packets are stored).
Group ==
    /\ Turn /\ Packets > 0 /\ VideoStart <= Size /\ Frames # <<>>
    /\ LET sizes == [i \in 1 .. Len(Frames) |-> FrameSize(i)]
       IN  video' = [sizes |-> video.sizes \o sizes,
                     keys |-> Append(video.keys, Len(video.sizes)),
                     chunks |-> video.chunks \o [i \in 1 .. Len(Frames) |-> Chunk(Frames[i], sizes[i], 1)]]
    /\ audio' = [t \in 1 .. job.tracks |-> Append(audio[t], AudioChunks[t])]
    /\ pos' = IF job.tracks > 0 THEN AudioStart + total ELSE NextHead
    /\ meta' = Append(meta, Chunk(pos, Packets * packet, Packets))
    /\ UNCHANGED <<job, state, packet, total>>

Init ==
    /\ job \in Jobs
    /\ state = "detect"
    /\ packet = DefaultPacket
    /\ total = 0
    /\ pos = 0
    /\ video = [sizes |-> <<>>, keys |-> <<>>, chunks |-> <<>>]
    /\ audio = [t \in 1 .. job.tracks |-> <<>>]
    /\ meta = <<>>

Stopped == state \in {"saved", "failed"} /\ UNCHANGED vars
Next == Detect \/ Group \/ ReadFails \/ Save \/ Stopped
Spec == Init /\ [][Next]_vars

-----------------------------------------------------------------------------
\* The variables keep their types.
ChunkType == [off : Nat, size : Nat, n : Nat]
TypeOK ==
    /\ state \in {"detect", "groups", "saved", "failed"}
    /\ packet \in PacketSizes \cup {DefaultPacket}
    /\ total \in Nat /\ pos \in 0 .. Size
    /\ video.chunks \in Seq(ChunkType) /\ meta \in Seq(ChunkType)
    /\ \A t \in 1 .. job.tracks : audio[t] \in Seq(ChunkType)

Bytes(chunk) == chunk.off .. chunk.off + chunk.size - 1
\* The chunks of each track: the video's at -1, the metadata's at 0.
Chunks == [t \in -1 .. job.tracks |-> IF t = -1 THEN video.chunks ELSE IF t = 0 THEN meta ELSE audio[t]]
Covered == UNION {UNION {Bytes(Chunks[t][k]) : k \in DOMAIN Chunks[t]} : t \in DOMAIN Chunks}

\* Every byte of the groups walked is in at most one chunk, and no chunk leaves them, although
\* the audio's place is counted back from the next packet, the frames' from the packets before,
\* and neither is bounded by the other (rsv.cpp:204-219).  Chunks of different tracks that
\* overlapped would play one track's bytes in another.
NoByteTwice ==
    LET c == Chunks
    IN  /\ \A t \in DOMAIN c : \A k \in DOMAIN c[t] : Bytes(c[t][k]) \subseteq 0 .. pos - 1
        /\ \A t, u \in DOMAIN c : \A k \in DOMAIN c[t], l \in DOMAIN c[u] :
              t # u \/ k # l => Bytes(c[t][k]) \cap Bytes(c[u][l]) = {}

\* With an audio track, what the groups walked lose lies between a packet and a group's first unit:
\* nothing behind a frame is left out (rsv.cpp:207-219).
LosesOnlyLeads ==
    job.tracks > 0 =>
        \A i \in (0 .. pos - 1) \ Covered :
            \E m \in ToSet(meta), v \in ToSet(video.chunks) :
                /\ m.off + m.size <= i /\ i < v.off
                /\ \A j \in m.off + m.size .. v.off - 1 : ~ UnitAt(j)

(***************************************************************************)
(* A recording as a camera leaves it, cut anywhere: job.groups says where  *)
(* its groups and their parts were written, with job.packet bytes for each *)
(* packet and job.units access units in a group.  The code does not see    *)
(* that.                                                                   *)
(***************************************************************************)
GroupType == [begin : Nat, packets : Nat, frames : Seq(Nat), audio : Nat]
End(j, g) == g.audio + j.units * AudioPerFrame * j.tracks
PacketAt(j, g, n) == g.begin + n * j.packet

\* The next packet is far enough for its header to be believed and near enough to be seen, and the
\* last unit is before the part that is not counted.
IsGroup(j, g) ==
    /\ g.packets \in 1 .. MaxPackets
    /\ Len(g.frames) = j.units
    /\ g.frames[1] = PacketAt(j, g, g.packets)
    /\ \A u, v \in 1 .. j.units : u < v => g.frames[u] + AudLen <= g.frames[v]
    /\ \A u \in 1 .. j.units : g.frames[u] + AudLen <= g.audio
    /\ g.frames[j.units] + AudLen + Margin <= End(j, g)
    /\ g.frames[1] + MinVideo <= End(j, g)
    /\ End(j, g) + HeadLen < g.begin + BufSize

\* How far the second packet is from the first, and that a packet's length and the number of units are
\* either what the code believes to see or what it takes otherwise.
SecondPacket(j) == IF j.groups[1].packets > 1 THEN j.packet ELSE End(j, j.groups[1])
IsUsual(j) ==
    /\ SecondPacket(j) \in PacketSizes => SecondPacket(j) = j.packet
    /\ j.packet = DefaultPacket \/ (SecondPacket(j) = j.packet /\ j.packet \in PacketSizes /\ j.packet + HeadLen <= HeadScan)
    /\ j.units \in FrameCounts \cup {DefaultFrames}

\* There are headers and delimiters where the camera wrote them, and nowhere else.
IsRecording(j) ==
    /\ j.groups \in Seq(GroupType) /\ j.groups # <<>>
    /\ {j.tracks, j.packet, j.units} \subseteq Nat \ {0}
    /\ j.groups[1].begin = 0
    /\ \A k \in 1 .. Len(j.groups) - 1 : j.groups[k + 1].begin = End(j, j.groups[k])
    /\ \A k \in 1 .. Len(j.groups) : IsGroup(j, j.groups[k])
    /\ IsUsual(j)
    /\ \A i \in DOMAIN j.file :
          /\ j.file[i] = "head" <=> \E k \in 1 .. Len(j.groups) : \E n \in 0 .. j.groups[k].packets - 1 : i = PacketAt(j, j.groups[k], n)
          /\ j.file[i] = "unit" <=> \E k \in 1 .. Len(j.groups) : \E u \in 1 .. j.units : i = j.groups[k].frames[u]

\* The groups before a packet that the file still shows; the scan sees a header when a byte follows it.
Whole == {k \in 1 .. Len(job.groups) - 1 : job.groups[k + 1].begin + HeadLen < Size}

\* The chunks that group g was written as.
WrittenFrame(g, u) == Chunk(g.frames[u], (IF u < job.units THEN g.frames[u + 1] ELSE g.audio) - g.frames[u], 1)
WrittenAudio(g, t) == Chunk(g.audio + (t - 1) * (job.units * AudioPerFrame), job.units * AudioPerFrame, job.units * AudioPerFrame)
WrittenMeta(g) == Chunk(g.begin, g.packets * job.packet, g.packets)

IsRecovered(k) ==
    LET g == job.groups[k]
    IN  /\ k <= Len(meta) /\ meta[k] = WrittenMeta(g)
        /\ \A t \in 1 .. job.tracks : k <= Len(audio[t]) /\ audio[t][k] = WrittenAudio(g, t)
        /\ k <= Len(video.keys) /\ video.keys[k] = (k - 1) * job.units
        /\ \A u \in 1 .. job.units :
              LET i == (k - 1) * job.units + u
              IN  /\ i <= Len(video.chunks) /\ video.chunks[i] = WrittenFrame(g, u)
                  /\ i <= Len(video.sizes) /\ video.sizes[i] = WrittenFrame(g, u).size

\* A recording that was cut anywhere is recovered up to the last packet header it still has: each
\* frame, each track's audio and the packets of every group, at their places and lengths, each
\* group's first frame a keyframe.  The audio's length was derived from a count of units that stops
\* 100000 bytes before the next packet (rsv.cpp:100), the packets' from the first two (rsv.cpp:52).
RecoversWholeGroups == state = "saved" /\ IsRecording(job) => \A k \in Whole : IsRecovered(k)
=============================================================================
