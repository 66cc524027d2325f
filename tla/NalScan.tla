------------------------------ MODULE NalScan ------------------------------
(***************************************************************************)
(* How long a video sample is (getSizeAvc1, getSizeHvc1): H.264 and H.265  *)
(* samples are walked NAL unit by NAL unit until one begins another access *)
(* unit, and while at it the sample is found to be a key frame or not.     *)
(*                                                                         *)
(* The content is a sequence of NAL units, each with what the walk reads   *)
(* of it; bytes of other tracks are units of type "none", or whatever else *)
(* they read as.  job.units says which of them the encoder had put         *)
(* together; the code does not see that.                                   *)
(***************************************************************************)
EXTENDS Integers, Sequences, SequencesExt, FiniteSetsExt
CONSTANTS Jobs,       \* the walks to make
          Lookahead   \* kMatchLookaheadBuf

ASSUME LookaheadAssumption == Lookahead \in Nat

VARIABLES job,           \* stream, options and statistics: never changes
          nth,           \* the NAL unit at pos
          length,        \* of the units walked over
          seen_slice,    \* previous_slice.is_ok, seen_slice
          previous_nal,  \* the first slice (avc1), the unit before (hvc1), or none
          was_keyframe,
          alternatives,  \* alternative_lengths
          pc             \* "walk", "choose", "done"
vars == <<job, nth, length, seen_slice, previous_nal, was_keyframe, alternatives, pc>>

\* Where the units end.
Ends(nals) ==
    LET end[n \in 0 .. Len(nals)] == IF n = 0 THEN 0 ELSE end[n - 1] + nals[n].length
    IN  end
LengthOf(nals) == Ends(nals)[Len(nals)]

\* What is read of a unit, and what the walk is given.
Unit == [type : {"AUD", "VPS", "SPS", "PPS", "SEI", "SUFFIX_SEI", "FILLER", "SLICE", "KEY_SLICE", "none"},
         field : {"frame", "top", "bottom"},
         forbidden : BOOLEAN, decodes : BOOLEAN, twos : BOOLEAN, first_slice : BOOLEAN,
         length : Nat \ {0}, ref_idc : Nat, frame_num : Nat, pps_id : Nat, poc_lsb : Nat, idr_pic_id : Nat,
         nuh_layer_id : Nat, temporal_id_plus1 : Nat]
Stat == [lower_bound : Nat, upper_bound : Nat]
Content(j) == j.units[1] \o j.units[2]
IsJob(j) ==
    /\ j.codec \in {"avc1", "hvc1"}
    /\ j.units[1] \in Seq(Unit) /\ j.units[2] \in Seq(Unit)
    /\ {j.strict, j.skip_filler, j.ignore_forbidden, j.chk_for_twos, j.allow_large, j.continues} \subseteq BOOLEAN
    /\ j.normal \in Stat /\ j.keyframe \in Stat
    /\ j.maxlength \in 1 .. LengthOf(Content(j))
    /\ j.content \in Nat /\ j.content >= j.maxlength

ASSUME JobsAssumption == \A j \in Jobs : IsJob(j)

Nals == Content(job)
Nal == Nals[nth]
MaxLength == job.maxlength - length

(***************************************************************************)
(* One unit                                                                *)
(***************************************************************************)
\* Mutant: a unit may reach beyond the content.
ParsesBeyond(nal) == nal.type # "none"

\* A temporal_id_plus1 of 0 is one that the unit's type forbids.
Parses(nal) ==
    /\ nal.type # "none"
    /\ nal.length <= MaxLength
    /\ nal.forbidden => job.ignore_forbidden
    /\ job.codec = "hvc1" => nal.temporal_id_plus1 # 0

IsSlice(nal) == nal.type \in {"SLICE", "KEY_SLICE"}
IsKeyframe(nal) == nal.type = "KEY_SLICE"

\* SliceInfo::isInNewFrame: what two slices of one H.264 picture cannot differ in.
IsInNewFrame(s, previous) ==
    \/ s.frame_num # previous.frame_num
    \/ s.pps_id # previous.pps_id
    \/ s.type # previous.type
    \/ s.field # previous.field
    \/ job.strict /\ \/ s.poc_lsb # previous.poc_lsb
                     \/ IsKeyframe(s) /\ s.idr_pic_id # previous.idr_pic_id

\* Any other ref_idc is allowed in one picture.
OnlyOneIsReference(s, previous) ==
    s.ref_idc # previous.ref_idc /\ (s.ref_idc = 0 \/ previous.ref_idc = 0)

\* The unit is not of the H.264 sample that the walk is in.  A set of parameters in it is
\* decoded only if the reference had none; the slices' fields are taken as read.
EndsAvc1(nal) ==
    IF IsSlice(nal)
    THEN seen_slice /\ (IsInNewFrame(nal, previous_nal[1]) \/ OnlyOneIsReference(nal, previous_nal[1]))
    ELSE IF nal.type = "FILLER" THEN job.skip_filler
    ELSE seen_slice

\* Mutant: parameter sets belong to the sample before.
EndsHvc1NoSets(nal) ==
    IF IsSlice(nal) THEN seen_slice /\ nal.first_slice
    ELSE nal.type = "AUD" /\ previous_nal # <<>>

\* The same for H.265; prefix SEI units end no sample.
EndsHvc1(nal) ==
    IF IsSlice(nal)
    THEN /\ previous_nal # <<>>
         /\ \/ seen_slice /\ nal.first_slice
            \/ nal.nuh_layer_id # previous_nal[1].nuh_layer_id
            \/ nal.temporal_id_plus1 # previous_nal[1].temporal_id_plus1
    ELSE \/ nal.type = "AUD" /\ previous_nal # <<>>
         \/ nal.type \notin {"AUD", "FILLER"} /\ nal.forbidden
         \/ nal.type \in {"VPS", "SPS", "PPS"} /\ seen_slice

(***************************************************************************)
(* Sizes of the reference's samples                                        *)
(***************************************************************************)
EffectiveStat(is_keyframe) == IF is_keyframe THEN job.keyframe ELSE job.normal
WouldExceed(additional, is_keyframe) ==
    LET limit == EffectiveStat(is_keyframe).upper_bound
    IN  limit # 0 /\ length + additional > limit
IsBigEnough(is_keyframe) ==
    LET limit == EffectiveStat(is_keyframe).lower_bound
    IN  limit # 0 /\ length >= limit

(***************************************************************************)
(* The walk: each unit ends it or is taken                                 *)
(***************************************************************************)
Init ==
    /\ job \in Jobs
    /\ nth = 1
    /\ length = 0
    /\ seen_slice = FALSE
    /\ previous_nal = <<>>
    /\ was_keyframe = FALSE
    /\ alternatives = <<>>
    /\ pc = "walk"

\* getSizeHvc1 has a choice when there are shorter lengths.
Return(lengths) == pc' = IF lengths = <<>> THEN "done" ELSE "choose"

LooksLikeTwos == job.codec = "avc1" /\ job.chk_for_twos /\ Nal.twos
Reads(codec) == pc = "walk" /\ job.codec = codec /\ ~LooksLikeTwos /\ Parses(Nal)

\* Audio, or no header: the end.
NoNal ==
    /\ pc = "walk"
    /\ LooksLikeTwos \/ ~Parses(Nal)
    /\ Return(alternatives)
    /\ UNCHANGED <<job, nth, length, seen_slice, previous_nal, was_keyframe, alternatives>>

Advance(lengths) ==
    /\ nth' = nth + 1
    /\ length' = length + Nal.length
    /\ IF length' = job.maxlength THEN Return(lengths) ELSE UNCHANGED pc

EndAvc1 ==
    /\ Reads("avc1")
    /\ EndsAvc1(Nal)
    /\ Return(alternatives)
    /\ UNCHANGED <<job, nth, length, seen_slice, previous_nal, was_keyframe, alternatives>>

\* Mutant: the last unit decides.
MarkLastOnly(nal) == IsKeyframe(nal)

\* was_keyframe_ from here on.
MarkKeyframe(nal) == was_keyframe \/ IsKeyframe(nal)

TakeAvc1 ==
    /\ Reads("avc1")
    /\ ~EndsAvc1(Nal)
    /\ was_keyframe' = MarkKeyframe(Nal)
    /\ IF IsSlice(Nal) /\ ~seen_slice
       THEN seen_slice' = Nal.decodes /\ previous_nal' = <<Nal>>
       ELSE UNCHANGED <<seen_slice, previous_nal>>
    /\ IF WouldExceed(Nal.length, was_keyframe')
       THEN Return(alternatives) /\ UNCHANGED <<nth, length>>
       ELSE Advance(alternatives)
    /\ UNCHANGED <<job, alternatives>>

\* The mark is set before the unit is known to be of this sample.
EndHvc1 ==
    /\ Reads("hvc1")
    /\ EndsHvc1(Nal)
    /\ was_keyframe' = MarkKeyframe(Nal)
    /\ Return(alternatives)
    /\ UNCHANGED <<job, nth, length, seen_slice, previous_nal, alternatives>>

TakeHvc1 ==
    /\ Reads("hvc1")
    /\ ~EndsHvc1(Nal)
    /\ was_keyframe' = MarkKeyframe(Nal)
    /\ seen_slice' = (seen_slice \/ IsSlice(Nal))
    /\ IF WouldExceed(Nal.length, job.allow_large \/ was_keyframe')
       THEN Return(alternatives) /\ UNCHANGED <<nth, length, previous_nal, alternatives>>
       ELSE /\ alternatives' = IF IsBigEnough(was_keyframe') THEN Append(alternatives, length) ELSE alternatives
            /\ previous_nal' = <<Nal>>
            /\ Advance(alternatives')
    /\ UNCHANGED job

\* A unit of an H.265 sample begins at off, and enough of it is there to look at.  The last
\* track is taken to be this one and its samples not to be padded; that the bytes matched
\* are those of a unit's header, of which the matcher looks at two, is too.
MatchesAt(off) ==
    /\ off + Lookahead <= job.content
    /\ \E n \in DOMAIN Nals :
        /\ off = Ends(Nals)[n - 1]
        /\ Nals[n].type # "none"
        /\ Nals[n].nuh_layer_id = 0
        /\ Nals[n].temporal_id_plus1 = 1

\* findSizeWithContinuation: the longest length behind which another sample could begin.
FindSizeWithContinuation(sizes) ==
    LET matching == {i \in DOMAIN sizes : MatchesAt(sizes[i])}
    IN  IF job.continues /\ matching # {} THEN sizes[Max(matching)] ELSE Last(sizes)

Choose ==
    /\ pc = "choose"
    /\ length' = FindSizeWithContinuation(Append(alternatives, length))
    /\ pc' = "done"
    /\ UNCHANGED <<job, nth, seen_slice, previous_nal, was_keyframe, alternatives>>

Next == NoNal \/ EndAvc1 \/ TakeAvc1 \/ EndHvc1 \/ TakeHvc1 \/ Choose
Spec == Init /\ [][Next]_vars

(***************************************************************************)
(* The walk keeps its types, and stays in the content.                     *)
(***************************************************************************)
TypeOK ==
    /\ IsJob(job)
    /\ nth \in 1 .. Len(Nals) + 1
    /\ length \in 0 .. job.maxlength
    /\ seen_slice \in BOOLEAN
    /\ was_keyframe \in BOOLEAN
    /\ Len(previous_nal) <= 1
    /\ \A i \in DOMAIN alternatives : alternatives[i] \in 1 .. job.maxlength
    /\ pc \in {"walk", "choose", "done"}

(***************************************************************************)
(* What the walk should find.  The sample at pos is the access unit        *)
(* job.units[1], as far as it is there.                                    *)
(***************************************************************************)
Own == job.units[1]
Following == job.units[2][1]
Slices == {i \in DOMAIN Own : IsSlice(Own[i])}
SliceNth == Min(Slices)
FirstSlice == Own[SliceNth]

\* Cameras whose filler data are skipped do not count them into the sample.
Skipped == {i \in DOMAIN Own : job.codec = "avc1" /\ job.skip_filler /\ Own[i].type = "FILLER"}
SampleUnits == IF Skipped = {} THEN Len(Own) ELSE Min(Skipped) - 1
SampleLength == Max({Ends(Nals)[n] : n \in {m \in 0 .. SampleUnits : Ends(Nals)[m] <= job.maxlength}})
SampleIsKey == IsKeyframe(FirstSlice)

\* By what the pictures of H.264 differ (7.4.1.2.4 of the standard), and what the code
\* looks at when it is not strict.
PictureId(s) == <<s.type, s.field, s.frame_num, s.pps_id, IF s.ref_idc = 0 THEN 0 ELSE 1>>
FullId(s) == <<PictureId(s), s.poc_lsb, IF IsKeyframe(s) THEN s.idr_pic_id ELSE 0>>

\* An access unit as an encoder puts it together: what leads the first slice, the slices of one picture,
\* what trails them.
OneAvc1Picture ==
    /\ \A i \in DOMAIN Own : ~ Own[i].twos
    /\ FirstSlice.decodes
    /\ \A i \in DOMAIN Own : IF i < SliceNth THEN Own[i].type # "FILLER"
                             ELSE Own[i].type # "FILLER" => IsSlice(Own[i]) /\ FullId(Own[i]) = FullId(FirstSlice)
    /\ \A i, k \in DOMAIN Own : i < k /\ Own[i].type = "FILLER" => Own[k].type = "FILLER"
OneHvc1Picture ==
    \A i \in DOMAIN Own :
        /\ Own[i].type = "AUD" => i = 1
        /\ Own[i].type \in {"VPS", "SPS", "PPS"} => i < SliceNth
        /\ IsSlice(Own[i]) => Own[i].type = FirstSlice.type /\ (Own[i].first_slice => i = SliceNth)
        /\ Own[i].nuh_layer_id = FirstSlice.nuh_layer_id
        /\ Own[i].temporal_id_plus1 = FirstSlice.temporal_id_plus1
        /\ Own[i].temporal_id_plus1 # 0
IsAccessUnit ==
    /\ Slices # {}
    /\ \A i \in DOMAIN Own : Own[i].type # "none" /\ ~ Own[i].forbidden
    /\ IF job.codec = "avc1" THEN OneAvc1Picture ELSE OneHvc1Picture

\* Samples of this size were in the reference.
Allows(is_keyframe, n) ==
    LET limit == EffectiveStat(is_keyframe \/ (job.codec = "hvc1" /\ job.allow_large)).upper_bound
    IN  limit = 0 \/ n <= limit
SizeIsUsual ==
    /\ Allows(SampleIsKey, Ends(Nals)[SampleUnits])
    /\ Allows(FALSE, Ends(Nals)[SliceNth - 1])

\* Behind it is what is no unit, or one by which the code tells the next access unit.  Without the
\* strict check that is less, and in H.265 SEI units ahead of a picture do not count.
TellsAvc1(nal) ==
    \/ nal.twos /\ job.chk_for_twos
    \/ ~ IsSlice(nal) /\ nal.type # "FILLER"
    \/ IsSlice(nal) /\ PictureId(nal) # PictureId(FirstSlice)
    \/ IsSlice(nal) /\ job.strict /\ FullId(nal) # FullId(FirstSlice)
TellsHvc1(nal) ==
    \/ nal.temporal_id_plus1 = 0
    \/ IsSlice(nal) /\ nal.first_slice
    \/ IsSlice(nal) /\ nal.nuh_layer_id # FirstSlice.nuh_layer_id
    \/ IsSlice(nal) /\ nal.temporal_id_plus1 # FirstSlice.temporal_id_plus1
    \/ nal.type \in {"AUD", "VPS", "SPS", "PPS"}
    \/ nal.type \in {"SEI", "SUFFIX_SEI"} /\ nal.forbidden
NextIsTold ==
    /\ job.units[2] # <<>>
    /\ \/ Following.type = "none"
       \/ Following.forbidden /\ ~ job.ignore_forbidden
       \/ SampleLength + Following.length > job.maxlength
       \/ IF job.codec = "avc1" THEN TellsAvc1(Following) ELSE TellsHvc1(Following)

\* If the chunk is believed to go on it does.
ContinuesRightly ==
    job.continues =>
        /\ Following.type # "none" /\ Following.nuh_layer_id = 0 /\ Following.temporal_id_plus1 = 1
        /\ SampleLength = LengthOf(Own) /\ SampleLength + Lookahead <= job.content

\* The sample found is the access unit that begins here: no unit of the next one, none left for it.
EndsWithAccessUnit ==
    pc = "done" /\ IsAccessUnit /\ SizeIsUsual /\ NextIsTold /\ ContinuesRightly => length = SampleLength

IsKeyUpTo(n) == \E k \in DOMAIN Nals : IsKeyframe(Nals[k]) /\ Ends(Nals)[k] <= n

\* A sample with a key slice is saved as a key frame, and no H.264 sample without one.
MarksKeyframes ==
    pc = "done" => /\ IsKeyUpTo(length) => was_keyframe
                   /\ job.codec = "avc1" /\ IsAccessUnit /\ SizeIsUsual /\ was_keyframe => IsKeyUpTo(length)

\* "IRAP slice types (keyframes / random access points)", nal.h: a sample is in the sync
\* sample table only if it has such a slice.
OnlyKeyframesAreMarked == pc = "done" /\ was_keyframe => IsKeyUpTo(length)
=============================================================================
