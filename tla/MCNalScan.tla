----------------------------- MODULE MCNalScan -----------------------------
(***************************************************************************)
(* NalScan over streams of two access units, or of one and what is no      *)
(* unit: every way for two pictures to follow one another, in one or two   *)
(* slices, with and without the units around them; whole, or cut in the    *)
(* first access unit or behind it.                                         *)
(***************************************************************************)
EXTENDS NalScan

NalUnit(type, len) ==
    [type |-> type, length |-> len, field |-> "frame", ref_idc |-> 0, frame_num |-> 0, pps_id |-> 0, poc_lsb |-> 0,
     idr_pic_id |-> 0, nuh_layer_id |-> 0, temporal_id_plus1 |-> 1, forbidden |-> FALSE, decodes |-> TRUE,
     twos |-> FALSE, first_slice |-> FALSE]
Units(types) == [i \in DOMAIN types |-> NalUnit(types[i], 1)]

(***************************************************************************)
(* H.264                                                                   *)
(***************************************************************************)
Pictures ==
    {[NalUnit("SLICE", 3) EXCEPT !.frame_num = n, !.poc_lsb = p, !.ref_idc = r] : n, p, r \in {0, 1}}
    \cup {[NalUnit("SLICE", 3) EXCEPT !.pps_id = 1]}
    \cup {[NalUnit("KEY_SLICE", 4) EXCEPT !.idr_pic_id = i, !.ref_idc = 1, !.field = f] : i \in {0, 1}, f \in {"frame", "top"}}
    \cup {[NalUnit("SLICE", 3) EXCEPT !.field = f] : f \in {"top", "bottom"}}

\* Slices of one picture may differ in how much of a reference they are.
SlicesOf(p) == {<<p>>, <<p, [p EXCEPT !.ref_idc = IF p.ref_idc = 0 THEN 0 ELSE 2]>>}
Leads == {<<>>, <<"AUD">>, <<"SEI">>, <<"SPS", "PPS">>, <<"AUD", "SEI">>}
Trails == {<<>>, <<"FILLER">>}

Audio == [NalUnit("SLICE", 2) EXCEPT !.twos = TRUE]
Broken == {NalUnit("none", 4), [NalUnit("SLICE", 4) EXCEPT !.forbidden = TRUE], [NalUnit("SLICE", 4) EXCEPT !.length = 90]}

Cuts(units) == LET own == LengthOf(units[1]) all == Min({own + 4, LengthOf(units[1] \o units[2])})
               IN  {l \in {own - 1, own, all - 1, all} : l > 0}
NoStat == [lower_bound |-> 0, upper_bound |-> 0]

Walk(codec, units, maxlength, strict, skip, twos, ignore) ==
    [codec |-> codec, units |-> units, maxlength |-> maxlength, content |-> maxlength, strict |-> strict,
     skip_filler |-> skip, chk_for_twos |-> twos, ignore_forbidden |-> ignore, allow_large |-> FALSE,
     continues |-> FALSE, normal |-> NoStat, keyframe |-> NoStat]

Avc1Pairs(leads) ==
    {<<Units(l) \o s \o Units(t), Units(l) \o <<q>> \o Units(t)>> :
       l \in leads, t \in Trails, s \in UNION {SlicesOf(p) : p \in Pictures}, q \in Pictures}
Differ(p, q) == [p EXCEPT !.length = 0, !.ref_idc = 0] # [q EXCEPT !.length = 0, !.ref_idc = 0] \/ OnlyOneIsReference(p, q)
SliceOf(unit) == unit[Min({i \in DOMAIN unit : IsSlice(unit[i])})]
Avc1Streams(leads) == {u \in Avc1Pairs(leads) : Differ(SliceOf(u[1]), SliceOf(u[2]))}
Avc1Ends == {<<Units(l) \o s, <<e>>>> : l \in Leads, s \in UNION {SlicesOf(p) : p \in Pictures}, e \in {Audio} \cup Broken}

\* strict_nal_frame_check and skip_nal_filler_data: as they are, for XAVC, for CAEP.
Avc1Walk(u, strict, skip) == Walk("avc1", u, LengthOf(u[1] \o u[2]), strict, skip, FALSE, FALSE)
Avc1Jobs ==
    {Avc1Walk(u, TRUE, FALSE) : u \in Avc1Streams(Leads)}
    \cup {Avc1Walk(u, FALSE, skip) : u \in Avc1Streams({<<>>}), skip \in BOOLEAN}
    \cup UNION {{Walk("avc1", u, l, TRUE, FALSE, TRUE, FALSE) : l \in Cuts(u)} : u \in Avc1Ends}

(***************************************************************************)
(* H.265                                                                   *)
(***************************************************************************)
Segments(type, n) == [i \in 1 .. n |-> [NalUnit(type, IF type = "SLICE" THEN 3 ELSE 4) EXCEPT !.first_slice = i = 1]]
Leads265 == {<<>>, <<"AUD">>, <<"SEI">>, <<"VPS", "SPS", "PPS">>, <<"AUD", "PPS", "SEI">>}
Trails265 == {<<>>, <<"SUFFIX_SEI">>, <<"FILLER">>}
Pictures265 == {Units(l) \o Segments(type, n) \o Units(t) :
                  l \in Leads265, type \in {"SLICE", "KEY_SLICE"}, n \in 1 .. 2, t \in Trails265}
Broken265 == Broken \cup {[NalUnit("SLICE", 4) EXCEPT !.temporal_id_plus1 = n] : n \in {0, 2}}
Streams265 == {<<p, Units(l) \o Segments(type, 1)>> : p \in Pictures265, l \in Leads265, type \in {"SLICE", "KEY_SLICE"}}
\* An SEI unit with its forbidden bit set ends the sample even when that bit is ignored.
Ends265(ignore) ==
    {<<p, <<e>>>> : p \in Pictures265, e \in {b \in Broken265 : ignore => ~b.forbidden} \cup {[NalUnit("SEI", 4) EXCEPT !.forbidden = TRUE]}}

\* No statistics, none to choose from, or lengths that a first segment reaches.
Stats(u) == LET n == LengthOf(u[1])
            IN  {<<NoStat, NoStat>>, <<[lower_bound |-> n, upper_bound |-> n], [lower_bound |-> n, upper_bound |-> n + 9]>>,
                 <<[lower_bound |-> 2, upper_bound |-> n + 1], [lower_bound |-> 4, upper_bound |-> n + 2]>>}
Hvc1Jobs ==
    UNION {{[Walk("hvc1", u, LengthOf(u[1] \o u[2]), TRUE, FALSE, FALSE, FALSE) EXCEPT !.normal = s[1], !.keyframe = s[2], !.continues = c, !.allow_large = ~ c]
             : s \in Stats(u), c \in BOOLEAN} : u \in Streams265}
    \cup UNION {UNION {{[Walk("hvc1", u, l, TRUE, FALSE, FALSE, i) EXCEPT !.normal = s[1], !.keyframe = s[2]]
             : s \in Stats(u), l \in Cuts(u)} : u \in Ends265(i)} : i \in BOOLEAN}

MCJobs == Avc1Jobs \cup Hvc1Jobs
=============================================================================
