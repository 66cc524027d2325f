---------------------------- MODULE MCAtomSearch ----------------------------
(***************************************************************************)
(* AtomSearch over short files: some root atoms in some order, something   *)
(* in the content of one that reads as a header, one with a wrong length   *)
(* (0 when it would be less, and -1 under a 64-bit header) or a 64-bit     *)
(* header; whole, or cut in the last atom.                                 *)
(***************************************************************************)
EXTENDS AtomSearch
CONSTANTS Wrong,    \* by how much a length is wrong
          Inside,   \* where in a content something reads as a header
          Lengths   \* what that states

MCWrong == {-9, 4, 1000, -1000}

Box(name, content) == [name |-> name, content |-> content, wide |-> FALSE, wrong |-> 0, inside |-> <<>>]
Layouts == {<<Box("ftyp", 12), Box("mdat", 14), Box("moov", 13)>>,
            <<Box("ftyp", 0), Box("free", 12), Box("mdat", 12), Box("moov", 12)>>,
            <<Box("moov", 12), Box("mdat", 13)>>,
            <<Box("mdat", 15), Box("moov", 0), Box("free", 0)>>,
            <<Box("ftyp", 12), Box("free", 12)>>}

Changed(l, fields) == UNION {{[l EXCEPT ![i] = f] : f \in fields[i]} : i \in DOMAIN l}
Named == [at : Inside, name : {"mdat", "moov", "avcC"}, length : Lengths]
WithInside(l) == {l} \cup Changed(l, [i \in DOMAIN l |-> {[l[i] EXCEPT !.inside = <<n>>] : n \in {m \in Named : m.at + 8 <= l[i].content}}])
WithFault(l) == {l} \cup Changed(l, [i \in DOMAIN l |-> {[l[i] EXCEPT !.wide = TRUE, !.wrong = w] : w \in {0, -1000}} \cup {[l[i] EXCEPT !.wrong = w] : w \in Wrong}])

Header(b) == IF b.wide THEN 16 ELSE 8
Sum(S, f(_)) == FoldSet(LAMBDA i, n : n + f(i), 0, S)
Begin(l, i) == Sum(1 .. i - 1, LAMBDA k : Header(l[k]) + l[k].content)

Stated(b) == LET n == Header(b) + b.content + b.wrong IN IF b.wide THEN Max({-1, n}) ELSE Min({Limit, Max({0, n})})

\* The layout behind lead bytes that are no header, up to byte n.
Heads(l, lead) ==
    {<<lead + Begin(l, i), [name |-> l[i].name, wide |-> l[i].wide, length |-> Stated(l[i])]>> : i \in DOMAIN l}
    \cup {<<lead + Begin(l, i) + Header(l[i]) + l[i].inside[1].at,
            [name |-> l[i].inside[1].name, wide |-> FALSE, length |-> l[i].inside[1].length]>> : i \in {k \in DOMAIN l : l[k].inside # <<>>}}
FileOf(l, lead, n) ==
    LET there == {h \in Heads(l, lead) : h[1] + (IF h[2].wide THEN 16 ELSE 8) <= n}
    IN  [size |-> n, heads |-> [p \in {h[1] : h \in there} |-> (CHOOSE h \in there : h[1] = p)[2]]]

FilesOf(layouts, lead) ==
    {FileOf(l, lead, Begin(l, Len(l) + 1) + lead - cut) : l \in layouts, cut \in {0, 9}}
Faulty == FilesOf(UNION {UNION {WithInside(f) : f \in WithFault(l)} : l \in Layouts}, 0)
Headless == FilesOf(UNION {WithInside(l) \cup WithFault(l) : l \in Layouts}, 5)
Few == FilesOf(UNION {WithFault(l) : l \in Layouts}, 0)
PlainIndex == FileOf(<<Box("ftyp", 0), Box("moov", 12)>>, 0, 28)

Find(f, search, rtmd, orig, moov, range) ==
    [op |-> "find", file |-> f, range |-> range, own |-> FALSE, rtmd |-> rtmd, search_mdat |-> search,
     orig_mdat_start |-> orig, moov_start |-> moov]
FindOwn(f, pointed, search) ==
    [Find(f, search, FALSE, Min(RootMdats(f)), Min({p \in RootAtoms(f) : f.heads[p].name = "moov"}), <<>>) EXCEPT !.own = TRUE]
    @@ [pointed |-> pointed, root_mdat |-> Min(RootMdats(f))]
Shorten(f, bytes, force) == [op |-> "shorten", file |-> f, bytes |-> bytes, force |-> force]
Join(f, index, range) == [op |-> "unite", file |-> f, index |-> index, range |-> range]

Own == {f \in Few : RootMdats(f) # {} /\ \E p \in RootAtoms(f) : f.heads[p].name = "moov"}
Ranges == {<<16, 1000>>, <<20, -4>>, <<20, 20>>, <<12, 30>>}

MCJobs ==
    {Find(f, FALSE, FALSE, 0, 8, <<>>) : f \in Faulty}
    \cup {Find(f, search, rtmd, orig, 8, <<>>) : f \in Headless, search \in BOOLEAN, rtmd \in BOOLEAN, orig \in {0, 8}}
    \cup {Find(f, FALSE, FALSE, 0, 8, r) : f \in Headless, r \in Ranges}
    \cup {FindOwn(f, pointed, search) : f \in Own, pointed \in BOOLEAN, search \in BOOLEAN}
    \cup {Shorten(f, bytes, bytes % 2 = 0) : f \in Faulty \cup Headless, bytes \in {10, 30, 33, 48, 53}}
    \cup {Join(f, PlainIndex, <<>>) : f \in Faulty}
    \cup {Join(PlainIndex, f, r) : f \in Few, r \in Ranges}
=============================================================================
