----------------------------- MODULE MCAtomTree -----------------------------
(***************************************************************************)
(* AtomTree over the files that a tree is written to, in three orders of   *)
(* their root atoms: cut anywhere, or whole with one atom at most under a   *)
(* 64-bit header.  An mdat at the end states the length 0.                 *)
(***************************************************************************)
EXTENDS AtomTree
CONSTANTS Lengths \* of the contents of the plain atoms

Node(name, depth, content) == [name |-> name, depth |-> depth, content |-> content, wide |-> FALSE]
Index(a, b) ==
    <<Node("moov", 0, 0), Node("mvhd", 1, a),
      Node("trak", 1, 0), Node("stbl", 2, 0), Node("stco", 3, b), Node("cslg", 3, a),
      Node("trak", 1, 0), Node("stbl", 2, 0), Node("co64", 3, a), Node("stps", 1, b)>>
Data(a) == <<Node("mdat", 0, a)>>
Plain(name, a) == <<Node(name, 0, a)>>

Written ==
    UNION {{Plain("ftyp", a) \o Data(5) \o Index(a, b),
            Index(b, a) \o Plain("free", b) \o Data(a),
            Plain("ftyp", b) \o Index(a, a) \o Data(b) \o Plain("udta", a)} : a, b \in Lengths}

Widened(t) == {t} \cup {[t EXCEPT ![i].wide = TRUE] : i \in DOMAIN t}
HeaderOf(n) == IF n.wide THEN 16 ELSE 8
Bytes(t, S) == Sum(S, LAMBDA j : HeaderOf(t[j]) + t[j].content)
Begin(t, i) == Bytes(t, 1 .. i - 1)
Length(t, i) == Bytes(t, Subtree(t, i))

\* An mdat that ends the file may state the length 0.
Open(t, i) == t[i].name = "mdat" /\ i = Len(t) /\ ~ t[i].wide

\* The file up to byte n.
Headers(t, n) ==
    LET there == {i \in DOMAIN t : Begin(t, i) + HeaderOf(t[i]) <= n}
    IN  [p \in {Begin(t, i) : i \in there} |->
            LET i == CHOOSE j \in there : Begin(t, j) = p
            IN  [name |-> t[i].name, wide |-> t[i].wide, length |-> IF Open(t, i) THEN 0 ELSE Length(t, i)]]
File(t, n, empty, is64) == [heads |-> Headers(t, n), size |-> n, empty |-> empty, is64 |-> is64, tree |-> t]

MCJobs ==
    UNION {{File(t, n, {}, FALSE) : n \in 1 .. Bytes(t, DOMAIN t)} : t \in Written}
    \cup {File(t, Bytes(t, DOMAIN t), empty, is64) :
               empty \in SUBSET {1, 2}, is64 \in BOOLEAN, t \in UNION {Widened(w) : w \in Written}}

\* The root atoms that the file still has whole, up to the first that holds a leaf under a 64-bit header.
WideLeaf(t, i) == t[i].wide /\ t[i].name \notin Parents \cup {"mdat"}
WholeRoots ==
    LET t == job.tree
        whole == {i \in DOMAIN t : Begin(t, i) + HeaderOf(t[i]) + t[i].content <= job.size}
        last == {i \in DOMAIN t : t[i].depth = 0 /\ \E j \in Subtree(t, i) : WideLeaf(t, j) \/ j \notin whole}
    IN  IF last = {} THEN DOMAIN t ELSE 1 .. First(last) - 1

Shape(t, S) == [i \in S |-> <<t[i].name, t[i].depth, t[i].content>>]

\* A reference that was cut anywhere is read as the tree it was written from, up to the last root
\* atom it has whole: the atom that cannot be read takes the root atom around it along, and no
\* other (mp4_parse.cpp:82-92, atom.cpp:86-91).
KeepsWholeRoots ==
    pc = "parsed" =>
        /\ WholeRoots \subseteq DOMAIN atoms
        /\ LET data == {i \in WholeRoots : job.tree[i].name = "mdat"}
           IN  Shape(atoms, WholeRoots \ data) = Shape(job.tree, WholeRoots \ data)
        /\ (\A i \in DOMAIN job.tree : ~ WideLeaf(job.tree, i)) =>
              Cardinality({i \in DOMAIN atoms \ WholeRoots : atoms[i].depth = 0}) <= 1

\* The offset that every chunk is moved by, which is taken from the lengths two atoms state after
\* tables grew, atoms were pruned by name and tracks one by one (mp4_output.cpp:177-194), is the
\* number of bytes these atoms take; and reading and writing never end in a length that an assert
\* refuses (atom.cpp:91, 169), but for a reference with a leaf under a 64-bit header.
CountsWhatItWrites ==
    /\ pc = "written" => front = written
    /\ pc = "aborted" => \E i \in DOMAIN job.tree : WideLeaf(job.tree, i)
=============================================================================
