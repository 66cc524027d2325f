------------------------------ MODULE AtomTree ------------------------------
(***************************************************************************)
(* Mp4::parseOk and Atom::parse read the reference file into a tree of     *)
(* atoms; saveVideo prunes the tree, counts its lengths again and writes   *)
(* its ftyp and moov in front of the repaired media data (atom/atom.cpp,   *)
(* core/mp4_parse.cpp, core/mp4_output.cpp).                               *)
(*                                                                         *)
(* A file is its size and the headers that stand in it, by their places.   *)
(* The tree is the sequence of its atoms in the order they are read and    *)
(* written, each with its depth.                                           *)
(***************************************************************************)
EXTENDS Integers, Sequences, FiniteSets, SequencesExt
CONSTANTS Jobs,      \* [heads, size, empty, is64]: the reference, which of its tracks got no sample, and
                     \* whether the broken file is longer than 4 GiB
          Parents,   \* names of the atoms that hold atoms, udta excepted
          Dropped,   \* names that saveVideo leaves out: cslg and stps
          BufSize,   \* the window of a file: the reference is not longer, see FileWindow
          TableSizes \* the lengths that a chunk offset table may get

ASSUME WindowHoldsFile == \A j \in Jobs : j.size \in Nat /\ j.size <= BufSize

VARIABLES job,    \* the configuration: never changes
          pc,     \* "parse", "parsed", "tables", "pruned", "counted", "written", "refused", "aborted"
          pos,    \* where the file is read
          open,   \* the parents being read, outermost first, by their index in atoms
          atoms,  \* the tree
          front,  \* what saveVideo adds to the chunk offsets for ftyp and moov
          written \* the bytes that ftyp and moov take in the repaired file
vars == <<job, pc, pos, open, atoms, front, written>>

(***************************************************************************)
(* The tree                                                                *)
(***************************************************************************)
Below(t, i, j) == i < j /\ \A k \in i + 1 .. j : t[k].depth > t[i].depth
Children(t, i) == {j \in DOMAIN t : Below(t, i, j) /\ t[j].depth = t[i].depth + 1}
Subtree(t, i) == {j \in DOMAIN t : i = j \/ Below(t, i, j)}
Roots(t, name) == {i \in DOMAIN t : t[i].depth = 0 /\ t[i].name = name}
First(S) == CHOOSE i \in S : \A j \in S : i <= j
Sum(S, f(_)) == FoldSet(LAMBDA i, n : n + f(i), 0, S)

\* updateLength: what write puts out for an atom, whose header is 8 bytes long again.
Counted(t, i) == Sum(Subtree(t, i), LAMBDA j : 8 + t[j].content)

UpdatedLengths(t) == [i \in DOMAIN t |-> [t[i] EXCEPT !.length = Counted(t, i)]]

\* prune(name) below atom i
Pruned(t, i, names) ==
    LET gone == UNION {Subtree(t, j) : j \in {k \in DOMAIN t : Below(t, i, k) /\ t[k].name \in names}}
        kept == SelectSeq([k \in DOMAIN t |-> k], LAMBDA k : k \notin gone)
    IN  [k \in DOMAIN kept |-> t[kept[k]]]

\* Mutant: a child is erased and the parent's length stays.
PrunedUncounted(t, i, child) ==
    LET gone == Subtree(t, child)
    IN  [k \in 1 .. Len(t) - Cardinality(gone) |-> IF k < child THEN t[k] ELSE t[k + Cardinality(gone)]]

\* prune(child) of atom i
PrunedChild(t, i, child) ==
    LET gone == Subtree(t, child)
        shorter == [t EXCEPT ![i].length = @ - t[child].length]
    IN  [k \in 1 .. Len(t) - Cardinality(gone) |-> IF k < child THEN shorter[k] ELSE shorter[k + Cardinality(gone)]]

(***************************************************************************)
(* parseOk                                                                 *)
(***************************************************************************)
\* parseHeader: a length of 0 reaches to the file's end, a longer header holds 64 bits of length
\* (none of the jobs' is negative, which parseHeader would read as 8).
HeadBytes(p) == IF job.heads[p].wide THEN 16 ELSE 8
StatedLength(p) == IF job.heads[p].length = 0 /\ ~ job.heads[p].wide THEN job.size - p ELSE job.heads[p].length

\* What is not a header has a name with other characters than letters, digits and spaces; so
\* has what is read beyond the end of the file, where the window holds zeros.
HasHeader == pos \in DOMAIN job.heads /\ pos + 8 <= job.size

AtomAt(p, content) ==
    [name |-> job.heads[p].name, length |-> StatedLength(p), depth |-> Len(open), content |-> content]

ParentEnd == Last(open).end
AtomDue == pc = "parse" /\ (open # <<>> => pos < ParentEnd)

EnterParent ==
    /\ AtomDue /\ HasHeader
    /\ job.heads[pos].name \in Parents
    /\ atoms' = Append(atoms, AtomAt(pos, 0))
    /\ open' = Append(open, [at |-> Len(atoms) + 1, end |-> pos + StatedLength(pos)])
    /\ pos' = pos + HeadBytes(pos)
    /\ UNCHANGED <<job, pc, front, written>>

\* Its atoms have to end where it does.
LeaveParent ==
    /\ pc = "parse" /\ open # <<>>
    /\ pos >= ParentEnd
    /\ open' = Front(open)
    /\ pc' = IF pos = ParentEnd THEN pc ELSE "aborted"
    /\ UNCHANGED <<job, pos, atoms, front, written>>

PassMdat ==
    /\ AtomDue /\ HasHeader
    /\ job.heads[pos].name = "mdat"
    /\ atoms' = Append(atoms, AtomAt(pos, 0))
    /\ pos' = IF pos + StatedLength(pos) < job.size THEN pos + StatedLength(pos) ELSE job.size
    /\ UNCHANGED <<job, pc, open, front, written>>

\* The length includes 8 bytes of header, whatever the header's length.
Content(p) == StatedLength(p) - 8
Readable(p) == Content(p) >= 0 /\ p + HeadBytes(p) + Content(p) <= BufSize
IsLeaf(p) == job.heads[p].name \notin Parents \cup {"mdat"}

ReadContent ==
    /\ AtomDue /\ HasHeader
    /\ IsLeaf(pos) /\ Readable(pos)
    /\ atoms' = Append(atoms, AtomAt(pos, Content(pos)))
    /\ pos' = pos + HeadBytes(pos) + Content(pos)
    /\ UNCHANGED <<job, pc, open, front, written>>

AtRoot == open = <<>>
AtEndOfFile == AtRoot /\ atoms # <<>> /\ pos >= job.size

\* Mutant: the parents of the atom that failed are still being read.
FailAtomOpen ==
    /\ AtomDue /\ ~ AtEndOfFile
    /\ HasHeader => IsLeaf(pos) /\ ~ Readable(pos)
    /\ atoms' = IF AtRoot THEN atoms ELSE SubSeq(atoms, 1, open[1].at - 1)
    /\ pc' = "parsed"
    /\ UNCHANGED <<job, pos, open, front, written>>

\* Mutant: an atom that cannot be read takes the tree along.
FailTree ==
    /\ AtomDue /\ ~ AtEndOfFile
    /\ HasHeader => IsLeaf(pos) /\ ~ Readable(pos)
    /\ atoms' = <<>>
    /\ open' = <<>>
    /\ pc' = "parsed"
    /\ UNCHANGED <<job, pos, front, written>>

\* An atom that cannot be read is dropped with the root atom it is in, and ends the tree.
FailAtom ==
    /\ AtomDue /\ ~ AtEndOfFile
    /\ HasHeader => IsLeaf(pos) /\ ~ Readable(pos)
    /\ atoms' = IF AtRoot THEN atoms ELSE SubSeq(atoms, 1, open[1].at - 1)
    /\ open' = <<>>
    /\ pc' = "parsed"
    /\ UNCHANGED <<job, pos, front, written>>

EndOfFile ==
    /\ pc = "parse" /\ AtEndOfFile
    /\ pc' = "parsed"
    /\ UNCHANGED <<job, pos, open, atoms, front, written>>

\* Without a moov or an mdat at the root there is no reference.
Refuse ==
    /\ pc = "parsed"
    /\ Roots(atoms, "moov") = {} \/ Roots(atoms, "mdat") = {}
    /\ pc' = "refused"
    /\ UNCHANGED <<job, pos, open, atoms, front, written>>

(***************************************************************************)
(* saveVideo                                                               *)
(***************************************************************************)
Moov == First(Roots(atoms, "moov"))
Traks == {i \in Children(atoms, Moov) : atoms[i].name = "trak"}
IsEmpty(i) == Cardinality({j \in Traks : j <= i}) \in job.empty

\* A broken file of another size than the reference gets tables of the other kind, at the end of the stbl.
OtherTable == IF job.is64 THEN "stco" ELSE "co64"
Table == IF job.is64 THEN "co64" ELSE "stco"

Stbl(t, trak) == First({j \in DOMAIN t : Below(t, trak, j) /\ t[j].name = "stbl"})
NewTable(t, stbl) == [name |-> Table, length |-> -1, depth |-> t[stbl].depth + 1, content |-> 0]
Swapped(t, trak) ==
    LET left == Pruned(t, Stbl(t, trak), {OtherTable})
        end == CHOOSE i \in Subtree(left, Stbl(t, trak)) : i + 1 \notin Subtree(left, Stbl(t, trak))
    IN  IF \E j \in DOMAIN t : Below(t, Stbl(t, trak), j) /\ t[j].name = OtherTable
        THEN InsertAt(left, end + 1, NewTable(t, Stbl(t, trak)))
        ELSE t

\* writeToAtoms: each track's tables grow or shrink, its chunk offsets here for all of them, and
\* no length_ follows.
Retabled(t, trak, n) ==
    [i \in DOMAIN Swapped(t, trak) |->
        LET atom == Swapped(t, trak)[i]
        IN  IF atom.name = Table /\ Below(Swapped(t, trak), trak, i) /\ ~ IsEmpty(trak)
            THEN [atom EXCEPT !.content = n] ELSE atom]

WriteTables ==
    /\ pc = "parsed"
    /\ Roots(atoms, "moov") # {} /\ Roots(atoms, "mdat") # {}
    /\ \E n \in TableSizes :
         atoms' = FoldLeft(LAMBDA t, trak : Retabled(t, trak, n), atoms, SetToSortSeq(Traks, >))
    /\ pc' = "tables"
    /\ UNCHANGED <<job, pos, open, front, written>>

PruneAndCount ==
    /\ pc = "tables"
    /\ atoms' = UpdatedLengths(Pruned(atoms, Moov, Dropped))
    /\ pc' = "pruned"
    /\ UNCHANGED <<job, pos, open, front, written>>

\* The tracks without samples go, one after the other.
Emptied == {i \in Traks : IsEmpty(i)}
WithoutEmpty ==
    LET last == SetToSortSeq(Emptied, >)
    IN  FoldLeft(LAMBDA t, i : PrunedChild(t, Moov, i), atoms, last)

\* The chunk offsets are counted from the lengths that the two atoms state.
LengthOfFirst(t, name) == IF Roots(t, name) = {} THEN 0 ELSE t[First(Roots(t, name))].length

PruneEmpty ==
    /\ pc = "pruned"
    /\ atoms' = WithoutEmpty
    /\ front' = LengthOfFirst(atoms', "ftyp") + LengthOfFirst(atoms', "moov")
    /\ pc' = "counted"
    /\ UNCHANGED <<job, pos, open, written>>

\* write asserts that an atom is as long as it states, from the inside out.
WrittenRoots == {First(Roots(atoms, name)) : name \in {n \in {"ftyp", "moov"} : Roots(atoms, n) # {}}}
WriteFront ==
    /\ pc = "counted"
    /\ written' = Sum(WrittenRoots, LAMBDA i : Counted(atoms, i))
    /\ pc' = IF \A r \in WrittenRoots : \A i \in Subtree(atoms, r) : Counted(atoms, i) = atoms[i].length
             THEN "written" ELSE "aborted"
    /\ UNCHANGED <<job, pos, open, atoms, front>>

Init ==
    /\ job \in Jobs
    /\ pc = "parse"
    /\ pos = 0 /\ open = <<>> /\ atoms = <<>>
    /\ front = 0 /\ written = 0

Stopped == pc \in {"written", "refused", "aborted"} /\ UNCHANGED vars
Next == \/ EnterParent \/ LeaveParent \/ PassMdat \/ ReadContent \/ FailAtom \/ EndOfFile \/ Refuse
        \/ WriteTables \/ PruneAndCount \/ PruneEmpty \/ WriteFront \/ Stopped
Spec == Init /\ [][Next]_vars

-----------------------------------------------------------------------------
\* The tree is one: it begins at depth 0, no atom is deeper than one below the atom before, and
\* only parents hold atoms.
TypeOK ==
    /\ pc \in {"parse", "parsed", "tables", "pruned", "counted", "written", "refused", "aborted"}
    /\ pos \in Nat /\ front \in Nat /\ written \in Nat
    /\ \A k \in DOMAIN open : open[k].at \in DOMAIN atoms /\ atoms[open[k].at].depth = k - 1
    /\ \A i \in DOMAIN atoms :
         /\ atoms[i].content \in Nat /\ atoms[i].length >= -1
         /\ IF i = 1 THEN atoms[i].depth = 0
            ELSE /\ atoms[i].depth <= atoms[i - 1].depth + 1
                 /\ atoms[i].depth > atoms[i - 1].depth => atoms[i - 1].name \in Parents
=============================================================================
