----------------------------- MODULE FileBuffer -----------------------------
(***************************************************************************)
(* A FileRead and its callers: any sequence of the public calls that move  *)
(* the position or the window.                                             *)
(***************************************************************************)
EXTENDS FileWindow
CONSTANTS Positions, \* the positions callers seek
          Requests,  \* the numbers of bytes callers read
          Fragments, \* the sizes of the fragments callers point to
          Furthest   \* bound on the position: reads beyond the end move it on
VARIABLES file, answer

vars == <<file, answer>>

ASSUME CallsAssumption ==
    /\ Positions \subseteq Nat /\ Requests \subseteq Nat /\ Furthest \in Nat
    /\ Fragments \subseteq 0 .. BufSize

Nothing == [got |-> 0, bytes |-> [i \in {} |-> 0]]
Pointed(f, n) == [got |-> n, bytes |-> [i \in 0 .. n - 1 |-> f.cells[f.off + i]]]

Init == file = Opened /\ answer = Nothing

Seek(p) ==
    /\ file' = SeekTo(file, p)
    /\ answer' = Nothing

SeekSafe(p) == Seek(Least(p, Length))

GetPtr(n) ==
    /\ file' = PointTo(file, n)
    /\ answer' = Pointed(file', n)

GetPtr2(n) ==
    /\ file' = Skipped(PointTo(file, n), n)
    /\ answer' = Pointed(PointTo(file, n), n)

GetPtrAt(p, n) ==
    /\ file' = Skipped(FragmentAt(file, p, n), n)
    /\ answer' = Pointed(FragmentAt(file, p, n), n)

GetFragment(p, n) ==
    /\ file' = FragmentAt(file, p, n)
    /\ answer' = Pointed(file', n)

Read(n) ==
    LET r == ReadBuffer(file, n)
    IN  /\ file' = r.file
        /\ answer' = [got |-> r.got, bytes |-> r.bytes]

Next ==
    /\ Position(file) <= Furthest
    /\ \/ \E p \in Positions : Seek(p) \/ SeekSafe(p)
       \/ \E n \in Fragments : GetPtr(n) \/ GetPtr2(n)
       \/ \E p \in Positions, n \in Fragments : GetPtrAt(p, n) \/ GetFragment(p, n)
       \/ \E n \in Requests : Read(n)

Spec == Init /\ [][Next]_vars

-----------------------------------------------------------------------------

\* The window has the type its C++ members give it, and its offset is in the buffer.
TypeOK == file \in Window /\ answer.got \in Nat

\* The buffer is a view of the file: a cell whose place is in the file holds that byte,
\* never one that an earlier window left there.
WindowIsFile ==
    \A i \in Cells : file.begin + i < Length => file.cells[i] = file.begin + i

\* The FILE stands where the window ends, unless both are at the file's end: what
\* fillBuffer reads behind the bytes it keeps continues them.
FileFollowsWindow ==
    \/ file.at = file.begin + BufSize
    \/ file.at >= Length /\ file.begin + BufSize >= Length

\* FileRead is a random-access file: whatever was called before, a fragment or a read
\* gives the file's bytes at the position asked for.
Access == INSTANCE RandomAccess WITH
              pos <- Position(file),
              Positions <- Positions \cup {Least(p, Length) : p \in Positions},
              Requests <- Requests \cup Fragments
IsRandomAccess == Access!Spec
=============================================================================
