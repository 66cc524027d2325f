-------------------------- MODULE FileBufferProofs --------------------------
(***************************************************************************)
(* FileRead implements a random-access file, for every file length, buffer *)
(* size and sequence of calls.                                             *)
(***************************************************************************)
EXTENDS FileBuffer, FileWindowProofs

Inv == Good(file) /\ answer.got \in Nat

\* The n bytes that the pointer into the window g points to are the file's from p on.
LEMMA PointedExact ==
    ASSUME NEW g, Good(g), NEW n \in Nat, g.off + n <= BufSize
    PROVE  /\ Pointed(g, n).got = n
           /\ \A i \in 0 .. n - 1 : Position(g) + i < Length =>
                Pointed(g, n).bytes[i] = Position(g) + i
<1>1. g.off \in 0 .. BufSize /\ BufSize \in Nat
  BY WindowAssumption DEF Good, Window
<1>2. ASSUME NEW i \in 0 .. n - 1, Position(g) + i < Length
      PROVE  g.cells[g.off + i] = Position(g) + i
  <2>1. i \in Nat /\ g.off + i < BufSize
    BY <1>1
  <2>2. QED
    BY <1>2, <2>1, ShownByte
<1>3. QED
  BY <1>2 DEF Pointed

LEMMA Initially == Init => Inv /\ Access!Init
<1> SUFFICES ASSUME Init PROVE Inv /\ Access!Init
  OBVIOUS
<1>1. file = Opened /\ answer = Nothing
  BY DEF Init
<1>2. QED
  BY <1>1, OpenedGood DEF Inv, Nothing, Access!Init, Access!Nothing, Good, Shows, Follows, Position

\* What a pointer into a good window g at p gives, and where the position ends.
LEMMA FragmentStep ==
    ASSUME NEW g, Good(g), NEW p \in Nat, Position(g) = p,
           NEW n \in 0 .. BufSize, g.off + n <= BufSize,
           file' = g \/ file' = Skipped(g, n), answer' = Pointed(g, n)
    PROVE  Inv' /\ Access!Fragment(p, n)
<1>1. n \in Nat
  BY WindowAssumption
<1>2. /\ answer'.got = n
      /\ \A i \in 0 .. n - 1 : p + i < Length => answer'.bytes[i] = p + i
  BY <1>1, PointedExact
<1>3. Good(file') /\ Position(file') \in {p, p + n}
  BY <1>1, SkippedGood
<1>4. QED
  BY <1>1, <1>2, <1>3 DEF Inv, Good, Shows, Follows, Access!Fragment, Access!Exact, Position

AllPositions == Positions \cup {Least(p, Length) : p \in Positions}

LEMMA SeekStep ==
    ASSUME Inv, NEW p \in AllPositions, Seek(p)
    PROVE  Inv' /\ Access!Next
<1>1. p \in Nat
  BY CallsAssumption, WindowAssumption DEF AllPositions, Least
<1>2. Good(file') /\ Position(file') = p
  BY <1>1, SeekGood DEF Inv, Seek
<1>3. answer' = Nothing
  BY DEF Seek
<1>4. Access!Seek(p)
  BY <1>2, <1>3 DEF Access!Seek, Access!Nothing, Nothing, Position
<1>5. Inv'
  BY <1>2, <1>3 DEF Inv, Nothing, Good, Shows, Follows
<1>6. QED
  BY <1>4, <1>5 DEF Access!Next, AllPositions

LEMMA GetStep ==
    ASSUME Inv, NEW n \in Fragments, GetPtr(n) \/ GetPtr2(n)
    PROVE  Inv' /\ Access!Next
<1>1. n \in 0 .. BufSize
  BY CallsAssumption
<1> DEFINE g == PointTo(file, n)
<1>2. Good(g) /\ Position(g) = Position(file) /\ g.off + n <= BufSize
  BY <1>1, PointGood DEF Inv
<1>3. (file' = g \/ file' = Skipped(g, n)) /\ answer' = Pointed(g, n)
  BY DEF GetPtr, GetPtr2
<1>4. Position(file) \in Nat
  BY PositionType DEF Inv
<1> HIDE DEF g
<1>5. Inv' /\ Access!Fragment(Position(file), n)
  BY <1>1, <1>2, <1>3, <1>4, FragmentStep
<1>6. QED
  BY <1>5 DEF Access!Next

LEMMA GetAtStep ==
    ASSUME Inv, NEW p \in Positions, NEW n \in Fragments, GetPtrAt(p, n) \/ GetFragment(p, n)
    PROVE  Inv' /\ Access!Next
<1>1. n \in 0 .. BufSize /\ p \in Nat
  BY CallsAssumption
<1> DEFINE g == FragmentAt(file, p, n)
<1>2. Good(g) /\ Position(g) = p /\ g.off + n <= BufSize
  BY <1>1, FragmentGood DEF Inv
<1>3. (file' = g \/ file' = Skipped(g, n)) /\ answer' = Pointed(g, n)
  BY DEF GetPtrAt, GetFragment
<1> HIDE DEF g
<1>4. Inv' /\ Access!Fragment(p, n)
  BY <1>1, <1>2, <1>3, FragmentStep
<1>5. QED
  BY <1>4 DEF Access!Next

LEMMA ReadStep ==
    ASSUME Inv, NEW n \in Requests, Read(n)
    PROVE  Inv' /\ Access!Next
<1>1. n \in Nat
  BY CallsAssumption
<1> DEFINE r == ReadBuffer(file, n)
<1>2. ReadRight(file, n, r)
  BY <1>1, ReadBufferRight DEF Inv
<1>3. file' = r.file /\ answer' = [got |-> r.got, bytes |-> r.bytes]
  BY DEF Read
<1> HIDE DEF r
<1>4. Good(file') /\ answer'.got = r.got /\ answer'.bytes = r.bytes /\ r.got \in Nat
  BY <1>2, <1>3 DEF ReadRight
<1>5. Inv'
  BY <1>4 DEF Inv, Good, Shows, Follows
<1>6. Position(file) \in Nat /\ Length \in Nat
  BY PositionType, WindowAssumption DEF Inv
<1>7. CASE Position(file) + n <= Length
  <2>1. Access!Read(n)
    BY <1>2, <1>3, <1>4, <1>7 DEF ReadRight, Access!Read, Access!Exact, Position
  <2>2. QED
    BY <1>5, <2>1 DEF Access!Next
<1>8. CASE Position(file) + n > Length
  <2>1. Access!ReadBeyond(n)
    BY <1>2, <1>3, <1>4, <1>8 DEF ReadRight, Access!ReadBeyond, Access!Exact, Position
  <2>2. QED
    BY <1>5, <2>1 DEF Access!Next
<1>9. QED
  BY <1>1, <1>6, <1>7, <1>8

LEMMA EveryStep == Inv /\ [Next]_vars => Inv' /\ [Access!Next]_(Access!vars)
<1> SUFFICES ASSUME Inv, [Next]_vars
             PROVE  Inv' /\ [Access!Next]_(Access!vars)
  OBVIOUS
<1>1. ASSUME NEW p \in Positions, Seek(p) \/ SeekSafe(p)
      PROVE  Inv' /\ Access!Next
  <2>1. p \in AllPositions /\ Least(p, Length) \in AllPositions
    BY DEF AllPositions
  <2>2. QED
    BY <1>1, <2>1, SeekStep DEF SeekSafe
<1>2. ASSUME Next PROVE Inv' /\ Access!Next
  BY <1>1, <1>2, GetStep, GetAtStep, ReadStep DEF Next
<1>3. ASSUME UNCHANGED vars PROVE Inv' /\ UNCHANGED Access!vars
  BY <1>3 DEF vars, Inv, Access!vars, Good, Shows, Follows, Position
<1>4. QED
  BY <1>2, <1>3

-----------------------------------------------------------------------------

\* FileRead is a random-access file: every sequence of calls, for every file length
\* and buffer size, gives the file's bytes.
THEOREM Implements == Spec => IsRandomAccess
<1>1. Init => Inv /\ Access!Init
  BY Initially
<1>2. Inv /\ [Next]_vars => Inv' /\ [Access!Next]_(Access!vars)
  BY EveryStep
<1>3. QED
  BY <1>1, <1>2, PTL DEF Spec, IsRandomAccess, Access!Spec

THEOREM Invariance == Spec => []Inv
<1>1. Init => Inv
  BY Initially
<1>2. Inv /\ [Next]_vars => Inv'
  BY EveryStep
<1>3. QED
  BY <1>1, <1>2, PTL DEF Spec

\* The buffer never shows a byte of an earlier window in the place of the file's.
THEOREM ShowsTheFile == Spec => []WindowIsFile
<1>1. Inv => WindowIsFile
  BY DEF Inv, Good, Shows, WindowIsFile
<1>2. QED
  BY <1>1, Invariance, PTL

\* The FILE stands where the window ends, or both are at the file's end.
THEOREM FileFollows == Spec => []FileFollowsWindow
<1>1. Inv => FileFollowsWindow
  BY DEF Inv, Good, Follows, FileFollowsWindow
<1>2. QED
  BY <1>1, Invariance, PTL

\* The window keeps the type of its C++ members: no call moves the offset out of the
\* buffer or the window before the file.
THEOREM TypeCorrect == Spec => []TypeOK
<1>1. Inv => TypeOK
  BY DEF Inv, Good, TypeOK
<1>2. QED
  BY <1>1, Invariance, PTL

=============================================================================
