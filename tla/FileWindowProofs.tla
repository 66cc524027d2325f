-------------------------- MODULE FileWindowProofs --------------------------
(***************************************************************************)
(* What the operators on FileRead's window do, for every file length and   *)
(* buffer size: whatever moves a right window leaves a right one.          *)
(***************************************************************************)
EXTENDS FileWindow, TLAPS

\* The two facts that make a window right: what it shows, and where the FILE stands.
Shows(f) == \A i \in Cells : f.begin + i < Length => f.cells[i] = f.begin + i
Follows(f) == f.at = f.begin + BufSize \/ (f.at >= Length /\ f.begin + BufSize >= Length)
Good(f) == f \in Window /\ Shows(f) /\ Follows(f)

-----------------------------------------------------------------------------
(* fread and fillBuffer                                                    *)

Bytes == Nat \cup {Blank}

LEMMA WindowFields ==
    ASSUME NEW f \in Window
    PROVE  /\ f.at \in Nat /\ f.begin \in Nat /\ f.off \in 0 .. BufSize
           /\ f.cells \in [Cells -> Bytes]
           /\ f = [at |-> f.at, begin |-> f.begin, off |-> f.off, cells |-> f.cells]
BY DEF Window, Bytes

LEMMA WindowRecord ==
    ASSUME NEW a \in Nat, NEW b \in Nat, NEW o \in 0 .. BufSize, NEW c \in [Cells -> Bytes]
    PROVE  [at |-> a, begin |-> b, off |-> o, cells |-> c] \in Window
BY DEF Window, Bytes

LEMMA LeftType ==
    ASSUME NEW f \in Window, NEW n \in Nat
    PROVE  /\ Left(f, n) \in Nat /\ Left(f, n) <= n
           /\ f.at >= Length => Left(f, n) = 0
           /\ f.at < Length => Left(f, n) = n \/ f.at + Left(f, n) = Length
           /\ f.at < Length => f.at + Left(f, n) <= Length
BY WindowAssumption DEF Window, Left, Least

LEMMA FreadFields ==
    ASSUME NEW f \in Window, NEW dst \in Nat, NEW n \in Nat, dst + n <= BufSize
    PROVE  LET g == Fread(f, dst, n) IN
           /\ g \in Window
           /\ g.at = f.at + Left(f, n) /\ g.begin = f.begin /\ g.off = f.off
           /\ \A i \in Cells : g.cells[i] = IF dst <= i /\ i < dst + Left(f, n)
                                            THEN f.at + i - dst ELSE f.cells[i]
<1> DEFINE k == Left(f, n)
<1>1. k \in Nat /\ k <= n
  BY LeftType
<1>2. Fread(f, dst, n) =
        [f EXCEPT !.at = @ + k,
                  !.cells = [i \in Cells |-> IF dst <= i /\ i < dst + k THEN f.at + i - dst ELSE @[i]]]
  BY DEF Fread
<1> HIDE DEF k
<1> DEFINE c == [i \in Cells |-> IF dst <= i /\ i < dst + k THEN f.at + i - dst ELSE f.cells[i]]
<1>3. f.at \in Nat /\ f.begin \in Nat /\ f.off \in 0 .. BufSize /\ f.cells \in [Cells -> Bytes]
  BY WindowFields
<1>4. c \in [Cells -> Bytes]
  <2> SUFFICES ASSUME NEW i \in Cells
               PROVE  (IF dst <= i /\ i < dst + k THEN f.at + i - dst ELSE f.cells[i]) \in Bytes
    OBVIOUS
  <2>1. CASE dst <= i /\ i < dst + k
    <3>1. i \in Int /\ dst <= i
      BY <2>1 DEF Cells
    <3>2. f.at + i - dst \in Nat
      BY <1>3, <3>1
    <3>3. QED
      BY <2>1, <3>2 DEF Bytes
  <2>2. CASE ~(dst <= i /\ i < dst + k)
    <3>1. f.cells[i] \in Bytes
      BY <1>3
    <3>2. QED
      BY <2>2, <3>1
  <2>3. QED
    BY <2>1, <2>2
<1>5. Fread(f, dst, n) = [at |-> f.at + k, begin |-> f.begin, off |-> f.off, cells |-> c]
  BY <1>2 DEF Window
<1> HIDE DEF c
<1>6. f.at + k \in Nat
  BY <1>1, <1>3
<1>7. Fread(f, dst, n) \in Window
  BY <1>3, <1>4, <1>5, <1>6, WindowRecord
<1>8. QED
  BY <1>5, <1>7 DEF c, k

\* A window begun elsewhere is right whatever the one before was.
LEMMA RefillGood ==
    ASSUME NEW f \in Window, NEW location \in Nat,
           Kept(f, location) < 0 \/ Kept(f, location) >= BufSize
    PROVE  /\ Good(FillBuffer(f, location))
           /\ FillBuffer(f, location).begin = location /\ FillBuffer(f, location).off = 0
<1> DEFINE h == [f EXCEPT !.begin = location, !.off = 0, !.at = location]
           g == Fread(h, 0, BufSize)
           k == Left(h, BufSize)
<1>1. h \in Window /\ h.at = location /\ h.begin = location /\ h.off = 0
  <2>1. 0 \in 0 .. BufSize
    BY WindowAssumption
  <2>2. h \in Window
    BY <2>1 DEF Window
  <2>3. QED
    BY <2>2 DEF Window
<1>2. FillBuffer(f, location) = g
  <2>1. [[f EXCEPT !.begin = location, !.off = 0] EXCEPT !.at = location] = h
    BY DEF Window
  <2>2. QED
    BY <2>1 DEF FillBuffer
<1> HIDE DEF h
<1>3. BufSize \in Nat /\ 0 + BufSize <= BufSize
  BY WindowAssumption
<1>4. /\ g \in Window
      /\ g.at = location + k /\ g.begin = location /\ g.off = 0
      /\ \A i \in Cells : g.cells[i] = IF 0 <= i /\ i < 0 + k THEN location + i - 0 ELSE h.cells[i]
  BY <1>1, <1>3, FreadFields
<1>5. /\ k \in Nat /\ k <= BufSize
      /\ location >= Length => k = 0
      /\ location < Length => k = BufSize \/ location + k = Length
  BY <1>1, <1>3, LeftType
<1> HIDE DEF g, k
<1>6. Shows(g)
  BY <1>4, <1>5, WindowAssumption DEF Shows, Cells
<1>7. Follows(g)
  BY <1>4, <1>5, WindowAssumption DEF Follows
<1>8. QED
  BY <1>2, <1>4, <1>6, <1>7 DEF Good

\* What is read behind the bytes kept continues them.
LEMMA KeepGood ==
    ASSUME NEW f, Good(f), NEW location \in Nat,
           Kept(f, location) >= 0, Kept(f, location) < BufSize
    PROVE  LET g == FillBuffer(f, location) IN
           /\ Good(g) /\ g.begin = location /\ g.off = 0
           /\ g.at = f.at + Left(f, BufSize - Kept(f, location))
<1> DEFINE keep == Kept(f, location)
           h == [f EXCEPT !.begin = location, !.off = 0,
                          !.cells = [i \in Cells |-> IF i < keep THEN @[i + BufSize - keep] ELSE @[i]]]
           n == BufSize - keep
           g == Fread(h, keep, n)
           k == Left(h, n)
<1>0. f \in Window /\ Shows(f) /\ Follows(f) /\ BufSize \in Nat \ {0} /\ Length \in Nat
  BY WindowAssumption DEF Good
<1>1. keep \in Nat /\ keep < BufSize /\ keep = f.begin + BufSize - location
  BY <1>0 DEF Kept, Window
<1>2. FillBuffer(f, location) = g
  <2>1. [[f EXCEPT !.begin = location, !.off = 0] EXCEPT
            !.cells = [i \in Cells |-> IF i < keep THEN @[i + BufSize - keep] ELSE @[i]]] = h
    BY <1>0 DEF Window
  <2>2. ~(keep < 0 \/ keep >= BufSize)
    BY <1>0, <1>1
  <2>3. QED
    BY <2>1, <2>2 DEF FillBuffer
<1> HIDE DEF keep
<1>3. /\ h \in Window /\ h.at = f.at /\ h.begin = location /\ h.off = 0
      /\ \A i \in Cells : h.cells[i] = IF i < keep THEN f.cells[i + BufSize - keep] ELSE f.cells[i]
  <2> DEFINE c == [i \in Cells |-> IF i < keep THEN f.cells[i + BufSize - keep] ELSE f.cells[i]]
  <2>1. f.at \in Nat /\ f.cells \in [Cells -> Bytes]
    BY <1>0, WindowFields
  <2>2. c \in [Cells -> Bytes]
    <3> SUFFICES ASSUME NEW i \in Cells
                 PROVE  (IF i < keep THEN f.cells[i + BufSize - keep] ELSE f.cells[i]) \in Bytes
      OBVIOUS
    <3>1. i < keep => i + BufSize - keep \in Cells
      BY <1>0, <1>1 DEF Cells
    <3>2. QED
      BY <2>1, <3>1
  <2>3. h = [f EXCEPT !.begin = location, !.off = 0, !.cells = c]
    OBVIOUS
  <2>4. 0 \in 0 .. BufSize
    BY <1>0
  <2> HIDE DEF h, c
  <2>5. h \in Window
    BY <1>0, <2>2, <2>3, <2>4 DEF Window, Bytes
  <2>6. h.at = f.at /\ h.begin = location /\ h.off = 0 /\ h.cells = c
    BY <1>0, <2>3 DEF Window
  <2>7. QED
    BY <2>5, <2>6 DEF c
<1> HIDE DEF h
<1>4. n \in Nat /\ keep + n <= BufSize /\ keep + n = BufSize
  BY <1>0, <1>1
<1> HIDE DEF n
<1>5. /\ g \in Window
      /\ g.at = f.at + k /\ g.begin = location /\ g.off = 0
      /\ \A i \in Cells : g.cells[i] = IF keep <= i /\ i < keep + k THEN f.at + i - keep ELSE h.cells[i]
  BY <1>1, <1>3, <1>4, FreadFields
<1>6. /\ k \in Nat /\ k <= n
      /\ f.at >= Length => k = 0
      /\ f.at < Length => k = n \/ f.at + k = Length
  BY <1>3, <1>4, LeftType
<1>7. k = Left(f, n)
  BY <1>3 DEF k, Left
<1> HIDE DEF g, k
<1>8. f.begin \in Nat /\ f.at \in Nat
  BY <1>0 DEF Window
<1>9. Shows(g)
  <2> SUFFICES ASSUME NEW i \in Cells, location + i < Length
               PROVE  g.cells[i] = location + i
    BY <1>5 DEF Shows
  <2>1. i \in Nat /\ i < BufSize
    BY <1>0 DEF Cells
  <2>2. CASE i < keep
    <3>1. i + BufSize - keep \in Cells
      BY <1>0, <1>1, <2>1, <2>2 DEF Cells
    <3>2. f.begin + (i + BufSize - keep) = location + i
      BY <1>0, <1>1, <1>8, <2>1
    <3>3. f.cells[i + BufSize - keep] = location + i
      BY <1>0, <3>1, <3>2 DEF Shows
    <3>4. QED
      BY <1>1, <1>3, <1>5, <2>1, <2>2, <3>3
  <2>3. CASE i >= keep
    <3>1. f.at = f.begin + BufSize
      BY <1>0, <1>1, <1>8, <2>1, <2>3 DEF Follows
    <3>2. i < keep + k
      BY <1>0, <1>1, <1>4, <1>6, <1>8, <2>1, <2>3, <3>1
    <3>3. QED
      BY <1>0, <1>1, <1>5, <1>8, <2>1, <2>3, <3>1, <3>2
  <2>4. QED
    BY <1>1, <2>1, <2>2, <2>3
<1>10. Follows(g)
  BY <1>0, <1>1, <1>4, <1>5, <1>6, <1>8 DEF Follows
<1>11. QED
  BY <1>2, <1>5, <1>7, <1>9, <1>10 DEF Good, n, keep

-----------------------------------------------------------------------------
(* The calls                                                               *)

LEMMA FillGood ==
    ASSUME NEW f, Good(f), NEW location \in Nat
    PROVE  LET g == FillBuffer(f, location) IN
           Good(g) /\ g.begin = location /\ g.off = 0
<1>1. f \in Window /\ f.begin \in Nat /\ BufSize \in Nat
  BY WindowAssumption DEF Good, Window
<1>2. Kept(f, location) \in Int
  BY <1>1 DEF Kept
<1>3. CASE Kept(f, location) < 0 \/ Kept(f, location) >= BufSize
  BY <1>1, <1>3, RefillGood
<1>4. CASE Kept(f, location) >= 0 /\ Kept(f, location) < BufSize
  BY <1>4, KeepGood
<1>5. QED
  BY <1>1, <1>2, <1>3, <1>4

LEMMA MovedGood ==
    ASSUME NEW f, Good(f), NEW o \in 0 .. BufSize
    PROVE  LET g == [f EXCEPT !.off = o] IN
           /\ Good(g) /\ g.off = o
           /\ g.at = f.at /\ g.begin = f.begin /\ g.cells = f.cells
<1> DEFINE g == [f EXCEPT !.off = o]
<1>1. /\ g \in Window /\ g.off = o
      /\ g.at = f.at /\ g.begin = f.begin /\ g.cells = f.cells
  BY DEF Good, Window
<1> HIDE DEF g
<1>2. Shows(g) /\ Follows(g)
  BY <1>1 DEF Good, Shows, Follows
<1>3. QED
  BY <1>1, <1>2 DEF Good, g

LEMMA SeekGood ==
    ASSUME NEW f, Good(f), NEW p \in Nat
    PROVE  LET g == SeekTo(f, p) IN
           Good(g) /\ Position(g) = p /\ g.off < BufSize
<1>1. f \in Window /\ f.begin \in Nat /\ BufSize \in Nat \ {0}
  BY WindowAssumption DEF Good, Window
<1>2. CASE p < f.begin \/ p >= f.begin + BufSize
  <2>1. SeekTo(f, p) = FillBuffer(f, p)
    BY <1>2 DEF SeekTo
  <2>2. Good(FillBuffer(f, p)) /\ FillBuffer(f, p).begin = p /\ FillBuffer(f, p).off = 0
    <3>1. CASE p < f.begin
      <4>1. Kept(f, p) >= BufSize
        BY <1>1, <3>1 DEF Kept
      <4>2. QED
        BY <1>1, <4>1, RefillGood
    <3>2. CASE p >= f.begin
      BY <3>2, FillGood
    <3>3. QED
      BY <1>1, <3>1, <3>2
  <2>3. QED
    BY <1>1, <2>1, <2>2 DEF Position
<1>3. CASE ~(p < f.begin \/ p >= f.begin + BufSize)
  <2>1. SeekTo(f, p) = [f EXCEPT !.off = p - f.begin]
    BY <1>3 DEF SeekTo
  <2>2. p - f.begin \in 0 .. BufSize /\ p - f.begin < BufSize /\ f.begin + (p - f.begin) = p
    BY <1>1, <1>3
  <2> DEFINE g == [f EXCEPT !.off = p - f.begin]
  <2>3. Good(g) /\ g.off = p - f.begin /\ g.begin = f.begin
    BY <2>2, MovedGood
  <2> HIDE DEF g
  <2>4. Position(g) = p /\ g.off < BufSize
    BY <2>2, <2>3 DEF Position
  <2>5. QED
    BY <2>1, <2>3, <2>4 DEF g
<1>4. QED
  BY <1>2, <1>3

LEMMA PositionType ==
    ASSUME NEW f, Good(f)
    PROVE  Position(f) \in Nat /\ Position(f) >= f.begin /\ Position(f) = f.begin + f.off
<1>1. f.begin \in Nat /\ f.off \in 0 .. BufSize /\ BufSize \in Nat
  BY WindowAssumption DEF Good, Window
<1>2. QED
  BY <1>1 DEF Position

LEMMA PointGood ==
    ASSUME NEW f, Good(f), NEW n \in 0 .. BufSize
    PROVE  LET g == PointTo(f, n) IN
           Good(g) /\ Position(g) = Position(f) /\ g.off + n <= BufSize
<1>1. f.begin \in Nat /\ f.off \in 0 .. BufSize /\ BufSize \in Nat
  BY WindowAssumption DEF Good, Window
<1>2. CASE f.off + n > BufSize
  <2>1. PointTo(f, n) = FillBuffer(f, Position(f))
    BY <1>2 DEF PointTo
  <2>2. Position(f) \in Nat /\ Position(f) >= f.begin
    BY PositionType
  <2>3. Good(PointTo(f, n)) /\ PointTo(f, n).begin = Position(f) /\ PointTo(f, n).off = 0
    BY <2>1, <2>2, FillGood
  <2>4. QED
    BY <1>1, <2>2, <2>3 DEF Position
<1>3. CASE ~(f.off + n > BufSize)
  BY <1>1, <1>3 DEF PointTo
<1>4. QED
  BY <1>2, <1>3

LEMMA SkippedGood ==
    ASSUME NEW f, Good(f), NEW n \in Nat, f.off + n <= BufSize
    PROVE  Good(Skipped(f, n)) /\ Position(Skipped(f, n)) = Position(f) + n
<1>1. f \in Window /\ f.begin \in Nat /\ f.off \in 0 .. BufSize /\ BufSize \in Nat
  BY WindowAssumption DEF Good, Window
<1>2. f.off + n \in 0 .. BufSize
  BY <1>1
<1>3. Skipped(f, n) = [f EXCEPT !.off = f.off + n]
  BY <1>1 DEF Skipped, Window
<1> DEFINE g == [f EXCEPT !.off = f.off + n]
<1>4. Good(g) /\ g.off = f.off + n /\ g.begin = f.begin
  BY <1>2, MovedGood
<1> HIDE DEF g
<1>5. Position(g) = Position(f) + n
  BY <1>1, <1>4 DEF Position
<1>6. QED
  BY <1>3, <1>4, <1>5 DEF g

\* A byte that a good window shows is the file's.
LEMMA ShownByte ==
    ASSUME NEW f, Good(f), NEW i \in Nat, f.off + i < BufSize, Position(f) + i < Length
    PROVE  f.cells[f.off + i] = Position(f) + i
<1>1. f.begin \in Nat /\ f.off \in 0 .. BufSize /\ BufSize \in Nat
  BY WindowAssumption DEF Good, Window
<1>2. f.off + i \in Cells
  BY <1>1 DEF Cells
<1>3. f.begin + (f.off + i) < Length /\ Position(f) + i = f.begin + (f.off + i)
  BY <1>1, WindowAssumption DEF Position
<1>4. QED
  BY <1>2, <1>3 DEF Good, Shows

\* The first window, read by the constructor, is right.
LEMMA OpenedGood ==
    Good(Opened) /\ Position(Opened) = 0
<1> DEFINE h == [at |-> 0, begin |-> 0, off |-> 0, cells |-> [i \in Cells |-> Blank]]
           k == Left(h, BufSize)
<1>1. BufSize \in Nat \ {0} /\ Length \in Nat
  BY WindowAssumption
<1>2. h \in Window
  BY <1>1 DEF Window
<1>3. h.at = 0 /\ h.begin = 0 /\ h.off = 0
  OBVIOUS
<1>4. Opened = Fread(h, 0, BufSize)
  BY DEF Opened
<1> HIDE DEF h
<1>5. /\ Opened \in Window
      /\ Opened.at = 0 + k /\ Opened.begin = 0 /\ Opened.off = 0
      /\ \A i \in Cells : Opened.cells[i] = IF 0 <= i /\ i < 0 + k THEN 0 + i - 0 ELSE h.cells[i]
  BY <1>1, <1>2, <1>3, <1>4, FreadFields
<1>6. /\ k \in Nat /\ k <= BufSize
      /\ 0 >= Length => k = 0
      /\ 0 < Length => k = BufSize \/ 0 + k = Length
  BY <1>1, <1>2, <1>3, LeftType
<1> HIDE DEF k
<1>7. Shows(Opened)
  BY <1>1, <1>5, <1>6 DEF Shows, Cells
<1>8. Follows(Opened)
  BY <1>1, <1>5, <1>6 DEF Follows
<1>9. Position(Opened) = 0
  BY <1>5 DEF Position
<1>10. QED
  BY <1>5, <1>7, <1>8, <1>9 DEF Good

\* A fragment of at most a buffer is in the window that getFragment leaves.
LEMMA FragmentGood ==
    ASSUME NEW f, Good(f), NEW p \in Nat, NEW n \in 0 .. BufSize
    PROVE  LET g == FragmentAt(f, p, n) IN
           Good(g) /\ Position(g) = p /\ g.off + n <= BufSize
<1>1. Good(SeekTo(f, p)) /\ Position(SeekTo(f, p)) = p
  BY SeekGood
<1>2. QED
  BY <1>1, PointGood DEF FragmentAt

-----------------------------------------------------------------------------
(* readBuffer                                                              *)

\* r is a right answer to a request for n bytes at f's position.
ReadRight(f, n, r) ==
    /\ Good(r.file) /\ r.got \in Nat /\ r.got <= n
    /\ \A i \in 0 .. r.got - 1 : Position(f) + i < Length => r.bytes[i] = Position(f) + i
    /\ Position(f) + n <= Length => r.got = n /\ Position(r.file) = Position(f) + n
    /\ Position(f) + n > Length => r.got >= Length - Position(f) /\ Position(r.file) >= Length

LEMMA CopiedRight ==
    ASSUME NEW f, Good(f), NEW n \in Nat, BufSize - f.off >= n
    PROVE  ReadRight(f, n, Copied(f, n))
<1> DEFINE r == Copied(f, n)
<1>1. f.off \in 0 .. BufSize /\ BufSize \in Nat /\ Length \in Nat /\ Position(f) \in Nat
  BY PositionType, WindowAssumption DEF Good, Window
<1>2. r.file = Skipped(f, n) /\ r.got = n /\ r.bytes = [i \in 0 .. n - 1 |-> f.cells[f.off + i]]
  BY DEF Copied
<1>3. f.off + n <= BufSize
  BY <1>1
<1>4. Good(r.file) /\ Position(r.file) = Position(f) + n
  BY <1>2, <1>3, SkippedGood
<1>5. ASSUME NEW i \in 0 .. n - 1, Position(f) + i < Length
      PROVE  r.bytes[i] = Position(f) + i
  <2>1. i \in Nat /\ f.off + i < BufSize
    BY <1>1, <1>3
  <2>2. f.cells[f.off + i] = Position(f) + i
    BY <1>5, <2>1, ShownByte
  <2>3. QED
    BY <1>2, <2>2
<1> HIDE DEF r
<1>6. \A i \in 0 .. r.got - 1 : Position(f) + i < Length => r.bytes[i] = Position(f) + i
  BY <1>2, <1>5
<1>7. /\ r.got \in Nat /\ r.got <= n
      /\ Position(f) + n <= Length => r.got = n /\ Position(r.file) = Position(f) + n
      /\ Position(f) + n > Length => r.got >= Length - Position(f) /\ Position(r.file) >= Length
  BY <1>1, <1>2, <1>4
<1>8. QED
  BY <1>4, <1>6, <1>7 DEF ReadRight, r

LEMMA CopiedAcrossRight ==
    ASSUME NEW f, Good(f), NEW n \in Nat, BufSize - f.off < n, n - (BufSize - f.off) < BufSize
    PROVE  ReadRight(f, n, CopiedAcross(f, n))
<1> DEFINE rest == BufSize - f.off
           end == f.begin + BufSize
           h == [f EXCEPT !.off = BufSize]
           g == FillBuffer(h, end)
           k == Left(h, BufSize)
           x == Least(g.at - f.at, n - rest)
           r == CopiedAcross(f, n)
<1>1. /\ f.off \in 0 .. BufSize /\ BufSize \in Nat \ {0} /\ Length \in Nat
      /\ f.at \in Nat /\ f.begin \in Nat
  BY WindowAssumption DEF Good, Window
<1>2. rest \in Nat /\ end \in Nat /\ Position(f) \in Nat /\ Position(f) + rest = end
  BY <1>1, PositionType
<1>3. r.file = Skipped(g, x) /\ r.got = rest + x
  BY DEF CopiedAcross
<1>4. r.bytes = [i \in 0 .. rest + x - 1 |-> IF i < rest THEN f.cells[f.off + i] ELSE g.cells[i - rest]]
  BY DEF CopiedAcross
<1> HIDE DEF r
<1>5. Good(h) /\ h.at = f.at /\ h.begin = f.begin
  <2>1. BufSize \in 0 .. BufSize
    BY <1>1
  <2>2. QED
    BY <2>1, MovedGood
<1> HIDE DEF h
<1>6. Kept(h, end) = 0
  BY <1>1, <1>5 DEF Kept
<1>7. Good(g) /\ g.begin = end /\ g.off = 0 /\ g.at = f.at + k
  <2>1. Kept(h, end) >= 0 /\ Kept(h, end) < BufSize /\ BufSize - Kept(h, end) = BufSize
    BY <1>1, <1>6
  <2>2. Good(g) /\ g.begin = end /\ g.off = 0 /\ g.at = h.at + Left(h, BufSize - Kept(h, end))
    BY <1>2, <1>5, <2>1, KeepGood
  <2>3. QED
    BY <1>5, <2>1, <2>2
<1> HIDE DEF g
<1>8. /\ k \in Nat /\ k <= BufSize
      /\ f.at >= Length => k = 0
      /\ f.at < Length => k = BufSize \/ f.at + k = Length
      /\ f.at < Length => f.at + k <= Length
  <2>1. h \in Window /\ BufSize \in Nat
    BY <1>1, <1>5 DEF Good
  <2>2. QED
    BY <1>5, <2>1, LeftType
<1> HIDE DEF k
<1>9. x \in Nat /\ x <= k /\ x <= n - rest /\ (x = k \/ x = n - rest)
  BY <1>1, <1>2, <1>7, <1>8 DEF Least
<1> HIDE DEF x
<1>10. f.at = end \/ (f.at >= Length /\ end >= Length)
  BY DEF Good, Follows
<1>11. Good(r.file) /\ Position(r.file) = end + x
  <2>1. g.off + x <= BufSize
    BY <1>1, <1>7, <1>8, <1>9
  <2>2. Position(g) = end
    BY <1>2, <1>7 DEF Position
  <2>3. QED
    BY <1>3, <1>7, <1>9, <2>1, <2>2, SkippedGood
<1>12. ASSUME NEW i \in 0 .. rest + x - 1, Position(f) + i < Length
       PROVE  r.bytes[i] = Position(f) + i
  <2>0. i \in Nat
    BY <1>1
  <2>1. CASE i < rest
    <3>1. f.off + i < BufSize
      BY <1>1, <2>0, <2>1
    <3>2. f.cells[f.off + i] = Position(f) + i
      BY <1>12, <2>0, <3>1, ShownByte
    <3>3. QED
      BY <1>4, <2>1, <3>2
  <2>2. CASE ~(i < rest)
    <3>1. i - rest \in Nat /\ i - rest < BufSize /\ end + (i - rest) = Position(f) + i
      BY <1>1, <1>2, <1>8, <1>9, <2>0, <2>2
    <3>2. Position(g) = end
      BY <1>2, <1>7 DEF Position
    <3>3. g.off + (i - rest) = i - rest /\ Position(g) + (i - rest) < Length
      BY <1>2, <1>7, <1>12, <3>1, <3>2
    <3>4. g.cells[i - rest] = end + (i - rest)
      BY <1>7, <3>1, <3>2, <3>3, ShownByte
    <3>5. QED
      BY <1>4, <2>2, <3>1, <3>4
  <2>3. QED
    BY <2>1, <2>2
<1> HIDE DEF end
<1>13. n \in Nat /\ n > rest /\ n - rest < BufSize
  OBVIOUS
<1> HIDE DEF rest
<1>14. \A i \in 0 .. r.got - 1 : Position(f) + i < Length => r.bytes[i] = Position(f) + i
  <2> SUFFICES ASSUME NEW i \in 0 .. r.got - 1, Position(f) + i < Length
               PROVE  r.bytes[i] = Position(f) + i
    OBVIOUS
  <2>1. i \in 0 .. rest + x - 1
    BY <1>3, <1>2, <1>9
  <2>2. QED
    BY <1>12, <2>1
<1>15. r.got \in Nat /\ r.got <= n
  BY <1>2, <1>3, <1>9, <1>13
<1>16. ASSUME Position(f) + n <= Length PROVE r.got = n /\ Position(r.file) = Position(f) + n
  <2>1. f.at = end /\ end < Length
    BY <1>1, <1>2, <1>10, <1>13, <1>16
  <2>2. x = n - rest
    BY <1>1, <1>2, <1>8, <1>9, <1>13, <1>16, <2>1
  <2>3. QED
    BY <1>2, <1>3, <1>11, <1>13, <2>2
<1>17. ASSUME Position(f) + n > Length
       PROVE  r.got >= Length - Position(f) /\ Position(r.file) >= Length
  <2>1. CASE f.at >= Length
    BY <1>1, <1>2, <1>3, <1>8, <1>9, <1>10, <1>11, <2>1
  <2>2. CASE f.at < Length
    <3>1. f.at = end
      BY <1>10, <1>1, <2>2
    <3>2. k < n - rest /\ end + k = Length
      BY <1>1, <1>2, <1>8, <1>13, <1>17, <2>2, <3>1
    <3>3. x = k
      BY <1>2, <1>8, <1>9, <1>13, <3>2
    <3>4. QED
      BY <1>1, <1>2, <1>3, <1>8, <1>11, <3>2, <3>3
  <2>3. QED
    BY <1>1, <2>1, <2>2
<1>18. QED
  BY <1>11, <1>14, <1>15, <1>16, <1>17 DEF ReadRight, r


LEMMA CopiedPastRight ==
    ASSUME NEW f, Good(f), NEW n \in Nat, BufSize - f.off < n, n - (BufSize - f.off) >= BufSize
    PROVE  ReadRight(f, n, CopiedPast(f, n))
<1> DEFINE rest == BufSize - f.off
           end == f.begin + BufSize
           x == Left(f, n - rest)
           h == [f EXCEPT !.off = BufSize, !.at = @ + x]
           g == FillBuffer(h, f.at + x)
           r == CopiedPast(f, n)
<1>1. /\ f \in Window /\ f.off \in 0 .. BufSize /\ BufSize \in Nat \ {0} /\ Length \in Nat
      /\ f.at \in Nat /\ f.begin \in Nat
  BY WindowAssumption DEF Good, Window
<1>2. /\ rest \in Nat /\ end \in Nat /\ Position(f) \in Nat /\ Position(f) + rest = end
      /\ n - rest \in Nat /\ n > rest
  BY <1>1, PositionType
<1>3. r.file = g /\ r.got = rest + x
  BY DEF CopiedPast
<1>4. r.bytes = [i \in 0 .. rest + x - 1 |-> IF i < rest THEN f.cells[f.off + i] ELSE f.at + i - rest]
  BY DEF CopiedPast
<1> HIDE DEF r
<1>5. /\ x \in Nat /\ x <= n - rest
      /\ f.at >= Length => x = 0
      /\ f.at < Length => x = n - rest \/ f.at + x = Length
      /\ f.at < Length => f.at + x <= Length
  BY <1>1, <1>2, LeftType
<1> HIDE DEF x
<1>6. h \in Window /\ h.at = f.at + x /\ h.begin = f.begin /\ h.cells = f.cells
  <2>1. f.at + x \in Nat /\ BufSize \in 0 .. BufSize
    BY <1>1, <1>5
  <2>2. QED
    BY <1>1, <2>1 DEF Window
<1> HIDE DEF h
<1>7. f.at = end \/ (f.at >= Length /\ end >= Length)
  BY DEF Good, Follows
<1>8. Good(g) /\ g.begin = f.at + x /\ g.off = 0
  <2>1. f.at + x \in Nat
    BY <1>1, <1>5
  <2>2. CASE x = 0
    <3>1. h.at = f.at
      BY <1>1, <1>6, <2>2
    <3>2. Good(h)
      BY <1>6, <3>1 DEF Good, Shows, Follows
    <3>3. QED
      BY <2>1, <3>2, FillGood
  <2>3. CASE x > 0
    <3>1. f.at = end
      BY <1>1, <1>2, <1>5, <1>7, <2>3
    <3>2. Kept(h, f.at + x) < 0
      BY <1>1, <1>5, <1>6, <2>3, <3>1 DEF Kept
    <3>3. QED
      BY <1>6, <2>1, <3>2, RefillGood
  <2>4. QED
    BY <1>5, <2>2, <2>3
<1> HIDE DEF g
<1>9. Good(r.file) /\ Position(r.file) = f.at + x
  BY <1>1, <1>3, <1>5, <1>8 DEF Position
<1>10. ASSUME NEW i \in 0 .. rest + x - 1, Position(f) + i < Length
       PROVE  r.bytes[i] = Position(f) + i
  <2>0. i \in Nat
    BY <1>1
  <2>1. CASE i < rest
    <3>1. f.off + i < BufSize
      BY <1>1, <2>0, <2>1
    <3>2. f.cells[f.off + i] = Position(f) + i
      BY <1>10, <2>0, <3>1, ShownByte
    <3>3. QED
      BY <1>4, <2>1, <3>2
  <2>2. CASE ~(i < rest)
    <3>1. x > 0
      BY <1>2, <1>5, <2>0, <2>2
    <3>2. f.at = end
      BY <1>1, <1>2, <1>5, <1>7, <3>1
    <3>3. f.at + i - rest = Position(f) + i
      BY <1>1, <1>2, <2>0, <3>2
    <3>4. QED
      BY <1>4, <2>2, <3>3
  <2>3. QED
    BY <2>1, <2>2
<1> HIDE DEF end, rest
<1>11. \A i \in 0 .. r.got - 1 : Position(f) + i < Length => r.bytes[i] = Position(f) + i
  <2> SUFFICES ASSUME NEW i \in 0 .. r.got - 1, Position(f) + i < Length
               PROVE  r.bytes[i] = Position(f) + i
    OBVIOUS
  <2>1. i \in 0 .. rest + x - 1
    BY <1>2, <1>3, <1>5
  <2>2. QED
    BY <1>10, <2>1
<1>12. r.got \in Nat /\ r.got <= n
  BY <1>2, <1>3, <1>5
<1>13. ASSUME Position(f) + n <= Length PROVE r.got = n /\ Position(r.file) = Position(f) + n
  <2>1. f.at = end /\ end < Length
    BY <1>1, <1>2, <1>7, <1>13
  <2>2. x = n - rest
    BY <1>1, <1>2, <1>5, <1>13, <2>1
  <2>3. QED
    BY <1>2, <1>3, <1>9, <2>1, <2>2
<1>14. ASSUME Position(f) + n > Length
       PROVE  r.got >= Length - Position(f) /\ Position(r.file) >= Length
  <2>1. CASE f.at >= Length
    BY <1>1, <1>2, <1>3, <1>5, <1>7, <1>9, <2>1
  <2>2. CASE f.at < Length
    <3>1. f.at = end
      BY <1>1, <1>7, <2>2
    <3>2. end + x = Length
      BY <1>1, <1>2, <1>5, <1>14, <2>2, <3>1
    <3>3. QED
      BY <1>1, <1>2, <1>3, <1>5, <1>9, <3>1, <3>2
  <2>3. QED
    BY <1>1, <2>1, <2>2
<1>15. QED
  BY <1>9, <1>11, <1>12, <1>13, <1>14 DEF ReadRight, r

LEMMA ReadBufferRight ==
    ASSUME NEW f, Good(f), NEW n \in Nat
    PROVE  ReadRight(f, n, ReadBuffer(f, n))
<1>1. f.off \in 0 .. BufSize /\ BufSize \in Nat
  BY WindowAssumption DEF Good, Window
<1>2. CASE BufSize - f.off >= n
  <2>1. ReadBuffer(f, n) = Copied(f, n)
    BY <1>2 DEF ReadBuffer
  <2>2. QED
    BY <1>2, <2>1, CopiedRight
<1>3. CASE BufSize - f.off < n /\ n - (BufSize - f.off) >= BufSize
  <2>1. ReadBuffer(f, n) = CopiedPast(f, n)
    BY <1>1, <1>3 DEF ReadBuffer
  <2>2. QED
    BY <1>3, <2>1, CopiedPastRight
<1>4. CASE BufSize - f.off < n /\ n - (BufSize - f.off) < BufSize
  <2>1. ReadBuffer(f, n) = CopiedAcross(f, n)
    BY <1>1, <1>4 DEF ReadBuffer
  <2>2. QED
    BY <1>4, <2>1, CopiedAcrossRight
<1>5. QED
  BY <1>1, <1>2, <1>3, <1>4

=============================================================================
