----------------------------- MODULE FileWindow -----------------------------
(***************************************************************************)
(* FileRead's sliding window of a file (io/file.cpp), as operators on a    *)
(* record, so that the users of a file can be specified on top of it.      *)
(*                                                                         *)
(*   at     where the FILE stands          begin  buf_begin_               *)
(*   cells  the bytes in buffer_           off    buf_off_                 *)
(*                                                                         *)
(* A byte is named by its place in the file; a cell that holds none of     *)
(* them is Blank.                                                          *)
(***************************************************************************)
EXTENDS Integers
CONSTANTS Length,  \* the file's length, size_
          BufSize  \* buf_size_

ASSUME WindowAssumption == Length \in Nat /\ BufSize \in Nat \ {0}

Blank == -1
Cells == 0 .. BufSize - 1
Window == [at : Nat, begin : Nat, off : 0 .. BufSize, cells : [Cells -> Nat \cup {Blank}]]

Least(a, b) == IF a <= b THEN a ELSE b

\* fread of n bytes into the buffer from cell dst on: how many there are, and the read.
Left(f, n) == IF f.at >= Length THEN 0 ELSE Least(n, Length - f.at)
Fread(f, dst, n) ==
    [f EXCEPT !.at = @ + Left(f, n),
              !.cells = [i \in Cells |-> IF dst <= i /\ i < dst + Left(f, n) THEN f.at + i - dst
                                         ELSE @[i]]]

\* The constructor reads the first window into a zeroed buffer.
Opened == Fread([at |-> 0, begin |-> 0, off |-> 0, cells |-> [i \in Cells |-> Blank]], 0, BufSize)

Position(f) == f.begin + f.off
AtEnd(f) == Position(f) >= Length

\* How much of the window lies behind the location: it is kept, and moved to the front.
Kept(f, location) == f.begin + BufSize - location

\* Mutant: the FILE is not moved when a window is begun elsewhere.
FillUnsought(f, location) ==
    LET keep == Kept(f, location)
        there == [f EXCEPT !.begin = location, !.off = 0]
    IN  IF keep < 0 \/ keep >= BufSize
        THEN Fread(there, 0, BufSize)
        ELSE Fread([there EXCEPT !.cells = [i \in Cells |->
                        IF i < keep THEN @[i + BufSize - keep] ELSE @[i]]],
                   keep, BufSize - keep)

FillBuffer(f, location) ==
    LET keep == Kept(f, location)
        there == [f EXCEPT !.begin = location, !.off = 0]
    IN  IF keep < 0 \/ keep >= BufSize
        THEN Fread([there EXCEPT !.at = location], 0, BufSize)
        ELSE Fread([there EXCEPT !.cells = [i \in Cells |->
                        IF i < keep THEN @[i + BufSize - keep] ELSE @[i]]],
                   keep, BufSize - keep)

\* Mutant: positions before the window are not noticed.
SeekForward(f, p) ==
    IF p >= f.begin + BufSize THEN FillBuffer(f, p)
    ELSE [f EXCEPT !.off = p - f.begin]

SeekTo(f, p) ==
    IF p < f.begin \/ p >= f.begin + BufSize THEN FillBuffer(f, p)
    ELSE [f EXCEPT !.off = p - f.begin]

\* The window with the n bytes at the position in it: the pointer is to cell off.
PointTo(f, n) == IF f.off + n > BufSize THEN FillBuffer(f, Position(f)) ELSE f

\* getFragment
FragmentAt(f, p, n) == PointTo(SeekTo(f, p), n)

Skipped(f, n) == [f EXCEPT !.off = @ + n]

\* readBuffer: the window after it, how many bytes the caller got, and which.
Copied(f, n) == [file |-> Skipped(f, n), got |-> n, bytes |-> [i \in 0 .. n - 1 |-> f.cells[f.off + i]]]

\* A long request is read past the buffer, and a window begun behind it.
CopiedPast(f, n) ==
    LET rest == BufSize - f.off
        x == Left(f, n - rest)
    IN  [file |-> FillBuffer([f EXCEPT !.off = BufSize, !.at = @ + x], f.at + x),
         got |-> rest + x,
         bytes |-> [i \in 0 .. rest + x - 1 |-> IF i < rest THEN f.cells[f.off + i] ELSE f.at + i - rest]]

\* Mutant: the whole of the next window is taken.
CopiedWindow(f, n) ==
    LET rest == BufSize - f.off
        g == FillBuffer([f EXCEPT !.off = BufSize], f.begin + BufSize)
        x == g.at - f.at
    IN  [file |-> Skipped(g, x),
         got |-> n,
         bytes |-> [i \in 0 .. n - 1 |-> IF i < rest THEN f.cells[f.off + i] ELSE g.cells[i - rest]]]

CopiedAcross(f, n) ==
    LET rest == BufSize - f.off
        g == FillBuffer([f EXCEPT !.off = BufSize], f.begin + BufSize)
        x == Least(g.at - f.at, n - rest)
    IN  [file |-> Skipped(g, x),
         got |-> rest + x,
         bytes |-> [i \in 0 .. rest + x - 1 |-> IF i < rest THEN f.cells[f.off + i] ELSE g.cells[i - rest]]]

ReadBuffer(f, n) ==
    LET rest == BufSize - f.off
    IN  IF rest >= n THEN Copied(f, n)
        ELSE IF n - rest >= BufSize THEN CopiedPast(f, n) ELSE CopiedAcross(f, n)
=============================================================================
