--------------------------- MODULE MdatWriteProofs ---------------------------
(***************************************************************************)
(* The repaired mdat holds the bytes that are kept, and the tables lead to *)
(* them: for every file and buffer size and every list of exclusions that  *)
(* the scan may leave.                                                     *)
(***************************************************************************)
EXTENDS MdatWrite, FileWindowProofs, SequenceTheorems, FiniteSetTheorems, WellFoundedInduction

-----------------------------------------------------------------------------
(* The lists of exclusions                                                 *)

Sequence == [start : Nat, length : Nat]

\* The naturals are well ordered: an induction is a least counterexample.
LEMMA LeastNat ==
    ASSUME NEW S, S \subseteq Nat, S # {}
    PROVE  \E x \in S : \A y \in S : x <= y
<1>1. PICK x \in S : \A y \in S : ~(<<y, x>> \in OpToRel(<, Nat))
  BY NatLessThanWellFounded, WFMin
<1>2. ASSUME NEW y \in S PROVE x <= y
  <2>1. ~(y < x) /\ x \in Nat /\ y \in Nat
    BY <1>1 DEF OpToRel
  <2>2. QED
    BY <2>1
<1>3. QED
  BY <1>2

\* What the scan leaves, as facts about a sequence.
LEMMA ExclusionFacts ==
    ASSUME NEW size \in Nat, NEW e \in Exclusions(size)
    PROVE  /\ e \in Seq(Sequence)
           /\ \A i \in 1 .. Len(e) :
                e[i] \in Sequence /\ e[i].start \in Nat /\ e[i].length \in Nat
           /\ \A i \in 1 .. Len(e) : e[i].start + e[i].length <= size
           /\ \A i \in 1 .. Len(e) : e[i].length > 0 \/ e[i].start = size
           /\ \A i, j \in 1 .. Len(e) : i < j => e[i].start + e[i].length <= e[j].start
                                               /\ e[i].start < e[j].start
<1>1. PICK n \in 0 .. MaxExcluded :
        /\ e \in [1 .. n -> Ranges(size)]
        /\ \A i \in 1 .. n : e[i].start + e[i].length <= size
        /\ \A i \in 1 .. n : e[i].length > 0 \/ e[i].start = size
        /\ \A i, j \in 1 .. n : i < j => e[i].start + e[i].length <= e[j].start
                                       /\ e[i].start < e[j].start
  BY DEF Exclusions
<1>2. n \in Nat
  BY WriteAssumption
<1>3. ASSUME NEW i \in 1 .. n
      PROVE  e[i] \in Sequence /\ e[i].start \in Nat /\ e[i].length \in Nat
  <2>1. e[i] \in Ranges(size)
    BY <1>1
  <2>2. PICK s \in 0 .. size, l \in 0 .. size : e[i] = [start |-> s, length |-> l]
    BY <2>1 DEF Ranges
  <2>3. s \in Nat /\ l \in Nat
    OBVIOUS
  <2>4. QED
    BY <2>2, <2>3 DEF Sequence
<1>4. e \in [1 .. n -> Sequence]
  BY <1>1, <1>3
<1>5. e \in Seq(Sequence)
  BY <1>2, <1>4, SeqDef
<1>6. Len(e) = n
  BY <1>2, <1>4, <1>5, LenProperties
<1>7. QED
  BY <1>1, <1>3, <1>5, <1>6

\* The sums that ExcludedUpTo defines exist.
LEMMA SumsExist ==
    ASSUME NEW e \in Seq(Sequence), NEW n \in 0 .. Len(e)
    PROVE  \E g : g = [i \in 0 .. n |-> IF i = 0 THEN 0 ELSE g[i - 1] + e[i].length]
<1> DEFINE Sums(m, g) == g = [i \in 0 .. m |-> IF i = 0 THEN 0 ELSE g[i - 1] + e[i].length]
           Without == {m \in 0 .. Len(e) : ~ \E g : Sums(m, g)}
<1>1. SUFFICES ASSUME Without # {} PROVE FALSE
  OBVIOUS
<1>2. Without \subseteq Nat
  OBVIOUS
<1>3. PICK m \in Without : \A y \in Without : m <= y
  BY <1>1, <1>2, LeastNat
<1>4. CASE m = 0
  <2> DEFINE h == [i \in 0 .. 0 |-> 0]
  <2>1. Sums(0, h)
    OBVIOUS
  <2>2. QED
    BY <1>3, <1>4, <2>1
<1>5. CASE m # 0
  <2>1. m \in Nat /\ m \in 0 .. Len(e) /\ m - 1 \in 0 .. Len(e)
    <3>1. m \in 0 .. Len(e) /\ Len(e) \in Nat
      BY <1>3
    <3>2. QED
      BY <1>5, <3>1
  <2>2. m - 1 \notin Without
    <3> HIDE DEF Without
    <3>1. QED
      BY <1>3, <2>1
  <2>3. PICK g : Sums(m - 1, g)
    BY <2>1, <2>2
  <2>4. \A i \in 0 .. m - 1 : g[i] = IF i = 0 THEN 0 ELSE g[i - 1] + e[i].length
    BY <2>3
  <2> DEFINE h == [i \in 0 .. m |-> IF i < m THEN g[i] ELSE g[m - 1] + e[m].length]
  <2>5. ASSUME NEW i \in 0 .. m
        PROVE  h[i] = IF i = 0 THEN 0 ELSE h[i - 1] + e[i].length
    <3>1. CASE i = 0
      BY <1>5, <2>1, <2>4, <3>1
    <3>2. CASE i # 0
      <4>1. i - 1 \in 0 .. m /\ i - 1 < m /\ h[i - 1] = g[i - 1]
        BY <2>1, <3>2
      <4>2. CASE i < m
        <5>1. h[i] = g[i] /\ g[i] = g[i - 1] + e[i].length
          BY <2>1, <2>4, <3>2, <4>2
        <5>2. QED
          BY <3>2, <4>1, <5>1
      <4>3. CASE ~(i < m)
        <5>1. i = m /\ h[i] = g[m - 1] + e[m].length
          BY <2>1, <4>3
        <5>2. QED
          BY <3>2, <4>1, <5>1
      <4>4. QED
        BY <4>2, <4>3
    <3>3. QED
      BY <3>1, <3>2
  <2>6. h = [i \in 0 .. m |-> h[i]]
    OBVIOUS
  <2> HIDE DEF h
  <2>7. Sums(m, h)
    BY <2>5, <2>6
  <2>8. QED
    BY <1>3, <2>7
<1>6. QED
  BY <1>4, <1>5

LEMMA SumsDefined ==
    ASSUME NEW e \in Seq(Sequence)
    PROVE  /\ ExcludedUpTo(e)[0] = 0
           /\ \A i \in 1 .. Len(e) : ExcludedUpTo(e)[i] = ExcludedUpTo(e)[i - 1] + e[i].length
<1> DEFINE Sums(g) == g = [i \in 0 .. Len(e) |-> IF i = 0 THEN 0 ELSE g[i - 1] + e[i].length]
           s == ExcludedUpTo(e)
<1>1. Len(e) \in Nat /\ Len(e) \in 0 .. Len(e)
  OBVIOUS
<1>2. \E g : Sums(g)
  BY <1>1, SumsExist
<1>3. s = CHOOSE g : Sums(g)
  BY DEF ExcludedUpTo
<1>4. Sums(s)
  BY <1>2, <1>3
<1> HIDE DEF s
<1>5. \A i \in 0 .. Len(e) : s[i] = IF i = 0 THEN 0 ELSE s[i - 1] + e[i].length
  BY <1>4
<1>6. QED
  BY <1>1, <1>5 DEF s

LEMMA SumsType ==
    ASSUME NEW e \in Seq(Sequence), NEW n \in 0 .. Len(e)
    PROVE  ExcludedUpTo(e)[n] \in Nat
<1> DEFINE s == ExcludedUpTo(e)
           Odd == {m \in 0 .. Len(e) : s[m] \notin Nat}
<1>1. SUFFICES ASSUME Odd # {} PROVE FALSE
  OBVIOUS
<1>2. PICK m \in Odd : \A y \in Odd : m <= y
  <2>1. Odd \subseteq Nat
    OBVIOUS
  <2>2. QED
    BY <1>1, <2>1, LeastNat
<1> HIDE DEF s
<1>3. CASE m = 0
  BY <1>2, <1>3, SumsDefined DEF s
<1>4. CASE m # 0
  <2>1. m \in 1 .. Len(e) /\ m - 1 \in 0 .. Len(e) /\ m - 1 \notin Odd
    BY <1>2, <1>4
  <2>2. s[m - 1] \in Nat /\ s[m] = s[m - 1] + e[m].length
    BY <2>1, SumsDefined DEF s
  <2>3. e[m] \in Sequence
    BY <2>1
  <2>4. e[m].length \in Nat
    BY <2>3 DEF Sequence
  <2>5. QED
    BY <1>2, <2>2, <2>4
<1>5. QED
  BY <1>3, <1>4


-----------------------------------------------------------------------------
(***************************************************************************)
(* The inductive invariant.  What is written is, of every prefix of the    *)
(* content, the bytes that are kept; its length is the prefix less the     *)
(* sequences stepped over.                                                 *)
(***************************************************************************)
Skips == mdat.excluded
Sums == ExcludedUpTo(Skips)

\* The numbers written ahead of the content are those that the loop will meet.
Announced ==
    /\ length \in Nat
    /\ pc \in {"update", "offsets", "header", "copy", "done"}
    /\ pc # "update" => length = 8 + ContentSize
    /\ pc \in {"header", "copy", "done"} => shift = Front + NewHeaderSize
    /\ pc \in {"copy", "done"} =>
         /\ header.size = NewHeaderSize
         /\ header.new_length = header.size + ContentSize - Total
         /\ header.stated = IF Needs64bitVersion THEN 1 ELSE header.new_length % Limit

\* The loop stands between the sequences stepped over and those still to come.
Between ==
    /\ offset \in 0 .. ContentSize /\ skip \in 1 .. Len(Skips) + 1
    /\ \A i \in 1 .. skip - 1 : Skips[i].start + Skips[i].length <= offset
    /\ \A i \in skip .. Len(Skips) : offset <= Skips[i].start
    /\ pc = "done" => offset = ContentSize

\* The bytes written are those kept before the offset, each once and in their order.
Written ==
    /\ out \in Seq(Nat)
    /\ Len(out) = offset - Sums[skip - 1]
    /\ \A p, q \in 1 .. Len(out) : p < q => out[p] < out[q]
    /\ \A p \in 1 .. Len(out) : IsKept(out[p]) /\ out[p] < mdat.start + offset
    /\ \A b \in Nat : IsKept(b) /\ b < mdat.start + offset => \E p \in 1 .. Len(out) : out[p] = b

WriteInv ==
    /\ mdat \in Mdats /\ Good(file) /\ failed = FALSE
    /\ Announced /\ Between /\ Written


-----------------------------------------------------------------------------
(* What the invariant is used with                                         *)

\* The media data and its exclusions, as the steps below need them.
MdatRight ==
    /\ mdat.start \in Nat /\ ContentSize \in Nat
    /\ mdat.file_end = mdat.start + ContentSize /\ mdat.file_end <= Length
    /\ Len(Skips) \in Nat /\ DOMAIN Skips = 1 .. Len(Skips)
    /\ \A i \in 1 .. Len(Skips) :
         /\ Skips[i].start \in Nat /\ Skips[i].length \in Nat
         /\ Skips[i].start + Skips[i].length <= ContentSize
         /\ Skips[i].length > 0 \/ Skips[i].start = ContentSize
    /\ \A i, j \in 1 .. Len(Skips) : i < j =>
         /\ Skips[i].start + Skips[i].length <= Skips[j].start
         /\ Skips[i].start < Skips[j].start

SumsRight ==
    /\ Sums[0] = 0
    /\ \A i \in 1 .. Len(Skips) : Sums[i] = Sums[i - 1] + Skips[i].length
    /\ \A i \in 0 .. Len(Skips) : Sums[i] \in Nat
    /\ Total = Sums[Len(Skips)] /\ Total \in Nat

LEMMA MdatFacts ==
    ASSUME mdat \in Mdats
    PROVE  MdatRight /\ SumsRight
<1>1. PICK s \in Starts, e \in Ends :
        mdat \in [start : {s}, file_end : {e}, excluded : Exclusions(e - s)]
  <2> DEFINE Those(s, e) == [start : {s}, file_end : {e}, excluded : Exclusions(e - s)]
  <2>1. mdat \in UNION {Those(s, e) : s \in Starts, e \in Ends}
    BY DEF Mdats
  <2> HIDE DEF Those
  <2>2. \E s \in Starts, e \in Ends : mdat \in Those(s, e)
    BY <2>1
  <2>3. QED
    BY <2>2 DEF Those
<1>2. /\ mdat.start = s /\ mdat.file_end = e /\ Skips \in Exclusions(e - s)
  BY <1>1 DEF Skips
<1>3. s \in Nat /\ e \in 0 .. Length /\ s <= e /\ Length \in Nat
  BY WriteAssumption, WindowAssumption
<1>4. e - s \in Nat /\ ContentSize = e - s
  BY <1>2, <1>3 DEF ContentSize
<1>5. Skips \in Seq(Sequence)
  BY <1>2, <1>4, ExclusionFacts
<1>6. Len(Skips) \in Nat /\ DOMAIN Skips = 1 .. Len(Skips)
  BY <1>5
<1>7. MdatRight
  BY <1>2, <1>3, <1>4, <1>6, ExclusionFacts DEF MdatRight
<1>8. SumsRight
  <2>1. \A i \in 0 .. Len(Skips) : Sums[i] \in Nat
    BY <1>5, SumsType DEF Sums
  <2>2. /\ Sums[0] = 0
        /\ \A i \in 1 .. Len(Skips) : Sums[i] = Sums[i - 1] + Skips[i].length
    BY <1>5, SumsDefined DEF Sums
  <2>3. Total = Sums[Len(Skips)] /\ Len(Skips) \in 0 .. Len(Skips)
    BY <1>6 DEF Total, Sums, Skips
  <2>4. QED
    BY <2>1, <2>2, <2>3 DEF SumsRight
<1>9. QED
  BY <1>7, <1>8

\* What depends on the media data alone stays with it.
LEMMA SameMdat ==
    ASSUME mdat' = mdat
    PROVE  /\ Skips' = Skips /\ Sums' = Sums /\ ContentSize' = ContentSize /\ Total' = Total
           /\ \A b : IsKept(b)' = IsKept(b)
BY DEF Skips, Sums, ContentSize, Total, IsKept, ExcludedUpTo

LEMMA SameLoop ==
    ASSUME WriteInv, UNCHANGED <<mdat, file, offset, skip, out>>, failed' = FALSE,
           pc' = "done" => offset = ContentSize, Announced'
    PROVE  WriteInv'
<1>1. /\ Skips' = Skips /\ Sums' = Sums /\ ContentSize' = ContentSize
      /\ \A b : IsKept(b)' = IsKept(b)
  BY SameMdat
<1>2. Between'
  BY <1>1 DEF WriteInv, Between
<1>3. Written'
  BY <1>1 DEF WriteInv, Written
<1>4. Good(file)' /\ (mdat \in Mdats)'
  BY DEF WriteInv, Good, Shows, Follows, Mdats
<1>5. QED
  BY <1>2, <1>3, <1>4 DEF WriteInv

LEMMA NewHeaderSizeType ==
    /\ NewHeaderSize \in {8, 16}
    /\ NewHeaderSize = 16 <=> Needs64bitVersion
BY DEF NewHeaderSize

-----------------------------------------------------------------------------
(* The steps before the loop                                               *)

LEMMA InitWrite == Init => WriteInv
<1> SUFFICES ASSUME Init PROVE WriteInv
  OBVIOUS
<1>1. /\ mdat \in Mdats /\ length \in OldLengths /\ offset = 0 /\ skip = 1 /\ out = <<>>
      /\ pc = "update" /\ failed = FALSE
  BY DEF Init
<1>2. MdatRight /\ SumsRight
  BY <1>1, MdatFacts
<1>3. Good(file)
  <2>1. PICK p \in 0 .. Length : file = SeekTo(Opened, p)
    BY DEF Init
  <2>2. QED
    BY <2>1, OpenedGood, SeekGood
<1>4. Announced
  BY <1>1, WriteAssumption DEF Announced
<1>5. Between
  BY <1>1, <1>2 DEF Between, MdatRight
<1>6. Written
  <2>1. out \in Seq(Nat) /\ Len(out) = 0
    BY <1>1
  <2>2. Sums[skip - 1] = 0
    BY <1>1, <1>2 DEF SumsRight
  <2>3. \A b \in Nat : ~(IsKept(b) /\ b < mdat.start + offset)
    BY <1>1, <1>2 DEF IsKept, MdatRight
  <2>4. QED
    BY <1>1, <2>1, <2>2, <2>3 DEF Written
<1>7. QED
  BY <1>1, <1>3, <1>4, <1>5, <1>6 DEF WriteInv

LEMMA UpdateLengthWrite == WriteInv /\ UpdateLength => WriteInv'
<1> SUFFICES ASSUME WriteInv, UpdateLength PROVE WriteInv'
  OBVIOUS
<1>1. /\ length' = 8 + ContentSize /\ pc' = "offsets"
      /\ UNCHANGED <<mdat, file, shift, header, offset, skip, out, failed>>
  BY DEF UpdateLength
<1>2. ContentSize' = ContentSize /\ ContentSize \in Nat
  BY <1>1, SameMdat, MdatFacts DEF WriteInv, MdatRight
<1>3. Announced'
  BY <1>1, <1>2 DEF Announced
<1>4. QED
  BY <1>1, <1>3, SameLoop DEF WriteInv

LEMMA FixOffsetsWrite == WriteInv /\ FixOffsets => WriteInv'
<1> SUFFICES ASSUME WriteInv, FixOffsets PROVE WriteInv'
  OBVIOUS
<1>1. /\ pc = "offsets" /\ shift' = Front + NewHeaderSize /\ pc' = "header"
      /\ UNCHANGED <<mdat, length, file, header, offset, skip, out, failed>>
  BY DEF FixOffsets
<1>2. NewHeaderSize' = NewHeaderSize /\ ContentSize' = ContentSize
  BY <1>1, SameMdat DEF NewHeaderSize, Needs64bitVersion
<1>3. Announced'
  BY <1>1, <1>2 DEF WriteInv, Announced
<1>4. QED
  BY <1>1, <1>3, SameLoop DEF WriteInv

LEMMA WriteHeaderWrite == WriteInv /\ WriteHeader => WriteInv'
<1> SUFFICES ASSUME WriteInv, WriteHeader PROVE WriteInv'
  OBVIOUS
<1>1. /\ pc = "header" /\ pc' = "copy"
      /\ UNCHANGED <<mdat, length, file, shift, offset, skip, out, failed>>
  BY DEF WriteHeader
<1>2. /\ NewHeaderSize' = NewHeaderSize /\ ContentSize' = ContentSize /\ Total' = Total
      /\ Needs64bitVersion' = Needs64bitVersion
  BY <1>1, SameMdat DEF NewHeaderSize, Needs64bitVersion
<1>3. ContentSize \in Nat /\ Total \in Nat
  BY MdatFacts DEF WriteInv, MdatRight, SumsRight
<1>4. length = 8 + ContentSize /\ shift = Front + NewHeaderSize /\ length \in Nat
  BY <1>1 DEF WriteInv, Announced
<1>5. /\ header'.size = NewHeaderSize
      /\ header'.new_length = header'.size + ContentSize - Total
      /\ header'.stated = IF Needs64bitVersion THEN 1 ELSE header'.new_length % Limit
  <2>1. CASE Needs64bitVersion
    <3>1. header' = [size |-> 16, new_length |-> length - Total + 8, stated |-> 1]
      BY <2>1 DEF WriteHeader
    <3>2. NewHeaderSize = 16
      BY <2>1, NewHeaderSizeType
    <3>3. QED
      BY <1>3, <1>4, <2>1, <3>1, <3>2
  <2>2. CASE ~Needs64bitVersion
    <3>1. header' = [size |-> 8, new_length |-> length - Total, stated |-> (length - Total) % Limit]
      BY <2>2 DEF WriteHeader
    <3>2. NewHeaderSize = 8
      BY <2>2, NewHeaderSizeType
    <3>3. QED
      BY <1>3, <1>4, <2>2, <3>1, <3>2
  <2>3. QED
    BY <2>1, <2>2
<1>6. Announced'
  BY <1>1, <1>2, <1>4, <1>5 DEF Announced
<1>7. QED
  BY <1>1, <1>6, SameLoop DEF WriteInv


-----------------------------------------------------------------------------
(* The loop                                                                *)

\* One read stays in the buffer, in the content, and before every exclusion to come.
LEMMA ToReadFits ==
    ASSUME WriteInv, offset < ContentSize
    PROVE  /\ ToRead \in 0 .. BufSize /\ offset + ToRead <= ContentSize
           /\ \A i \in skip .. Len(Skips) : offset + ToRead <= Skips[i].start
<1> DEFINE n == Least(BufSize, ContentSize - offset)
<1>1. /\ MdatRight /\ Between /\ BufSize \in Nat /\ ContentSize \in Nat
      /\ offset \in Nat /\ skip \in Nat /\ skip >= 1 /\ Len(Skips) \in Nat
  BY MdatFacts, WindowAssumption DEF WriteInv, Between, MdatRight
<1>2. n \in 0 .. BufSize /\ offset + n <= ContentSize
  BY <1>1 DEF Least
<1>3. ToRead = IF skip <= Len(Skips) /\ offset + n > Skips[skip].start
               THEN Skips[skip].start - offset ELSE n
  BY <1>1 DEF ToRead, AtEndOfExclusions, Skips
<1> HIDE DEF n
<1>4. CASE skip <= Len(Skips)
  <2>1. /\ skip \in 1 .. Len(Skips) /\ Skips[skip].start \in Nat /\ offset <= Skips[skip].start
    BY <1>1, <1>4 DEF MdatRight, Between
  <2>2. /\ ToRead \in 0 .. BufSize /\ offset + ToRead <= ContentSize
        /\ offset + ToRead <= Skips[skip].start
    BY <1>1, <1>2, <1>3, <1>4, <2>1
  <2>3. ASSUME NEW i \in skip .. Len(Skips) PROVE Skips[skip].start <= Skips[i].start
    BY <1>1, <2>1 DEF MdatRight
  <2>4. \A i \in skip .. Len(Skips) : i \in 1 .. Len(Skips) /\ Skips[i].start \in Nat
    BY <1>1 DEF MdatRight
  <2>5. QED
    BY <1>1, <2>1, <2>2, <2>3, <2>4
<1>5. CASE ~(skip <= Len(Skips))
  BY <1>1, <1>2, <1>3, <1>5
<1>6. QED
  BY <1>4, <1>5

\* No byte of the content from one offset to before the other is kept.
NothingKept(from, to) ==
    \A b \in from .. to - 1 : \E i \in 1 .. Len(Skips) :
        b \in Skips[i].start .. Skips[i].start + Skips[i].length - 1

\* Where the loop goes on: behind the read, or behind the exclusion that begins there.
GoesOn(r) ==
    /\ failed' = FALSE
    /\ offset' \in r .. ContentSize /\ skip' \in 1 .. Len(Skips) + 1
    /\ \A i \in 1 .. skip' - 1 : Skips[i].start + Skips[i].length <= offset'
    /\ \A i \in skip' .. Len(Skips) : offset' <= Skips[i].start
    /\ offset' - Sums[skip' - 1] = r - Sums[skip - 1]
    /\ NothingKept(r, offset')

LEMMA StepOverRight ==
    ASSUME WriteInv, NEW r \in Nat, offset <= r, r <= ContentSize, StepOver(r),
           \A i \in skip .. Len(Skips) : r <= Skips[i].start
    PROVE  GoesOn(r)
<1>1. /\ MdatRight /\ SumsRight /\ Between /\ ContentSize \in Nat /\ failed = FALSE
      /\ offset \in Nat /\ skip \in Nat /\ skip >= 1 /\ skip <= Len(Skips) + 1 /\ Len(Skips) \in Nat
  BY MdatFacts DEF WriteInv, Between, MdatRight
<1>2. CASE skip <= Len(Skips) /\ r = Skips[skip].start
  <2> DEFINE behind == r + Skips[skip].length
  <2>1. /\ skip \in 1 .. Len(Skips) /\ Skips[skip].length \in Nat /\ behind <= ContentSize
        /\ behind \in Nat
    BY <1>1, <1>2 DEF MdatRight
  <2>2. /\ offset' = behind /\ skip' = skip + 1
        /\ failed' = ~ /\ skip + 1 > Len(Skips) \/ Skips[skip + 1].start > Skips[skip].start
                       /\ behind <= ContentSize
    BY <1>1, <1>2 DEF StepOver, AtEndOfExclusions, Skips
  <2>3. ASSUME NEW i \in skip + 1 .. Len(Skips)
        PROVE  behind <= Skips[i].start /\ Skips[i].start > Skips[skip].start
    <3>1. i \in 1 .. Len(Skips) /\ skip < i /\ Skips[i].start \in Nat /\ Skips[skip].start \in Nat
      BY <1>1, <2>1 DEF MdatRight
    <3>2. QED
      BY <1>1, <1>2, <2>1, <3>1 DEF MdatRight
  <2>4. skip + 1 > Len(Skips) \/ Skips[skip + 1].start > Skips[skip].start
    <3>1. skip + 1 <= Len(Skips) => skip + 1 \in skip + 1 .. Len(Skips)
      BY <1>1
    <3>2. QED
      BY <1>1, <2>3, <3>1
  <2>5. failed' = FALSE
    BY <2>1, <2>2, <2>4
  <2>6. ASSUME NEW i \in 1 .. skip PROVE Skips[i].start + Skips[i].length <= behind
    <3>1. CASE i = skip
      BY <1>2, <2>1, <3>1
    <3>2. CASE i # skip
      <4>1. i \in 1 .. skip - 1 /\ i \in 1 .. Len(Skips)
        BY <1>1, <2>1, <3>2
      <4>2. /\ Skips[i].start + Skips[i].length <= offset
            /\ Skips[i].start \in Nat /\ Skips[i].length \in Nat
        BY <1>1, <4>1 DEF Between, MdatRight
      <4>3. offset <= behind /\ offset \in Nat
        BY <1>1, <2>1
      <4>4. QED
        BY <2>1, <4>2, <4>3
    <3>3. QED
      BY <3>1, <3>2
  <2>7. behind - Sums[skip] = r - Sums[skip - 1]
    <3>1. /\ skip \in 0 .. Len(Skips) /\ skip - 1 \in 0 .. Len(Skips)
      BY <1>1, <2>1
    <3>2. /\ Sums[skip] = Sums[skip - 1] + Skips[skip].length
          /\ Sums[skip] \in Nat /\ Sums[skip - 1] \in Nat
      BY <1>1, <2>1, <3>1 DEF SumsRight
    <3>3. QED
      BY <2>1, <3>2
  <2>8. ASSUME NEW b \in r .. behind - 1
        PROVE  b \in Skips[skip].start .. Skips[skip].start + Skips[skip].length - 1
    BY <1>2, <2>1
  <2> HIDE DEF behind
  <2>9. skip' \in 1 .. Len(Skips) + 1 /\ skip' - 1 = skip /\ offset' \in r .. ContentSize
    <3>1. r <= behind
      BY <2>1 DEF behind
    <3>2. QED
      BY <1>1, <2>1, <2>2, <3>1
  <2>10. QED
    BY <2>1, <2>2, <2>3, <2>5, <2>6, <2>7, <2>8, <2>9 DEF NothingKept, GoesOn
<1>3. CASE ~(skip <= Len(Skips) /\ r = Skips[skip].start)
  <2>1. offset' = r /\ skip' = skip /\ failed' = failed
    BY <1>1, <1>3 DEF StepOver, AtEndOfExclusions, Skips
  <2>2. ASSUME NEW i \in 1 .. skip - 1 PROVE Skips[i].start + Skips[i].length <= r
    <3>1. i \in 1 .. Len(Skips) /\ Skips[i].start + Skips[i].length <= offset
      BY <1>1 DEF Between
    <3>2. Skips[i].start \in Nat /\ Skips[i].length \in Nat
      BY <1>1, <3>1 DEF MdatRight
    <3>3. QED
      BY <1>1, <3>1, <3>2
  <2>3. r .. r - 1 = {} /\ r \in r .. ContentSize
    BY <1>1
  <2>4. QED
    BY <1>1, <2>1, <2>2, <2>3 DEF NothingKept, GoesOn
<1>4. QED
  BY <1>2, <1>3

\* What is read are the file's bytes from the offset on.
LEMMA BytesRead ==
    ASSUME WriteInv, NEW n \in 0 .. BufSize, offset + n <= ContentSize
    PROVE  LET f == FragmentAt(file, mdat.start + offset, n) IN
           /\ Good(f)
           /\ \A i \in 1 .. n : f.cells[f.off + i - 1] = mdat.start + offset + i - 1
<1> DEFINE f == FragmentAt(file, mdat.start + offset, n)
<1>1. /\ MdatRight /\ offset \in Nat /\ mdat.start \in Nat /\ ContentSize \in Nat
      /\ mdat.start + ContentSize <= Length /\ BufSize \in Nat /\ Length \in Nat
  BY MdatFacts, WindowAssumption DEF WriteInv, Between, MdatRight
<1>2. mdat.start + offset \in Nat /\ n \in Nat
  BY <1>1
<1>3. Good(f) /\ Position(f) = mdat.start + offset /\ f.off + n <= BufSize
  BY <1>2, FragmentGood DEF WriteInv
<1>4. f.off \in Nat
  BY <1>1, <1>3 DEF Good, Window
<1> HIDE DEF f
<1>5. ASSUME NEW i \in 1 .. n
      PROVE  f.cells[f.off + i - 1] = mdat.start + offset + i - 1
  <2>1. /\ i - 1 \in Nat /\ f.off + (i - 1) < BufSize /\ Position(f) + (i - 1) < Length
        /\ f.off + (i - 1) = f.off + i - 1
    BY <1>1, <1>2, <1>3, <1>4
  <2>2. f.cells[f.off + (i - 1)] = Position(f) + (i - 1)
    BY <1>3, <2>1, ShownByte
  <2>3. QED
    BY <1>1, <1>3, <2>1, <2>2
<1>6. QED
  BY <1>3, <1>5 DEF f


\* The bytes between the offset and the end of a read are all kept.
LEMMA ReadIsKept ==
    ASSUME WriteInv, NEW r \in Nat, r <= ContentSize,
           \A i \in skip .. Len(Skips) : r <= Skips[i].start,
           NEW b \in Nat, mdat.start + offset <= b, b < mdat.start + r
    PROVE  IsKept(b)
<1>1. /\ MdatRight /\ Between /\ ContentSize \in Nat /\ mdat.start \in Nat /\ offset \in Nat
      /\ skip \in Nat /\ Len(Skips) \in Nat
      /\ mdat.file_end = mdat.start + ContentSize /\ DOMAIN Skips = 1 .. Len(Skips)
  BY MdatFacts DEF WriteInv, Between, MdatRight
<1>n. mdat.start \in Nat /\ offset \in Nat
  BY <1>1
<1>2. ASSUME NEW i \in 1 .. Len(Skips)
      PROVE  b - mdat.start \notin Skips[i].start .. Skips[i].start + Skips[i].length - 1
  <2>1. Skips[i].start \in Nat /\ Skips[i].length \in Nat
    BY <1>1 DEF MdatRight
  <2> DEFINE s == Skips[i].start
             l == Skips[i].length
             p == b - mdat.start
  <2>p. p \in Int /\ offset <= p /\ p < r
    BY <1>1, <1>n
  <2>s. s \in Nat /\ l \in Nat
    BY <2>1
  <2>2. CASE i < skip
    <3>1. s + l <= offset
      BY <1>1, <2>2 DEF Between
    <3> HIDE DEF s, l, p
    <3>2. p \notin s .. s + l - 1
      BY <1>n, <2>p, <2>s, <3>1
    <3>3. QED
      BY <3>2 DEF s, l, p
  <2>3. CASE i >= skip
    <3>1. r <= s
      BY <1>1, <2>3
    <3> HIDE DEF s, l, p
    <3>2. p \notin s .. s + l - 1
      BY <1>1, <2>p, <2>s, <3>1
    <3>3. QED
      BY <3>2 DEF s, l, p
  <2>4. skip \in Nat
    BY <1>1
  <2>5. QED
    BY <2>2, <2>3, <2>4
<1>3. b \in mdat.start .. mdat.file_end - 1
  BY <1>1
<1>4. QED
  BY <1>1, <1>2, <1>3 DEF IsKept, Skips

\* Appending the bytes of one read, and stepping over what is excluded behind them.
Appends(n) ==
    /\ offset + n <= ContentSize
    /\ \A i \in skip .. Len(Skips) : offset + n <= Skips[i].start
    /\ mdat' = mdat
    /\ out' = out \o [i \in 1 .. n |-> mdat.start + offset + i - 1]
    /\ offset' \in offset + n .. ContentSize
    /\ offset' - Sums[skip' - 1] = (offset + n) - Sums[skip - 1]
    /\ NothingKept(offset + n, offset')

LEMMA AppendedWritten ==
    ASSUME WriteInv, NEW n \in Nat, Appends(n)
    PROVE  Written'
<1> DEFINE read == [i \in 1 .. n |-> mdat.start + offset + i - 1]
           l == Len(out)
           b0 == mdat.start + offset
<1>1. /\ Written /\ ContentSize \in Nat /\ mdat.start \in Nat
      /\ offset \in Nat /\ skip \in 1 .. Len(Skips) + 1 /\ Len(Skips) \in Nat
      /\ mdat.file_end = mdat.start + ContentSize /\ DOMAIN Skips = 1 .. Len(Skips)
  BY MdatFacts DEF WriteInv, Between, MdatRight
<1>2. /\ offset' \in Nat /\ offset + n <= offset' /\ offset' <= ContentSize
      /\ offset + n \in Nat /\ offset + n <= ContentSize /\ b0 \in Nat
  <2>1. offset + n <= ContentSize /\ offset' \in offset + n .. ContentSize
    BY DEF Appends
  <2>2. offset \in Nat /\ mdat.start \in Nat /\ ContentSize \in Nat
    BY <1>1
  <2>3. QED
    BY <2>1, <2>2
<1>3. Sums' = Sums /\ (\A b : IsKept(b)' = IsKept(b)) /\ mdat' = mdat
  BY SameMdat DEF Appends
<1>4. out \in Seq(Nat) /\ l \in Nat
  BY <1>1 DEF Written
<1>5. read \in Seq(Nat) /\ Len(read) = n
  <2>1. \A i \in 1 .. n : mdat.start + offset + i - 1 \in Nat
    BY <1>1
  <2>2. read \in [1 .. n -> Nat]
    BY <2>1
  <2>3. QED
    BY <2>2
<1>6. /\ out' \in Seq(Nat) /\ Len(out') = l + n
      /\ \A i \in 1 .. l + n : out'[i] = IF i <= l THEN out[i] ELSE read[i - l]
  <2>1. /\ out \o read \in Seq(Nat) /\ Len(out \o read) = Len(out) + Len(read)
        /\ \A i \in 1 .. Len(out) + Len(read) :
             (out \o read)[i] = IF i <= Len(out) THEN out[i] ELSE read[i - Len(out)]
    BY <1>4, <1>5, ConcatProperties, Zenon
  <2>2. out' = out \o read
    BY DEF Appends
  <2>3. QED
    BY <1>5, <2>1, <2>2
<1>7. \A i \in 1 .. n : read[i] = b0 + i - 1
  OBVIOUS
<1> HIDE DEF read, l, b0
<1>8. ASSUME NEW p \in 1 .. l
      PROVE  out'[p] = out[p] /\ out[p] \in Nat /\ IsKept(out[p]) /\ out[p] < b0
  <2>1. p \in 1 .. l + n /\ p <= l
    BY <1>4
  <2>2. out'[p] = out[p]
    BY <1>6, <2>1
  <2>3. out[p] \in Nat
    BY <1>4 DEF l
  <2>4. QED
    BY <1>1, <2>2, <2>3 DEF Written, l, b0
<1>9. ASSUME NEW p \in l + 1 .. l + n
      PROVE  out'[p] = b0 + (p - l) - 1 /\ out'[p] \in Nat /\ IsKept(out'[p])
  <2>1. p \in 1 .. l + n /\ ~(p <= l) /\ p - l \in 1 .. n
    BY <1>4
  <2>2. out'[p] = b0 + (p - l) - 1
    BY <1>6, <1>7, <2>1
  <2>3. out'[p] \in Nat /\ b0 <= out'[p] /\ out'[p] < b0 + n /\ b0 + n = mdat.start + (offset + n)
    <3>1. b0 + n = mdat.start + (offset + n)
      BY <1>1 DEF b0
    <3>2. QED
      BY <1>2, <1>4, <2>1, <2>2, <3>1
  <2>4. IsKept(out'[p])
    BY <1>2, <2>3, ReadIsKept DEF b0, Appends
  <2>5. QED
    BY <2>2, <2>3, <2>4
<1>10. Len(out') = offset' - Sums'[skip' - 1]
  <2>1. Sums[skip - 1] \in Nat
    <3>1. skip - 1 \in 0 .. Len(Skips)
      BY <1>1
    <3>2. QED
      BY <3>1, MdatFacts DEF WriteInv, SumsRight
  <2>2. l = offset - Sums[skip - 1]
    BY <1>1 DEF Written, l
  <2>3. offset' - Sums[skip' - 1] = (offset + n) - Sums[skip - 1]
    BY DEF Appends
  <2>4. l + n = (offset + n) - Sums[skip - 1]
    BY <1>1, <2>1, <2>2
  <2>5. QED
    BY <1>3, <1>6, <2>3, <2>4
<1>11. ASSUME NEW p \in 1 .. l + n, NEW q \in 1 .. l + n, p < q
       PROVE  out'[p] < out'[q]
  <2>1. CASE q <= l
    <3>1. p \in 1 .. l /\ q \in 1 .. l
      BY <1>4, <1>11, <2>1
    <3>2. out[p] < out[q]
      BY <1>1, <1>11, <3>1 DEF Written, l
    <3>3. QED
      BY <1>8, <3>1, <3>2
  <2>2. CASE p <= l /\ q > l
    <3>1. p \in 1 .. l /\ q \in l + 1 .. l + n /\ q - l >= 1 /\ q - l \in Nat
      BY <1>4, <2>2
    <3>2. out'[p] \in Nat /\ out'[p] < b0 /\ out'[q] = b0 + (q - l) - 1
      BY <1>8, <1>9, <3>1
    <3>3. QED
      BY <1>2, <3>1, <3>2
  <2>3. CASE p > l /\ q > l
    <3>1. p \in l + 1 .. l + n /\ q \in l + 1 .. l + n
      BY <1>4, <2>3
    <3>2. out'[p] = b0 + (p - l) - 1 /\ out'[q] = b0 + (q - l) - 1
      BY <1>9, <3>1
    <3>3. QED
      BY <1>2, <1>4, <1>11, <3>2
  <2>4. QED
    BY <1>4, <1>11, <2>1, <2>2, <2>3
<1>12. ASSUME NEW p \in 1 .. l + n
       PROVE  IsKept(out'[p]) /\ out'[p] < mdat.start + offset'
  <2>1. CASE p <= l
    <3>1. p \in 1 .. l
      BY <1>4, <2>1
    <3>2. IsKept(out'[p]) /\ out'[p] \in Nat /\ out'[p] < b0
      BY <1>8, <3>1
    <3>3. QED
      BY <1>1, <1>2, <3>2 DEF b0
  <2>2. CASE p > l
    <3>1. p \in l + 1 .. l + n /\ p - l <= n
      BY <1>4, <2>2
    <3>2. IsKept(out'[p]) /\ out'[p] \in Nat /\ out'[p] = b0 + (p - l) - 1
      BY <1>9, <3>1
    <3>3. out'[p] < b0 + n
      BY <1>2, <1>4, <3>1, <3>2
    <3>4. b0 + n <= mdat.start + offset'
      BY <1>1, <1>2 DEF b0
    <3>5. mdat.start + offset' \in Nat
      BY <1>1, <1>2
    <3>6. QED
      BY <1>2, <3>2, <3>3, <3>4, <3>5
  <2>3. QED
    BY <1>4, <2>1, <2>2
<1>13. ASSUME NEW b \in Nat, IsKept(b), b < mdat.start + offset'
       PROVE  \E p \in 1 .. l + n : out'[p] = b
  <2>1. CASE b < b0
    <3>1. PICK p \in 1 .. l : out[p] = b
      BY <1>1, <1>13, <2>1 DEF Written, l, b0
    <3>2. p \in 1 .. l + n
      BY <1>4
    <3>3. QED
      BY <1>8, <3>1, <3>2
  <2>2. CASE b0 <= b /\ b < b0 + n
    <3> DEFINE p == l + (b - b0 + 1)
    <3>1. p \in l + 1 .. l + n /\ p - l = b - b0 + 1
      BY <1>2, <1>4, <2>2
    <3> HIDE DEF p
    <3>2. out'[p] = b0 + (p - l) - 1
      BY <1>9, <3>1
    <3>n. b0 \in Nat /\ l \in Nat /\ n \in Nat /\ b \in Int
      BY <1>2, <1>4, <1>13
    <3> HIDE DEF l, b0
    <3>3. p - l = b - b0 + 1 /\ p \in 1 .. l + n
      BY <3>n, <3>1
    <3>r. out'[p] = b
      BY <3>n, <3>2, <3>3
    <3>4. QED
      BY <3>3, <3>r DEF l
  <2>3. CASE b >= b0 + n
    <3>m. b \in Nat /\ mdat.start \in Nat /\ offset + n \in Nat /\ offset' \in Nat
      BY <1>1, <1>2, <1>13
    <3>o. mdat.start + (offset + n) <= b /\ b < mdat.start + offset'
      BY <1>1, <1>13, <2>3 DEF b0
    <3>1. b - mdat.start \in offset + n .. offset' - 1
      BY <3>m, <3>o
    <3>2. PICK i \in 1 .. Len(Skips) :
            b - mdat.start \in Skips[i].start .. Skips[i].start + Skips[i].length - 1
      BY <3>1 DEF Appends, NothingKept
    <3>3. ~IsKept(b)
      BY <1>1, <3>2 DEF IsKept, Skips
    <3>4. QED
      BY <1>13, <3>3
  <2>4. QED
    BY <1>2, <2>1, <2>2, <2>3
<1>14. QED
  <2>1. /\ (\A p, q \in 1 .. Len(out') : p < q => out'[p] < out'[q])
        /\ (\A p \in 1 .. Len(out') : IsKept(out'[p]) /\ out'[p] < mdat.start + offset')
        /\ (\A b \in Nat : IsKept(b) /\ b < mdat.start + offset' =>
              \E p \in 1 .. Len(out') : out'[p] = b)
    BY <1>6, <1>11, <1>12, <1>13
  <2>2. QED
    BY <1>3, <1>6, <1>10, <2>1 DEF Written

LEMMA CopyPartWrite == WriteInv /\ CopyPart => WriteInv'
<1> SUFFICES ASSUME WriteInv, CopyPart PROVE WriteInv'
  OBVIOUS
<1> DEFINE n == ToRead
           f == FragmentAt(file, mdat.start + offset, n)
           read == [i \in 1 .. n |-> mdat.start + offset + i - 1]
<1>1. /\ pc = "copy" /\ offset < ContentSize
      /\ file' = f /\ out' = out \o [i \in 1 .. n |-> f.cells[f.off + i - 1]]
      /\ StepOver(offset + n)
      /\ UNCHANGED <<mdat, length, shift, header, pc>>
  BY DEF CopyPart
<1>2. /\ n \in 0 .. BufSize /\ offset + n <= ContentSize
      /\ \A i \in skip .. Len(Skips) : offset + n <= Skips[i].start
  BY <1>1, ToReadFits
<1> HIDE DEF n
<1>3. /\ n \in Nat /\ offset \in Nat /\ offset + n \in Nat /\ offset <= offset + n
  BY <1>2, WindowAssumption DEF WriteInv, Between
<1>4. /\ Good(f)
      /\ \A i \in 1 .. n : f.cells[f.off + i - 1] = mdat.start + offset + i - 1
  BY <1>2, BytesRead
<1> HIDE DEF f
<1>5. out' = out \o read
  <2>1. [i \in 1 .. n |-> f.cells[f.off + i - 1]] = read
    BY <1>4
  <2>2. QED
    BY <1>1, <2>1
<1>6. /\ failed' = FALSE
      /\ offset' \in offset + n .. ContentSize /\ skip' \in 1 .. Len(Skips) + 1
      /\ \A i \in 1 .. skip' - 1 : Skips[i].start + Skips[i].length <= offset'
      /\ \A i \in skip' .. Len(Skips) : offset' <= Skips[i].start
      /\ offset' - Sums[skip' - 1] = (offset + n) - Sums[skip - 1]
      /\ NothingKept(offset + n, offset')
  <2>1. GoesOn(offset + n)
    BY <1>1, <1>2, <1>3, StepOverRight
  <2>2. QED
    BY <2>1 DEF GoesOn
<1>7. Written'
  <2>1. Appends(n)
    BY <1>1, <1>2, <1>5, <1>6 DEF Appends
  <2>2. QED
    BY <1>3, <2>1, AppendedWritten
<1>8. Skips' = Skips /\ ContentSize' = ContentSize /\ Total' = Total
  BY <1>1, SameMdat
<1>9. Between'
  BY <1>1, <1>3, <1>6, <1>8 DEF Between
<1>10. Announced'
  BY <1>1, <1>8 DEF WriteInv, Announced, NewHeaderSize, Needs64bitVersion
<1>11. Good(file)' /\ (mdat \in Mdats)'
  BY <1>1, <1>4 DEF WriteInv, Good, Shows, Follows, Mdats
<1>12. QED
  BY <1>6, <1>7, <1>9, <1>10, <1>11 DEF WriteInv

\* At the content's end no more than an empty sequence is ahead.
LEMMA AllSkipped ==
    ASSUME WriteInv, offset = ContentSize
    PROVE  Sums[skip - 1] = Total
<1>1. /\ MdatRight /\ SumsRight /\ Between /\ ContentSize \in Nat
      /\ skip \in 1 .. Len(Skips) + 1 /\ Len(Skips) \in Nat
  BY MdatFacts DEF WriteInv, Between, MdatRight
<1>2. CASE skip = Len(Skips) + 1
  BY <1>1, <1>2 DEF SumsRight
<1>3. CASE skip <= Len(Skips)
  <2>1. /\ skip \in 1 .. Len(Skips) /\ Skips[skip].start \in Nat /\ Skips[skip].length \in Nat
        /\ Skips[skip].start + Skips[skip].length <= ContentSize
        /\ ContentSize <= Skips[skip].start
    BY <1>1, <1>3 DEF MdatRight, Between
  <2>2. Skips[skip].length = 0 /\ Skips[skip].start = ContentSize
    BY <1>1, <2>1
  <2>3. skip = Len(Skips)
    <3>1. SUFFICES ASSUME skip < Len(Skips) PROVE FALSE
      BY <1>1, <1>3
    <3>2. skip + 1 \in 1 .. Len(Skips) /\ skip < skip + 1
      BY <1>1, <3>1
    <3>3. /\ Skips[skip].start < Skips[skip + 1].start /\ Skips[skip + 1].start \in Nat
          /\ Skips[skip + 1].length \in Nat
          /\ Skips[skip + 1].start + Skips[skip + 1].length <= ContentSize
      BY <1>1, <2>1, <3>2 DEF MdatRight
    <3>4. QED
      BY <1>1, <2>2, <3>3
  <2>4. /\ Sums[skip] = Sums[skip - 1] + Skips[skip].length /\ Sums[skip - 1] \in Nat
        /\ Total = Sums[skip]
    <3>1. skip - 1 \in 0 .. Len(Skips)
      BY <1>1, <2>1
    <3>2. QED
      BY <1>1, <2>1, <2>3, <3>1 DEF SumsRight
  <2>5. QED
    BY <2>2, <2>4
<1>4. QED
  BY <1>1, <1>2, <1>3

\* The assertion at the end: the loop stops at the content's end, with no more than an empty
\* sequence ahead, and what was written is as long as the header says.
LEMMA FinishWrite == WriteInv /\ Finish => WriteInv'
<1> SUFFICES ASSUME WriteInv, Finish PROVE WriteInv'
  OBVIOUS
<1>1. /\ pc = "copy" /\ offset >= ContentSize /\ pc' = "done"
      /\ failed' = (header.size + Len(out) # header.new_length)
      /\ UNCHANGED <<mdat, length, file, shift, header, offset, skip, out>>
  BY DEF Finish
<1>2. /\ MdatRight /\ SumsRight /\ Between /\ ContentSize \in Nat /\ offset \in 0 .. ContentSize
      /\ skip \in 1 .. Len(Skips) + 1 /\ Len(Skips) \in Nat
  BY MdatFacts DEF WriteInv, Between, MdatRight
<1>3. offset = ContentSize
  BY <1>1, <1>2
<1>4. Sums[skip - 1] = Total
  BY <1>3, AllSkipped
<1>5. failed' = FALSE
  <2>1. header.new_length = header.size + ContentSize - Total /\ header.size = NewHeaderSize
    BY <1>1 DEF WriteInv, Announced
  <2>2. Len(out) = ContentSize - Total
    BY <1>3, <1>4 DEF WriteInv, Written
  <2>3. header.size \in Nat /\ Total \in Nat
    BY <1>2, <2>1, NewHeaderSizeType DEF SumsRight
  <2>4. header.size + Len(out) = header.new_length
    BY <1>2, <2>1, <2>2, <2>3
  <2>5. QED
    BY <1>1, <2>4
<1>6. Announced'
  <2>1. ContentSize' = ContentSize /\ Total' = Total
    BY <1>1, SameMdat
  <2>2. QED
    BY <1>1, <2>1 DEF WriteInv, Announced, NewHeaderSize, Needs64bitVersion
<1>7. QED
  BY <1>1, <1>3, <1>5, <1>6, SameLoop

LEMMA StutterWrite == WriteInv /\ UNCHANGED vars => WriteInv'
<1> SUFFICES ASSUME WriteInv, UNCHANGED vars PROVE WriteInv'
  OBVIOUS
<1>1. UNCHANGED <<mdat, length, file, shift, header, offset, skip, out, pc, failed>>
  BY DEF vars
<1>2. Announced'
  <2>1. ContentSize' = ContentSize /\ Total' = Total
    BY <1>1, SameMdat
  <2>2. QED
    BY <1>1, <2>1 DEF WriteInv, Announced, NewHeaderSize, Needs64bitVersion
<1>3. QED
  BY <1>1, <1>2, SameLoop DEF WriteInv, Between

LEMMA WriteInvariant == Spec => []WriteInv
<1>1. Init => WriteInv
  BY InitWrite
<1>2. WriteInv /\ [Next]_vars => WriteInv'
  BY UpdateLengthWrite, FixOffsetsWrite, WriteHeaderWrite, CopyPartWrite, FinishWrite, StutterWrite
     DEF Next
<1>3. QED
  BY <1>1, <1>2, PTL DEF Spec

-----------------------------------------------------------------------------
(* What the invariant shows                                                *)

\* The loop stays in the content and in the list of exclusions, and the window in its type.
THEOREM TypeCorrect == Spec => []TypeOK
<1>1. WriteInv => TypeOK
  BY DEF WriteInv, Announced, Between, Good, TypeOK, Skips
<1>2. QED
  BY <1>1, WriteInvariant, PTL

\* No list of exclusions that the scan leaves makes write abort, and what it writes is as
\* long as the header says.
THEOREM NeverAborts == Spec => []NoAssertionFails
<1>1. WriteInv => NoAssertionFails
  BY DEF WriteInv, NoAssertionFails
<1>2. QED
  BY <1>1, WriteInvariant, PTL

\* At the end every kept byte is behind the loop.
LEMMA AllKeptWritten ==
    ASSUME WriteInv, pc = "done"
    PROVE  /\ out \in Seq(Nat) /\ DOMAIN out = 1 .. Len(out) /\ Len(out) \in Nat
           /\ \A p, q \in 1 .. Len(out) : p < q => out[p] < out[q]
           /\ \A p \in 1 .. Len(out) : out[p] \in KeptBytes
           /\ \A b \in KeptBytes : \E p \in 1 .. Len(out) : out[p] = b
<1>1. /\ mdat.start \in Nat /\ ContentSize \in Nat /\ mdat.file_end = mdat.start + ContentSize
      /\ mdat.file_end <= Length /\ offset = ContentSize /\ Length \in Nat
  BY MdatFacts, WindowAssumption DEF WriteInv, Between, MdatRight
<1>2. /\ out \in Seq(Nat) /\ DOMAIN out = 1 .. Len(out) /\ Len(out) \in Nat
      /\ \A p, q \in 1 .. Len(out) : p < q => out[p] < out[q]
  BY DEF WriteInv, Written
<1>3. ASSUME NEW p \in 1 .. Len(out) PROVE out[p] \in KeptBytes
  <2>1. IsKept(out[p]) /\ out[p] \in Nat /\ out[p] < mdat.start + offset
    BY <1>2 DEF WriteInv, Written
  <2>2. out[p] \in 0 .. Length - 1
    BY <1>1, <2>1
  <2>3. QED
    BY <2>1, <2>2 DEF KeptBytes
<1>4. ASSUME NEW b \in KeptBytes PROVE \E p \in 1 .. Len(out) : out[p] = b
  <2>1. IsKept(b) /\ b \in Nat
    BY <1>1 DEF KeptBytes
  <2>2. b < mdat.start + offset
    BY <1>1, <2>1 DEF IsKept
  <2>3. QED
    BY <2>1, <2>2 DEF WriteInv, Written
<1>5. QED
  BY <1>2, <1>3, <1>4

\* The repaired media data are the broken file's bytes that are not excluded, in their order.
THEOREM KeptIsWritten == Spec => []WritesWhatIsKept
<1>1. WriteInv => WritesWhatIsKept
  BY AllKeptWritten DEF WritesWhatIsKept
<1>2. QED
  BY <1>1, WriteInvariant, PTL

\* As many kept bytes are before the p-th byte written as were written before it.
LEMMA KeptBefore ==
    ASSUME WriteInv, pc = "done", NEW p \in 1 .. Len(out)
    PROVE  Cardinality({c \in 0 .. out[p] - 1 : IsKept(c)}) = p - 1
<1> DEFINE before == {c \in 0 .. out[p] - 1 : IsKept(c)}
           f == [q \in 1 .. p - 1 |-> out[q]]
<1>1. /\ Len(out) \in Nat /\ \A q \in 1 .. Len(out) : out[q] \in Nat
      /\ \A q, r \in 1 .. Len(out) : q < r => out[q] < out[r]
  BY AllKeptWritten
<1>2. \A q \in 1 .. p - 1 : q \in 1 .. Len(out) /\ q < p
  BY <1>1
<1>3. ASSUME NEW q \in 1 .. p - 1 PROVE out[q] \in before
  <2>1. out[q] \in KeptBytes /\ out[q] < out[p] /\ out[q] \in Nat /\ out[p] \in Nat
    BY <1>1, <1>2, AllKeptWritten
  <2>2. QED
    BY <2>1 DEF KeptBytes
<1>4. ASSUME NEW c \in before PROVE \E q \in 1 .. p - 1 : out[q] = c
  <2>1. c \in Nat /\ c < out[p] /\ IsKept(c)
    BY <1>1
  <2>2. c \in KeptBytes
    <3>1. mdat.start \in Nat /\ mdat.file_end \in Nat /\ mdat.file_end <= Length /\ Length \in Nat
      BY MdatFacts, WindowAssumption DEF WriteInv, MdatRight
    <3>2. c \in 0 .. Length - 1
      BY <2>1, <3>1 DEF IsKept
    <3>3. QED
      BY <2>1, <3>2 DEF KeptBytes
  <2>3. PICK q \in 1 .. Len(out) : out[q] = c
    BY <2>2, AllKeptWritten
  <2>4. q < p
    <3>1. q = p \/ p < q => FALSE
      BY <1>1, <2>1, <2>3
    <3>2. QED
      BY <1>1, <3>1
  <2>5. QED
    BY <1>1, <2>3, <2>4
<1>5. f \in Bijection(1 .. p - 1, before)
  <2>1. f \in [1 .. p - 1 -> before]
    BY <1>3
  <2>2. ASSUME NEW q \in 1 .. p - 1, NEW r \in 1 .. p - 1, f[q] = f[r] PROVE q = r
    <3>1. out[q] = out[r] /\ out[q] \in Nat
      BY <1>1, <1>2, <2>2
    <3>2. ~(q < r) /\ ~(r < q)
      BY <1>1, <1>2, <3>1
    <3>3. QED
      BY <3>2
  <2>3. \A c \in before : \E q \in 1 .. p - 1 : f[q] = c
    BY <1>4
  <2> HIDE DEF f, before
  <2>4. QED
    BY <2>1, <2>2, <2>3 DEF Bijection, Injection, Surjection, IsInjective
<1> HIDE DEF f, before
<1>6. IsFiniteSet(1 .. p - 1) /\ Cardinality(1 .. p - 1) = p - 1
  <2>1. p - 1 \in Int /\ 1 \in Int /\ p - 1 >= 0
    OBVIOUS
  <2>2. /\ IsFiniteSet(1 .. p - 1)
        /\ Cardinality(1 .. p - 1) = IF 1 > p - 1 THEN 0 ELSE (p - 1) - 1 + 1
    BY <2>1, FS_Interval
  <2>3. QED
    BY <2>1, <2>2
<1>7. Cardinality(before) = p - 1
  BY <1>5, <1>6, FS_Bijection DEF ExistsBijection
<1>8. QED
  BY <1>7 DEF before

\* The header states what is behind it, as far as four bytes can.
LEMMA HeaderStates ==
    ASSUME WriteInv, pc = "done"
    PROVE  /\ header.size = NewHeaderSize /\ header.size \in {8, 16}
           /\ header.new_length = header.size + Len(out) /\ Len(out) \in Nat
           /\ header.size = 16 => header.stated = 1
           /\ header.size = 8 => /\ header.new_length <= Limit
                                 /\ header.stated = header.new_length % Limit
<1>1. /\ header.size = NewHeaderSize /\ length = 8 + ContentSize
      /\ header.new_length = header.size + ContentSize - Total
      /\ header.stated = IF Needs64bitVersion THEN 1 ELSE header.new_length % Limit
      /\ offset = ContentSize
  BY DEF WriteInv, Announced, Between
<1>2. ContentSize \in Nat /\ Total \in Nat /\ Limit \in Nat
  BY MdatFacts, WriteAssumption DEF WriteInv, MdatRight, SumsRight
<1>3. Len(out) = ContentSize - Total /\ Len(out) \in Nat
  BY <1>1, AllSkipped, AllKeptWritten DEF WriteInv, Written
<1>4. header.size \in {8, 16} /\ header.new_length = header.size + Len(out)
  BY <1>1, <1>2, <1>3, NewHeaderSizeType
<1>5. header.size = 16 => header.stated = 1
  BY <1>1, NewHeaderSizeType
<1>6. ASSUME header.size = 8
      PROVE  header.new_length <= Limit /\ header.stated = header.new_length % Limit
  <2>1. ~Needs64bitVersion
    BY <1>1, <1>6, NewHeaderSizeType
  <2>2. ~(length - Total > Limit)
    BY <2>1 DEF Needs64bitVersion
  <2>3. header.new_length = length - Total /\ length - Total \in Int
    BY <1>1, <1>2, <1>6
  <2>4. QED
    BY <1>1, <1>2, <2>1, <2>2, <2>3
<1>7. QED
  BY <1>1, <1>3, <1>4, <1>5, <1>6

LEMMA ModSmall ==
    ASSUME NEW n \in Nat \ {0}, NEW x \in 0 .. n
    PROVE  x % n = IF x = n THEN 0 ELSE x
OBVIOUS

\* Who parses the repaired file finds the end of its mdat where it is.
LEMMA EndFound == WriteInv => EndIsFound
<1> SUFFICES ASSUME WriteInv, pc = "done"
             PROVE  \/ header.size = 16 /\ header.stated = 1
                    \/ header.stated = 0
                    \/ header.stated > 1 /\ header.stated = header.size + Len(out)
  BY DEF EndIsFound
<1>1. CASE header.size = 16
  BY <1>1, HeaderStates
<1>2. CASE header.size = 8
  <2>1. /\ header.new_length = 8 + Len(out) /\ Len(out) \in Nat /\ header.new_length <= Limit
        /\ header.stated = header.new_length % Limit
    BY <1>2, HeaderStates
  <2>2. Limit \in Nat \ {0} /\ header.new_length \in 0 .. Limit
    BY <2>1, WriteAssumption
  <2>3. header.stated = IF header.new_length = Limit THEN 0 ELSE header.new_length
    BY <2>1, <2>2, ModSmall
  <2>4. QED
    BY <1>2, <2>1, <2>3
<1>3. QED
  BY <1>1, <1>2, HeaderStates

\* A chunk offset, as the table holds it, leads to the byte it was computed for: the header
\* counted ahead is the one written, as many bytes stand before a kept byte as are kept
\* before it, and the table is wide enough when the repaired file is no longer than the
\* broken one.
THEOREM OffsetsAreRight == Spec => []OffsetsLeadToBytes
<1>1. ASSUME WriteInv, pc = "done", NEW b \in KeptBytes
      PROVE  \E p \in DOMAIN out :
               /\ out[p] = b
               /\ Front + header.size + p - 1 = NewOffset(b)
               /\ Front + header.size + Len(out) <= Length => Stored(NewOffset(b)) = NewOffset(b)
  <2>1. PICK p \in 1 .. Len(out) : out[p] = b
    BY <1>1, AllKeptWritten
  <2>2. p \in DOMAIN out /\ Len(out) \in Nat
    BY <1>1, AllKeptWritten
  <2>3. header.size \in {8, 16} /\ shift = Front + header.size
    BY <1>1, HeaderStates DEF WriteInv, Announced
  <2>4. Front \in Nat /\ Length \in Nat /\ Limit \in Nat \ {0}
    BY WriteAssumption, WindowAssumption
  <2>5. NewOffset(b) = shift + (p - 1)
    <3>1. Cardinality({c \in 0 .. out[p] - 1 : IsKept(c)}) = p - 1
      BY <1>1, KeptBefore
    <3>2. Cardinality({c \in 0 .. b - 1 : IsKept(c)}) = p - 1
      BY <2>1, <3>1
    <3>3. QED
      BY <3>2 DEF NewOffset
  <2>6. Front + header.size + p - 1 = NewOffset(b)
    BY <2>2, <2>3, <2>4, <2>5
  <2>7. ASSUME Front + header.size + Len(out) <= Length
        PROVE  Stored(NewOffset(b)) = NewOffset(b)
    <3>1. CASE Length > Limit
      BY <3>1 DEF Stored, HasWideOffsets
    <3>2. CASE ~(Length > Limit)
      <4>1. header.size \in Nat /\ p \in Nat \ {0} /\ p <= Len(out)
        BY <2>2, <2>3
      <4>2. NewOffset(b) = Front + header.size + p - 1
        BY <2>6
      <4>3. NewOffset(b) \in 0 .. Limit /\ NewOffset(b) # Limit
        BY <2>2, <2>4, <2>7, <3>2, <4>1, <4>2
      <4>4. NewOffset(b) % Limit = NewOffset(b)
        BY <2>4, <4>3, ModSmall
      <4>5. QED
        BY <3>2, <4>4 DEF Stored, HasWideOffsets
    <3>3. QED
      BY <3>1, <3>2
  <2>8. QED
    BY <2>1, <2>2, <2>6, <2>7
<1>2. WriteInv => OffsetsLeadToBytes
  BY <1>1, EndFound DEF OffsetsLeadToBytes
<1>3. QED
  BY <1>2, WriteInvariant, PTL

=============================================================================
