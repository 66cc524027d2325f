---------------------------- MODULE OutcomeProofs ----------------------------
(***************************************************************************)
(* What the scan leaves, for every content and every reference that is     *)
(* Orderly: its list of exclusions is one that BufferedAtom::write accepts,*)
(* and the length written ahead of it is right; without -s nothing but     *)
(* frames stays.  If the reference is Steady as well, no assertion of the  *)
(* scan fails.  If it is Sampled, the sample tables lead to each sample's  *)
(* own bytes in the repaired mdat.                                         *)
(***************************************************************************)
EXTENDS RepairScanProofs

-----------------------------------------------------------------------------
(***************************************************************************)
(* The invariant.  That two sequences never begin at the same place is not *)
(* inductive by itself: an empty one could be followed by another.  So:    *)
(* the only empty one is a frame's padding that is cut at the content's    *)
(* end, and the scan then stands there and excludes nothing more; and what *)
(* chkOffset has skipped reaches beyond all that was excluded meanwhile.   *)
(***************************************************************************)
Accepts(w, f) ==
    /\ \A i, j \in DOMAIN w.excluded : i < j => w.excluded[i].start < w.excluded[j].start
    /\ \A i \in DOMAIN w.excluded :
         w.excluded[i].length > 0 \/ (w.excluded[i].start = Size /\ f >= Size)

EndsBy(w, f) == \A i \in DOMAIN w.excluded : w.excluded[i].start + w.excluded[i].length <= f
EndsBefore(w, f) == \A i \in DOMAIN w.excluded : w.excluded[i].start + w.excluded[i].length < f

SkippedPast == pc = "skip" /\ offset > from => EndsBefore(st, offset) /\ EndsBefore(st, Size)

\* Only a premature end moves the end of the content, to where the scan stands.
EndOfContent == st.content_size = Size \/ (pc = "done" /\ st.content_size = offset)

\* What the steps below show of their successor, with RangeNext.
ListInv == Accepts(st, Reached) /\ SkippedPast /\ EndOfContent

-----------------------------------------------------------------------------
(* One more exclusion                                                      *)

LEMMA AcceptsMonotone ==
    ASSUME NEW w, NEW f \in Int, NEW g \in Int, f <= g, Accepts(w, f)
    PROVE  Accepts(w, g)
<1>1. Size \in Int
  BY SizeAssumption
<1>2. QED
  BY <1>1 DEF Accepts

LEMMA AcceptsSame ==
    ASSUME NEW w, NEW x, SameExclusions(w, x)
    PROVE  /\ \A f : Accepts(w, f) => Accepts(x, f)
           /\ \A f : EndsBefore(w, f) => EndsBefore(x, f)
BY DEF SameExclusions, Accepts, EndsBefore

\* Nothing empty was excluded yet, where all ends before the content does.
LEMMA AcceptsShort ==
    ASSUME NEW w \in StateType, NEW f \in Int, NEW g \in Int, Accepts(w, f),
           ExclusionsApart(w), EndsBefore(w, Size)
    PROVE  Accepts(w, g)
<1>1. Size \in Int
  BY SizeAssumption
<1>2. ASSUME NEW i \in DOMAIN w.excluded
      PROVE  w.excluded[i].length > 0
  <2>1. w.excluded[i].start \in Int /\ w.excluded[i].length \in Int
    BY ExcludedType
  <2>2. /\ w.excluded[i].length > 0 \/ w.excluded[i].start = Size
        /\ w.excluded[i].start + w.excluded[i].length < Size
    BY DEF Accepts, EndsBefore
  <2>3. w.excluded[i].length >= 0
    BY DEF ExclusionsApart
  <2>4. QED
    BY <1>1, <2>1, <2>2, <2>3
<1>3. QED
  BY <1>2 DEF Accepts

LEMMA AddToExcludeAccepts ==
    ASSUME NEW w \in StateType, NEW f \in Nat, EndsBy(w, f), Accepts(w, f), f < Size,
           NEW start \in Nat, NEW length \in Nat \ {0}, f <= start, start <= Size
    PROVE  Accepts(AddToExclude(w, start, length), start + length)
<1> DEFINE x == AddToExclude(w, start, length)
           kept == IF start + length > Size THEN Size - start ELSE length
           n == Len(w.excluded)
<1>1. Size \in Nat /\ kept \in Nat /\ (kept > 0 \/ (start = Size /\ start + length >= Size))
  BY SizeAssumption
<1>2. CASE job.dont_exclude
  <2>1. x = w
    BY <1>2 DEF AddToExclude
  <2>2. start + length \in Int /\ f <= start + length /\ f \in Int
    OBVIOUS
  <2>3. QED
    BY <2>1, <2>2, AcceptsMonotone
<1>3. CASE ~job.dont_exclude
  <2>1. x.excluded = Append(w.excluded, [start |-> start, length |-> kept])
    BY <1>3 DEF AddToExclude, Assertt, StateType
  <2> HIDE DEF x, kept
  <2>2. Excludes(w, x, start, kept)
    <3>1. start \in Int /\ kept \in Int
      BY <1>1
    <3>2. QED
      BY <2>1, <3>1, AppendExcludes
  <2>3. n \in Nat /\ DOMAIN w.excluded = 1 .. n
    BY ExcludedType
  <2>4. /\ DOMAIN x.excluded = 1 .. n + 1
        /\ \A i \in 1 .. n : x.excluded[i] = w.excluded[i]
        /\ x.excluded[n + 1].start = start
        /\ x.excluded[n + 1].length = kept
    BY <2>2 DEF Excludes
  <2> HIDE DEF n
  <2>5. ASSUME NEW i \in 1 .. n
        PROVE  x.excluded[i].length > 0 /\ x.excluded[i].start < start
    <3>1. w.excluded[i].start \in Int /\ w.excluded[i].length \in Int
      BY <2>3, ExcludedType
    <3>2. w.excluded[i].start + w.excluded[i].length <= f
      BY <2>3, Zenon DEF EndsBy
    <3>3. w.excluded[i].length > 0 \/ f >= Size
      BY <2>3, Zenon DEF Accepts
    <3>4. QED
      BY <1>1, <2>4, <3>1, <3>2, <3>3
  <2>6. ASSUME NEW i \in 1 .. n, NEW j \in 1 .. n, i < j
        PROVE  x.excluded[i].start < x.excluded[j].start
    <3>1. w.excluded[i].start < w.excluded[j].start
      BY <2>3, <2>6, Zenon DEF Accepts
    <3>2. QED
      BY <2>4, <3>1
  <2>7. ASSUME NEW i \in 1 .. n + 1, NEW j \in 1 .. n + 1, i < j
        PROVE  x.excluded[i].start < x.excluded[j].start
    <3>1. i \in 1 .. n /\ (j = n + 1 \/ j \in 1 .. n)
      BY <2>3, <2>7
    <3>2. QED
      BY <2>4, <2>5, <2>6, <2>7, <3>1
  <2>8. ASSUME NEW i \in 1 .. n + 1
        PROVE  x.excluded[i].length > 0 \/ (x.excluded[i].start = Size /\ start + length >= Size)
    <3>1. i = n + 1 \/ i \in 1 .. n
      BY <2>3
    <3>2. QED
      BY <1>1, <2>4, <2>5, <3>1
  <2>9. QED
    BY <2>4, <2>7, <2>8 DEF Accepts, x
<1>4. QED
  BY <1>2, <1>3

LEMMA AddUnknownSequenceAccepts ==
    ASSUME NEW w \in StateType, NEW f \in Nat, EndsBy(w, f), Accepts(w, f), f < Size,
           NEW start \in Nat, NEW length \in Nat \ {0}, f <= start, start <= Size
    PROVE  Accepts(AddUnknownSequence(w, start, length), start + length)
<1> DEFINE y == AddToExclude(w, start, length)
           x == AddUnknownSequence(w, start, length)
<1>1. Assertt(w, length # 0, "addUnknownSequence") = w
  BY DEF Assertt
<1>2. Accepts(y, start + length)
  BY AddToExcludeAccepts
<1>3. y \in StateType
  BY AddToExcludeType
<1>4. x = [y EXCEPT !.unknown_sequences = Append(@, [start |-> start, length |-> length])]
  BY <1>1 DEF AddUnknownSequence
<1> HIDE DEF x, y
<1>5. SameExclusions(y, x)
  BY <1>3, <1>4 DEF StateType, SameExclusions
<1>6. QED
  BY <1>2, <1>5, AcceptsSame DEF x

LEMMA ChkEndedAccepts ==
    ASSUME NEW w \in StateType, NEW off \in Nat, w.unknown_length <= off,
           EndsBy(w, off - w.unknown_length), Accepts(w, off - w.unknown_length),
           w.unknown_length > 0 => off - w.unknown_length < Size
    PROVE  Accepts(ChkUnknownSequenceEnded(w, off), off)
<1> DEFINE f == off - w.unknown_length
           y == AddUnknownSequence(w, f, w.unknown_length)
           x == ChkUnknownSequenceEnded(w, off)
<1>1. w.unknown_length \in Nat /\ f \in Nat /\ f + w.unknown_length = off /\ Size \in Nat
  BY SizeAssumption DEF StateType
<1>2. CASE w.unknown_length = 0
  <2>1. x = w /\ f = off
    BY <1>2 DEF ChkUnknownSequenceEnded
  <2>2. QED
    BY <2>1
<1>3. CASE w.unknown_length # 0
  <2>1. f < Size /\ f <= f /\ f <= Size /\ w.unknown_length \in Nat \ {0}
    BY <1>1, <1>3
  <2>2. Accepts(y, f + w.unknown_length)
    <3> HIDE DEF f
    <3>1. QED
      BY <1>1, <2>1, AddUnknownSequenceAccepts DEF f
  <2>3. y \in StateType
    BY <1>1, <2>1, AddUnknownSequenceType
  <2>4. x = [y EXCEPT !.unknown_length = 0]
    BY <1>3 DEF ChkUnknownSequenceEnded
  <2> HIDE DEF x, y, f
  <2>5. SameExclusions(y, x)
    BY <2>3, <2>4 DEF StateType, SameExclusions
  <2>6. QED
    BY <1>1, <2>2, <2>5, AcceptsSame DEF x
<1>4. QED
  BY <1>2, <1>3

\* What advanceOffset skipped is more than nothing and begins in the content.
LEMMA AfterAdvanceAccepts ==
    ASSUME NEW w \in StateType, Book(w), offset \in Nat, from \in Nat,
           Accepts(w, offset - w.unknown_length),
           offset > from => /\ from < Size
                            /\ EndsBefore(w, offset) /\ EndsBefore(w, Size)
    PROVE  Accepts(AfterAdvance(w), offset - w.unknown_length)
<1> DEFINE end == ExcludedEnd(w)
           first == IF end > from THEN end ELSE from
           ok == Assertt(w, offset >= first, "chkExcludeOverlap")
           x == AddToExclude(w, first, offset - first)
<1>1. CASE ~(offset > from /\ w.unknown_length = 0)
  BY <1>1 DEF AfterAdvance
<1>2. CASE offset > from /\ w.unknown_length = 0
  <2>1. AfterAdvance(w) = AddToExclude(ok, first, offset - first)
    BY <1>2 DEF AfterAdvance, ExcludeSkipped
  <2>2. /\ end \in Nat /\ end <= Size /\ Size \in Nat \ {0}
        /\ \A i \in DOMAIN w.excluded : w.excluded[i].start + w.excluded[i].length <= end
    BY ExcludedEndRange, SizeAssumption DEF Book
  <2>3. end < offset /\ end < Size
    <3>1. CASE w.excluded = <<>>
      BY <1>2, <2>2, <3>1 DEF ExcludedEnd
    <3>2. CASE w.excluded # <<>>
      <4>1. /\ w.excluded \in Seq([start : Int, length : Int])
            /\ DOMAIN w.excluded = 1 .. Len(w.excluded) /\ Len(w.excluded) \in Nat
        BY ExcludedType
      <4>2. Len(w.excluded) \in DOMAIN w.excluded
        BY <3>2, <4>1
      <4>3. end = w.excluded[Len(w.excluded)].start + w.excluded[Len(w.excluded)].length
        BY <3>2 DEF ExcludedEnd
      <4>4. QED
        BY <1>2, <4>2, <4>3 DEF EndsBefore
    <3>3. QED
      BY <3>1, <3>2
  <2>4. /\ first \in Nat /\ first < Size /\ first < offset
        /\ end <= first /\ from <= first
    BY <1>2, <2>2, <2>3
  <2>5. ok = w
    BY <2>4 DEF Assertt
  <2> HIDE DEF end, first, ok
  <2>6. EndsBy(w, first)
    <3> SUFFICES ASSUME NEW i \in DOMAIN w.excluded
                 PROVE  w.excluded[i].start + w.excluded[i].length <= first
      BY DEF EndsBy
    <3>1. w.excluded[i].start \in Int /\ w.excluded[i].length \in Int
      BY ExcludedType
    <3>2. QED
      BY <2>2, <2>4, <3>1
  <2>7. Accepts(w, first)
    <3>1. offset - w.unknown_length \in Int /\ first \in Int
      BY <1>2, <2>4
    <3>2. QED
      BY <1>2, <3>1, AcceptsShort DEF Book
  <2>8. /\ offset - first \in Nat \ {0} /\ first + (offset - first) = offset
        /\ first <= first /\ first <= Size
    BY <2>2, <2>4
  <2>9. Accepts(x, first + (offset - first))
    BY <2>4, <2>6, <2>7, <2>8, AddToExcludeAccepts
  <2>10. offset - w.unknown_length = offset
    BY <1>2
  <2>11. QED
    BY <2>1, <2>5, <2>8, <2>9, <2>10
<1>3. QED
  BY <1>1, <1>2

-----------------------------------------------------------------------------
(* A match and a predicted chunk                                           *)

LEMMA AddMatchAccepts ==
    ASSUME NEW w \in StateType, job \in Jobs, NEW off \in Nat, NEW m,
           m.track \in Tracks, m.length \in Nat, m.pad \in Nat, off < Size,
           m.pad # 0 => off + m.length <= Size,
           FreeEmpty(w), Book(w), w.unknown_length <= off, Behind(w, off - w.unknown_length),
           Accepts(w, off - w.unknown_length),
           w.unknown_length > 0 => off - w.unknown_length < Size
    PROVE  Accepts(AddMatch(w, off, m), off + m.length + m.pad)
<1> DEFINE chk == ChkUnknownSequenceEnded(w, off)
           chunk == ChunkForMatch(w, m.track, off)
           added == AddFrames(chunk, m.track, off, 1, m.length)
           counted == [added EXCEPT !.current[m.track].n = @ + 1]
           padded == AddToExclude(counted, off + m.length, m.pad)
           done == [padded EXCEPT !.done_padding = TRUE]
           end == off + m.length
<1>1. /\ m.track \in AllTracks /\ end \in Nat /\ off <= end /\ 1 \in Nat /\ Size \in Nat
      /\ off \in Int /\ end \in Int
  BY SizeAssumption DEF AllTracks
<1>2. chk \in StateType /\ Accepts(chk, off) /\ EndsBy(chk, off)
  <2>1. EndsBy(w, off - w.unknown_length)
    BY DEF Behind, EndsBy
  <2>2. w.unknown_length > 0 => off - w.unknown_length <= Size
    <3>1. w.unknown_length \in Nat
      BY DEF StateType
    <3>2. QED
      BY <1>1, <3>1
  <2>3. Behind(chk, off)
    BY <2>2, ChkEndedRange
  <2>4. QED
    BY <2>1, <2>3, ChkUnknownSequenceEndedType, ChkEndedAccepts DEF Behind, EndsBy
<1>3. chunk \in StateType /\ SameExclusions(chk, chunk)
  BY ChunkForMatchType, ChunkForMatchBookkeeping
<1>4. AddMatch(w, off, m) = IF m.pad = 0 THEN counted ELSE done
  BY Zenon DEF AddMatch
<1> HIDE DEF chk, chunk, end
<1>5. added \in StateType /\ SameExclusions(chk, added)
  <2>1. added \in StateType
    BY <1>1, <1>3, AddFramesType, Zenon
  <2>2. QED
    BY <1>1, <1>3, <2>1, AddFramesScan DEF SameExclusions
<1> HIDE DEF added
<1>6. counted \in StateType /\ SameExclusions(chk, counted)
  <2>1. added.current \in [AllTracks -> ChunkRecord]
    BY <1>5 DEF StateType
  <2>2. [added.current EXCEPT ![m.track].n = @ + 1] \in [AllTracks -> ChunkRecord]
    BY <1>1, <2>1 DEF ChunkRecord
  <2>3. QED
    BY <1>5, <2>2 DEF StateType, SameExclusions
<1> HIDE DEF counted
<1>7. Accepts(counted, off) /\ EndsBy(counted, off)
  BY <1>2, <1>6, AcceptsSame DEF SameExclusions, EndsBy
<1>8. CASE m.pad = 0
  <2>1. Accepts(counted, end)
    BY <1>1, <1>7, AcceptsMonotone
  <2>2. end = off + m.length + m.pad
    BY <1>8 DEF end
  <2>3. QED
    BY <1>4, <1>8, <2>1, <2>2
<1>9. CASE m.pad # 0
  <2>1. /\ m.pad \in Nat \ {0} /\ end <= Size /\ off <= end
        /\ end + m.pad = off + m.length + m.pad
    BY <1>1, <1>9 DEF end
  <2>2. padded = AddToExclude(counted, end, m.pad)
    BY DEF end
  <2>3. Accepts(padded, end + m.pad)
    BY <1>1, <1>6, <1>7, <2>1, <2>2, AddToExcludeAccepts
  <2>4. padded \in StateType
    BY <1>1, <1>6, <2>2, AddToExcludeType
  <2> HIDE DEF padded
  <2>5. SameExclusions(padded, done)
    BY <2>4 DEF StateType, SameExclusions
  <2> HIDE DEF done
  <2>6. Accepts(done, end + m.pad)
    BY <2>3, <2>5, AcceptsSame
  <2>7. QED
    BY <1>4, <1>9, <2>1, <2>6
<1>10. QED
  BY <1>8, <1>9

LEMMA AddPredictedAccepts ==
    ASSUME NEW w \in StateType, job \in Jobs, NEW off \in Nat, NEW c, GoodChunk(c, off),
           c.track # Free,
           FreeEmpty(w), Book(w), w.unknown_length <= off, Behind(w, off - w.unknown_length),
           Accepts(w, off - w.unknown_length),
           w.unknown_length > 0 => off - w.unknown_length < Size
    PROVE  Accepts(AddPredicted(w, off, c), off + c.size)
<1> DEFINE chk == ChkUnknownSequenceEnded(w, off)
           ended == IF w.unknown_length = 0 THEN w ELSE CorrectChunkIdx(chk, c.track)
           started == OnNewChunkStarted(ended, c.track)
           filled == [started EXCEPT !.current[c.track] =
                         [off |-> off, already_excluded |-> started.total_excluded,
                          size |-> c.size, n |-> c.n]]
           x == AddFrames(filled, c.track, off, c.n, c.sample)
<1>1. /\ c.track \in AllTracks /\ c.size \in Nat /\ c.n \in Nat /\ c.sample \in Nat
  BY DEF GoodChunk, AllTracks
<1>2. chk \in StateType /\ FreeEmpty(chk) /\ (w.unknown_length = 0 => chk = w)
  BY ChkUnknownSequenceEndedType, ChkEndedScan DEF ChkUnknownSequenceEnded, FreeEmpty
<1>3. Accepts(chk, off)
  <2>1. EndsBy(w, off - w.unknown_length)
    BY DEF Behind, EndsBy
  <2>2. QED
    BY <2>1, ChkEndedAccepts
<1>4. AddPredicted(w, off, c) = x
  BY Zenon DEF AddPredicted
<1> HIDE DEF chk
<1>5. ended \in StateType /\ Bookkeeping(chk, ended)
  <2>1. Bookkeeping(chk, chk)
    BY DEF Bookkeeping, SameScan, SameExclusions
  <2>2. CorrectChunkIdx(chk, c.track) \in StateType
          /\ Bookkeeping(chk, CorrectChunkIdx(chk, c.track))
    BY <1>2, CorrectChunkIdxType, CorrectBookkeeping
  <2>3. QED
    BY <1>2, <2>1, <2>2
<1> HIDE DEF ended
<1>6. started \in StateType /\ Bookkeeping(chk, started)
  <2>1. started \in StateType /\ Bookkeeping(ended, started)
    BY <1>5, OnNewChunkStartedType, OnNewBookkeeping
  <2>2. QED
    BY <1>5, <2>1, BookkeepingTrans
<1> HIDE DEF started
<1>7. filled \in StateType /\ SameExclusions(started, filled)
  <2>1. started.current \in [AllTracks -> ChunkRecord] /\ started.total_excluded \in Int
    BY <1>6 DEF StateType
  <2>2. [off |-> off, already_excluded |-> started.total_excluded,
         size |-> c.size, n |-> c.n] \in ChunkRecord
    BY <1>1, <2>1 DEF ChunkRecord
  <2>3. QED
    BY <1>1, <1>6, <2>1, <2>2 DEF StateType, SameExclusions
<1> HIDE DEF filled
<1>8. SameExclusions(chk, x)
  BY <1>1, <1>2, <1>6, <1>7, AddFramesScan DEF Bookkeeping, SameExclusions
<1>9. Accepts(x, off)
  BY <1>3, <1>8, AcceptsSame
<1>10. off \in Int /\ off + c.size \in Int /\ off <= off + c.size
  BY <1>1
<1> HIDE DEF x
<1>11. QED
  BY <1>4, <1>9, <1>10, AcceptsMonotone

-----------------------------------------------------------------------------
(* The invariant holds                                                     *)

LEMMA ListInit ==
    ASSUME Init PROVE ListInv
<1>1. /\ st.excluded = <<>> /\ st.content_size = Size /\ pc = "start"
  BY DEF Init, InitState
<1>2. DOMAIN st.excluded = {}
  BY <1>1
<1>3. QED
  BY <1>1, <1>2 DEF ListInv, Accepts, SkippedPast, EndOfContent

\* What every step finds.
LEMMA ListFacts ==
    ASSUME RangeInv, ListInv
    PROVE  /\ job \in Jobs /\ st \in StateType /\ Size \in Nat \ {0}
           /\ offset \in Nat /\ from \in Nat /\ st.unknown_length \in Nat
           /\ Reached \in Nat /\ Reached <= offset
           /\ Reached = offset - st.unknown_length
           /\ FreeEmpty(st) /\ Book(st) /\ Behind(st, Reached) /\ EndsBy(st, Reached)
           /\ Accepts(st, Reached)
           /\ st.unknown_length > 0 => Reached < Size
           /\ pc = "try" => offset < Size
           /\ pc # "done" => st.content_size = Size
BY RangeFacts DEF RangeInv, UnknownInv, ListInv, EndOfContent, Behind, EndsBy

\* The state after a step that excludes nothing.
LEMMA ListSame ==
    ASSUME RangeInv, ListInv, NEW x, SameExclusions(st, x)
    PROVE  /\ \A f \in Int : Reached <= f => Accepts(x, f)
           /\ \A f \in Int : Reached < f => EndsBefore(x, f)
<1>1. st \in StateType /\ Reached \in Nat /\ Accepts(st, Reached) /\ EndsBy(st, Reached)
  BY ListFacts
<1>2. ASSUME NEW f \in Int, Reached <= f PROVE Accepts(x, f)
  <2>1. Accepts(st, f)
    BY <1>1, <1>2, AcceptsMonotone
  <2>2. QED
    BY <2>1, AcceptsSame
<1>3. ASSUME NEW f \in Int, Reached < f PROVE EndsBefore(x, f)
  <2>1. ASSUME NEW i \in DOMAIN st.excluded
        PROVE  st.excluded[i].start + st.excluded[i].length < f
    <3>1. st.excluded[i].start \in Int /\ st.excluded[i].length \in Int
      BY <1>1, ExcludedType
    <3>2. st.excluded[i].start + st.excluded[i].length <= Reached
      BY <1>1 DEF EndsBy
    <3>3. QED
      BY <1>1, <1>3, <3>1, <3>2
  <2>2. QED
    BY <2>1, AcceptsSame DEF EndsBefore
<1>4. QED
  BY <1>2, <1>3

LEMMA CalcStartOffsetList ==
    ASSUME RangeInv, ListInv, \A j \in Jobs : Orderly(j), CalcStartOffset
    PROVE  ListInv'
<1>0. /\ job \in Jobs /\ st \in StateType /\ offset \in Nat /\ Size \in Nat \ {0}
      /\ EndsBy(st, Reached) /\ Accepts(st, Reached)
      /\ pc # "done" => st.content_size = Size
  BY ListFacts
<1>1. pc = "start" /\ pc' = "advance" /\ offset = 0 /\ st.unknown_length = 0 /\ Reached = 0
  BY DEF CalcStartOffset, RangeInv, PlaceInv, Reached
<1>11. EndsBy(st, 0) /\ Accepts(st, 0) /\ st.content_size = Size
  BY <1>0, <1>1
<1>2. PICK p \in StartPoints :
        /\ offset' = p.off
        /\ st' = IF p.off = 0 THEN st ELSE AddUnknownSequence(st, p.skipped, p.off)
  BY DEF CalcStartOffset
<1>3. p.skipped = 0 /\ p.off \in Nat
  <2>1. job.first_rel = 0
    BY <1>0 DEF Orderly
  <2>2. QED
    BY <1>0, <2>1 DEF StartPoints
<1> DEFINE x == AddUnknownSequence(st, 0, p.off)
<1>4. SameScan(st, x)
  BY <1>0, AddUnknownSequenceScan
<1>5. p.off # 0 => Accepts(x, p.off)
  <2>1. /\ 0 \in Nat /\ 0 < Size /\ 0 <= 0 /\ 0 <= Size /\ 0 + p.off = p.off
        /\ p.off # 0 => p.off \in Nat \ {0}
    BY <1>0, <1>3
  <2>2. QED
    BY <1>0, <1>11, <2>1, AddUnknownSequenceAccepts
<1> HIDE DEF x
<1>6. st' = IF p.off = 0 THEN st ELSE x
  BY <1>2, <1>3 DEF x
<1>7. /\ Accepts(st', p.off) /\ st'.unknown_length = 0 /\ st'.content_size = Size
  <2>1. CASE p.off = 0
    <3>1. st' = st
      BY <1>6, <2>1
    <3>2. Accepts(st', p.off)
      BY <1>11, <2>1, <3>1, Zenon
    <3>3. QED
      BY <1>1, <1>11, <3>1, <3>2
  <2>2. CASE p.off # 0
    <3>1. st' = x
      BY <1>6, <2>2
    <3>2. Accepts(st', p.off)
      BY <1>5, <2>2, <3>1
    <3>3. QED
      BY <1>1, <1>4, <1>11, <3>1, <3>2 DEF SameScan
  <2>3. QED
    BY <2>1, <2>2
<1>8. Reached' = p.off
  BY <1>2, <1>3, <1>7 DEF Reached
<1>9. QED
  BY <1>1, <1>7, <1>8 DEF ListInv, SkippedPast, EndOfContent

LEMMA GetChunkPaddingList ==
    ASSUME RangeInv, ListInv, GetChunkPadding, RangeInv'
    PROVE  ListInv'
<1>0. /\ st \in StateType /\ offset \in Nat /\ st.unknown_length \in Nat
      /\ Size \in Nat \ {0} /\ Reached = offset - st.unknown_length
      /\ Reached \in Nat /\ Reached <= offset
      /\ pc # "done" => st.content_size = Size
  BY ListFacts
<1>1. /\ st'.unknown_length = st.unknown_length /\ SameExclusions(st, st')
      /\ st'.content_size = st.content_size
      /\ pc = "advance" /\ pc' = "skip" /\ from' = offset
      /\ offset' = IF offset < Size THEN offset + padding' ELSE offset
  BY <1>0 DEF GetChunkPadding, StateType, SameExclusions
<1>2. padding' \in Nat
  BY DEF RangeInv, TypeInv, TypeOK
<1>3. /\ offset' \in Nat /\ offset <= offset'
      /\ offset' > from' => Reached < offset' /\ Reached < Size
  <2>1. PICK pad \in Nat : offset' = IF offset < Size THEN offset + pad ELSE offset
    BY <1>1, <1>2
  <2>2. /\ offset' \in Nat /\ offset <= offset'
        /\ offset' > offset => offset < Size
    BY <1>0, <2>1
  <2>3. QED
    BY <1>0, <1>1, <2>2
<1>4. Reached' \in Int /\ Reached <= Reached'
  BY <1>0, <1>1, <1>3 DEF Reached
<1>5. Accepts(st', Reached')
  BY <1>1, <1>4, ListSame
<1>6. SkippedPast'
  <2>1. offset' \in Int /\ Size \in Int
    BY <1>0, <1>3
  <2>2. offset' > from' => EndsBefore(st', offset') /\ EndsBefore(st', Size)
    BY <1>1, <1>3, <2>1, ListSame
  <2>3. QED
    BY <2>2 DEF SkippedPast, EndsBefore
<1>7. QED
  BY <1>0, <1>1, <1>5, <1>6 DEF ListInv, EndOfContent

LEMMA SkipZerosList ==
    ASSUME RangeInv, ListInv, SkipZeros, RangeInv', \A j \in Jobs : Orderly(j)
    PROVE  ListInv'
<1>0. /\ job \in Jobs /\ st \in StateType /\ offset \in Nat /\ st.unknown_length \in Nat
      /\ Size \in Nat \ {0} /\ Reached = offset - st.unknown_length /\ FreeEmpty(st)
      /\ Reached \in Nat /\ Reached <= offset
      /\ pc # "done" => st.content_size = Size
  BY ListFacts
<1>1. /\ pc = "skip" /\ pc' = pc /\ offset < Size
      /\ offset' = offset + ZeroLength(st, offset)
  BY DEF SkipZeros
<1>2. Bookkeeping(st, st')
  BY <1>0, AfterZerosBookkeeping DEF SkipZeros
<1>3. /\ st'.unknown_length = st.unknown_length /\ SameExclusions(st, st')
      /\ st'.content_size = st.content_size
  BY <1>0, <1>2 DEF Bookkeeping, SameScan
<1>4. ZeroLength(st, offset) \in Nat \ {0}
  <2>1. ~DoPaddingSkip
    BY <1>0 DEF Orderly, DoPaddingSkip
  <2>2. QED
    BY <1>0, <1>1, <2>1, ZeroLengthType, CalcStepType
<1>5. /\ offset' \in Int /\ Reached < offset' /\ Reached < Size /\ offset < offset'
      /\ Size \in Int
  BY <1>0, <1>1, <1>4
<1>6. Reached' \in Int /\ Reached <= Reached'
  BY <1>0, <1>3, <1>5 DEF Reached
<1>7. Accepts(st', Reached') /\ EndsBefore(st', offset') /\ EndsBefore(st', Size)
  BY <1>3, <1>5, <1>6, ListSame
<1>8. QED
  BY <1>0, <1>1, <1>3, <1>7 DEF ListInv, SkippedPast, EndsBefore, EndOfContent

\* From a state w that differs from st in the bookkeeping only.
LEMMA BookkeptAccepts ==
    ASSUME RangeInv, ListInv, NEW w \in StateType, Bookkeeping(st, w)
    PROVE  /\ FreeEmpty(w) /\ Book(w) /\ Behind(w, Reached)
           /\ Accepts(w, Reached)
           /\ w.unknown_length = st.unknown_length
           /\ w.content_size = st.content_size
           /\ w.unknown_length <= offset /\ offset - w.unknown_length = Reached
           /\ w.unknown_length > 0 => offset - w.unknown_length < Size
           /\ SameExclusions(st, w)
<1>1. /\ FreeEmpty(st) /\ Accepts(st, Reached) /\ Reached \in Nat /\ Reached <= offset
      /\ Reached = offset - st.unknown_length /\ st.unknown_length \in Nat /\ offset \in Nat
      /\ st.unknown_length > 0 => Reached < Size
  BY ListFacts
<1>2. /\ FreeEmpty(w) /\ Book(w) /\ Behind(w, Reached)
      /\ w.unknown_length = st.unknown_length /\ SameExclusions(st, w)
      /\ w.content_size = st.content_size
  BY BookkeptFacts DEF SameRanges, Bookkeeping, SameScan
<1>3. Accepts(w, Reached)
  BY <1>1, <1>2, AcceptsSame
<1>4. w.unknown_length <= offset
  BY <1>1, <1>2
<1>5. QED
  BY <1>1, <1>2, <1>3, <1>4

LEMMA SkipAtomList ==
    ASSUME RangeInv, ListInv, SkipAtom, RangeInv'
    PROVE  ListInv'
<1>0. /\ job \in Jobs /\ st \in StateType /\ offset \in Nat /\ Size \in Nat \ {0}
      /\ pc # "done" => st.content_size = Size
  BY ListFacts
<1>1. PICK w \in ZeroTests : st' = ChkUnknownSequenceEnded(w, offset)
  BY DEF SkipAtom
<1>2. /\ offset < Size /\ pc = "skip" /\ pc' = pc
  BY DEF SkipAtom
<1>3. w \in StateType /\ Bookkeeping(st, w)
  BY <1>0, <1>2, ZeroTestsType, ZeroTestsBookkeeping
<1>4. /\ Behind(w, Reached) /\ Accepts(w, Reached) /\ w.content_size = st.content_size
      /\ w.unknown_length <= offset /\ offset - w.unknown_length = Reached
      /\ w.unknown_length > 0 => offset - w.unknown_length < Size
      /\ Book(w)
  BY <1>3, BookkeptAccepts
<1>5. Accepts(st', offset)
  <2>1. EndsBy(w, offset - w.unknown_length)
    BY <1>4 DEF Behind, EndsBy
  <2>2. QED
    BY <1>0, <1>1, <1>3, <1>4, <2>1, ChkEndedAccepts
<1>6. st'.unknown_length = 0 /\ st'.content_size = Size
  BY <1>0, <1>1, <1>2, <1>3, <1>4, ChkEndedScan
<1>7. PICK len \in Nat \ {0} : offset' = offset + len
  <2>1. PICK len \in Skippable : offset' = offset + len
    BY DEF SkipAtom
  <2>2. len \in Nat \ {0}
    BY SizeAssumption DEF Skippable
  <2>3. QED
    BY <2>1, <2>2
<1>8. /\ offset' \in Nat /\ offset < offset' /\ Reached' = offset'
      /\ offset \in Int /\ offset' \in Int /\ offset <= offset'
  BY <1>0, <1>6, <1>7 DEF Reached
<1>9. Accepts(st', Reached')
  BY <1>5, <1>8, AcceptsMonotone
<1>10. EndsBefore(st', offset') /\ EndsBefore(st', Size)
  <2>1. st' \in StateType
    BY DEF RangeInv, TypeInv, TypeOK
  <2>2. Behind(st', offset)
    <3>1. w.unknown_length > 0 => offset - w.unknown_length <= Size
      <4>1. w.unknown_length \in Nat
        BY <1>3 DEF StateType
      <4>2. QED
        BY <1>0, <1>4, <4>1
    <3>2. QED
      BY <1>0, <1>1, <1>3, <1>4, <3>1, ChkEndedRange
  <2>3. ASSUME NEW i \in DOMAIN st'.excluded
        PROVE  /\ st'.excluded[i].start + st'.excluded[i].length < offset'
               /\ st'.excluded[i].start + st'.excluded[i].length < Size
    <3>1. st'.excluded[i].start \in Int /\ st'.excluded[i].length \in Int
      BY <2>1, ExcludedType
    <3>2. st'.excluded[i].start + st'.excluded[i].length <= offset
      BY <2>2 DEF Behind
    <3>3. QED
      BY <1>0, <1>2, <1>8, <3>1, <3>2
  <2>4. QED
    BY <2>3 DEF EndsBefore
<1>11. QED
  BY <1>2, <1>6, <1>9, <1>10 DEF ListInv, SkippedPast, EndsBefore, EndOfContent

LEMMA EndAdvanceList ==
    ASSUME RangeInv, ListInv, EndAdvance
    PROVE  ListInv'
<1>0. /\ job \in Jobs /\ st \in StateType /\ offset \in Nat /\ from \in Nat
      /\ Reached = offset - st.unknown_length
      /\ pc # "done" => st.content_size = Size
  BY ListFacts
<1>1. PICK w \in ZeroTests : st' = AfterAdvance(w)
  BY DEF EndAdvance
<1>2. /\ offset < Size /\ pc = "skip" /\ pc' = "try" /\ offset' = offset
  BY DEF EndAdvance
<1>3. w \in StateType /\ Bookkeeping(st, w)
  BY <1>0, <1>2, ZeroTestsType, ZeroTestsBookkeeping
<1>4. /\ Book(w) /\ Accepts(w, offset - w.unknown_length) /\ w.content_size = st.content_size
      /\ offset - w.unknown_length = Reached /\ SameExclusions(st, w)
      /\ w.unknown_length = st.unknown_length
  BY <1>3, BookkeptAccepts
<1>5. offset > from => /\ from < Size
                       /\ EndsBefore(w, offset) /\ EndsBefore(w, Size)
  BY <1>2, <1>4, AcceptsSame DEF RangeInv, PlaceInv, ListInv, SkippedPast
<1>6. Accepts(st', Reached)
  BY <1>0, <1>1, <1>3, <1>4, <1>5, AfterAdvanceAccepts
<1>7. st'.unknown_length = st.unknown_length /\ st'.content_size = Size
  BY <1>0, <1>1, <1>2, <1>3, <1>4, AfterAdvanceScan DEF SameScan
<1>8. Reached' = Reached
  BY <1>0, <1>2, <1>7 DEF Reached
<1>9. QED
  BY <1>2, <1>6, <1>7, <1>8 DEF ListInv, SkippedPast, EndOfContent

LEMMA ReachEndList ==
    ASSUME RangeInv, ListInv, ReachEnd
    PROVE  ListInv'
<1>0. /\ job \in Jobs /\ st \in StateType /\ offset \in Nat /\ from \in Nat
      /\ Reached = offset - st.unknown_length /\ Reached \in Nat
      /\ st.unknown_length \in Nat /\ Size \in Nat \ {0}
      /\ FreeEmpty(st) /\ Book(st) /\ Behind(st, Reached) /\ Accepts(st, Reached)
      /\ st.unknown_length > 0 => Reached < Size
      /\ pc # "done" => st.content_size = Size
  BY ListFacts
<1> DEFINE w == AfterAdvance(st)
           x == PushBackLastChunk(w)
<1>1. /\ st' = ChkUnknownSequenceEnded(x, offset) /\ pc = "skip" /\ pc' = "done"
      /\ offset' = offset
  BY DEF ReachEnd
<1>2. w \in StateType /\ SameScan(st, w) /\ FreeEmpty(w)
  BY <1>0, AfterAdvanceType, AfterAdvanceScan, Zenon DEF FreeEmpty
<1>3. Accepts(w, Reached) /\ EndsBy(w, Reached)
  <2>1. offset > from => from < Size /\ EndsBefore(st, offset) /\ EndsBefore(st, Size)
    BY <1>1 DEF RangeInv, PlaceInv, ListInv, SkippedPast
  <2>2. Accepts(w, Reached)
    BY <1>0, <2>1, AfterAdvanceAccepts
  <2>3. FramesBehind(st, from)
    BY <1>1 DEF RangeInv, PlaceInv
  <2>4. Behind(w, Reached)
    BY <1>0, <2>1, <2>3, AfterAdvanceRange
  <2>5. QED
    BY <2>2, <2>4 DEF Behind, EndsBy
<1> HIDE DEF w
<1>4. x \in StateType /\ Bookkeeping(w, x)
  BY <1>2, PushBackLastChunkType, PushBackBookkeeping
<1> HIDE DEF x
<1>5. /\ SameExclusions(w, x) /\ x.unknown_length = st.unknown_length
      /\ x.content_size = st.content_size
  BY <1>2, <1>4 DEF Bookkeeping, SameScan
<1>6. Accepts(x, Reached) /\ EndsBy(x, Reached)
  BY <1>3, <1>5, AcceptsSame DEF SameExclusions, EndsBy
<1>7. /\ x.unknown_length <= offset /\ offset - x.unknown_length = Reached
      /\ x.unknown_length > 0 => offset - x.unknown_length < Size
  BY <1>0, <1>5
<1>8. Accepts(st', offset)
  BY <1>0, <1>1, <1>4, <1>6, <1>7, ChkEndedAccepts
<1>9. st'.unknown_length = 0 /\ st'.content_size = Size
  BY <1>0, <1>1, <1>4, <1>5, ChkEndedScan
<1>10. Reached' = offset
  BY <1>0, <1>1, <1>9 DEF Reached
<1>11. QED
  BY <1>1, <1>8, <1>9, <1>10 DEF ListInv, SkippedPast, EndOfContent

LEMMA TryMatchList ==
    ASSUME RangeInv, ListInv, \A j \in Jobs : Orderly(j), TryMatch
    PROVE  ListInv'
<1>0. /\ job \in Jobs /\ st \in StateType /\ offset \in Nat /\ offset < Size
      /\ st.content_size = Size
  BY ListFacts DEF TryMatch
<1>1. PICK asked \in BeforeMatch : \E m \in Matches(asked, offset) :
        /\ st' = AddMatch(AfterExpected(asked, m.track), offset, m)
        /\ offset' = offset + m.length + m.pad
  BY DEF TryMatch
<1>2. PICK m \in Matches(asked, offset) :
        /\ st' = AddMatch(AfterExpected(asked, m.track), offset, m)
        /\ offset' = offset + m.length + m.pad
  BY <1>1
<1>3. asked \in StateType /\ Bookkeeping(st, asked)
  BY <1>0, BeforeMatchType, BeforeMatchBookkeeping DEF TryMatch
<1>4. /\ m.track \in Tracks /\ m.length \in Nat \ {0} /\ m.pad \in Nat /\ m.length \in Nat
      /\ m.pad # 0 => /\ job.ref[m.track].pkt_sz_gcd # 1
                      /\ job.ref[m.track].bounded => offset + m.length <= Size
  BY <1>0, <1>3, MatchesType
<1>5. m.pad # 0 => offset + m.length <= Size
  <2>1. job.ref[m.track].bounded \/ job.ref[m.track].pkt_sz_gcd = 1
    BY <1>0, <1>4 DEF Orderly
  <2>2. QED
    BY <1>4, <2>1
<1> DEFINE w == AfterExpected(asked, m.track)
<1>6. w \in StateType /\ Bookkeeping(st, w)
  BY <1>0, <1>3, <1>4, AfterExpectedType, AfterExpectedBookkeeping, BookkeepingTrans
<1>7. st' = AddMatch(w, offset, m)
  BY <1>2
<1> HIDE DEF w
<1>8. /\ FreeEmpty(w) /\ Book(w) /\ Behind(w, offset - w.unknown_length)
      /\ Accepts(w, offset - w.unknown_length)
      /\ w.content_size = st.content_size /\ w.unknown_length <= offset
      /\ w.unknown_length > 0 => offset - w.unknown_length < Size
  BY <1>6, BookkeptAccepts
<1>9. Accepts(st', offset + m.length + m.pad)
  BY <1>0, <1>4, <1>5, <1>6, <1>7, <1>8, AddMatchAccepts
<1>10. st'.unknown_length = 0 /\ st'.content_size = Size
  BY <1>0, <1>4, <1>6, <1>7, <1>8, AddMatchUnknown
<1>11. pc' = "advance" /\ Reached' = offset + m.length + m.pad
  BY <1>0, <1>2, <1>4, <1>10 DEF Reached, TryMatch
<1>12. QED
  BY <1>9, <1>10, <1>11 DEF ListInv, SkippedPast, EndOfContent

LEMMA TryChunkPredictionList ==
    ASSUME RangeInv, ListInv, \A j \in Jobs : Orderly(j), TryChunkPrediction, RangeInv'
    PROVE  ListInv'
<1>0. /\ job \in Jobs /\ st \in StateType /\ offset \in Nat /\ offset < Size
      /\ st.content_size = Size /\ Size \in Nat
  BY ListFacts DEF TryChunkPrediction
<1>1. PICK p \in Predictions(st, offset, FALSE) :
        /\ p.chunk # Nothing
        /\ st' = AddPredicted(Predicting(st, p), offset, p.chunk)
        /\ offset' = offset + p.chunk.size
  BY DEF TryChunkPrediction
<1>2. p.ignored \in BOOLEAN /\ GoodChunk(p.chunk, offset)
  <2>1. offset <= Size
    BY <1>0
  <2>2. QED
    BY <1>0, <1>1, <2>1, PredictionsGood, Zenon DEF TryChunkPrediction
<1>3. p.chunk.track # Free /\ p.chunk.size \in Nat
  BY <1>0, <1>2 DEF GoodChunk, MayPredict, Orderly
<1> DEFINE w == Predicting(st, p)
<1>4. w \in StateType /\ Bookkeeping(st, w)
  BY <1>0, <1>2, PredictingType, PredictingBookkeeping
<1>5. st' = AddPredicted(w, offset, p.chunk)
  BY <1>1
<1> HIDE DEF w
<1>6. /\ FreeEmpty(w) /\ Book(w) /\ Behind(w, offset - w.unknown_length)
      /\ Accepts(w, offset - w.unknown_length)
      /\ w.content_size = st.content_size /\ w.unknown_length <= offset
      /\ w.unknown_length > 0 => offset - w.unknown_length < Size
  BY <1>4, BookkeptAccepts
<1>7. Accepts(st', offset + p.chunk.size)
  BY <1>0, <1>2, <1>3, <1>4, <1>5, <1>6, AddPredictedAccepts
<1>8. st'.content_size = Size
  BY <1>0, <1>2, <1>4, <1>5, <1>6, AddPredictedUnknown
<1>9. st'.unknown_length = 0
  <2>1. w.unknown_length > 0 => offset - w.unknown_length <= Size
    BY <1>4, <1>0, <1>6 DEF StateType
  <2>2. QED
    BY <1>0, <1>2, <1>3, <1>4, <1>5, <1>6, <2>1, AddPredictedRange
<1>10. pc' = "advance" /\ Reached' = offset + p.chunk.size
  BY <1>0, <1>1, <1>3, <1>9 DEF Reached, TryChunkPrediction
<1>11. QED
  BY <1>7, <1>8, <1>10 DEF ListInv, SkippedPast, EndOfContent

LEMMA StepThroughUnknownList ==
    ASSUME RangeInv, ListInv, \A j \in Jobs : Orderly(j), StepThroughUnknown
    PROVE  ListInv'
<1>0. /\ job \in Jobs /\ st \in StateType /\ offset \in Nat /\ offset < Size
      /\ st.content_size = Size /\ Reached = offset - st.unknown_length
      /\ Reached \in Nat /\ st.unknown_length \in Nat /\ FreeEmpty(st)
  BY ListFacts DEF StepThroughUnknown
<1>1. PICK p \in Misses(st, offset, FALSE) :
        LET w == EnterUnknown(IF job.use_chunk_stats THEN Predicting(st, p) ELSE st)
        IN  /\ st' = [w EXCEPT !.unknown_length = @ + CalcStep(w, offset)]
            /\ offset' = offset + CalcStep(w, offset)
  BY DEF StepThroughUnknown
<1> DEFINE w == EnterUnknown(IF job.use_chunk_stats THEN Predicting(st, p) ELSE st)
<1>2. /\ w \in StateType /\ w.unknown_length = st.unknown_length
      /\ w.content_size = st.content_size /\ SameExclusions(st, w)
  BY <1>0, UnknownStepStart DEF StepThroughUnknown, RangeInv
<1>3. /\ st' = [w EXCEPT !.unknown_length = @ + CalcStep(w, offset)]
      /\ offset' = offset + CalcStep(w, offset)
  BY <1>1
<1> HIDE DEF w
<1>4. CalcStep(w, offset) \in Nat \ {0}
  <2>1. ~DoPaddingSkip
    BY <1>0 DEF Orderly, DoPaddingSkip
  <2>2. QED
    BY <1>0, <1>2, <2>1, CalcStepType
<1>5. /\ st'.unknown_length = st.unknown_length + CalcStep(w, offset)
      /\ SameExclusions(st, st') /\ st'.content_size = Size
  BY <1>0, <1>2, <1>3 DEF StateType, SameExclusions
<1>6. Reached' = Reached
  BY <1>0, <1>3, <1>4, <1>5 DEF Reached
<1>7. Accepts(st', Reached')
  BY <1>0, <1>5, <1>6, ListSame
<1>8. pc' = "advance"
  BY DEF StepThroughUnknown
<1>9. QED
  BY <1>5, <1>7, <1>8 DEF ListInv, SkippedPast, EndOfContent

LEMMA PrematureEndList ==
    ASSUME RangeInv, ListInv, PrematureEnd
    PROVE  ListInv'
<1>0. /\ st \in StateType /\ Reached = offset - st.unknown_length /\ Reached \in Nat
      /\ FreeEmpty(st)
  BY ListFacts
<1>1. PICK p \in Misses(st, offset, FALSE) :
        LET w == EnterUnknown(IF job.use_chunk_stats THEN Predicting(st, p) ELSE st)
        IN  st' = [w EXCEPT !.content_size = offset]
  BY DEF PrematureEnd
<1> DEFINE w == EnterUnknown(IF job.use_chunk_stats THEN Predicting(st, p) ELSE st)
<1>2. w \in StateType /\ w.unknown_length = st.unknown_length /\ SameExclusions(st, w)
  BY <1>0, UnknownStepStart DEF PrematureEnd, RangeInv
<1>3. st' = [w EXCEPT !.content_size = offset]
  BY <1>1
<1> HIDE DEF w
<1>4. /\ st'.unknown_length = st.unknown_length /\ SameExclusions(st, st')
      /\ st'.content_size = offset
  BY <1>2, <1>3 DEF StateType, SameExclusions
<1>5. offset' = offset /\ pc' = "done"
  BY DEF PrematureEnd
<1>6. Reached' = Reached
  BY <1>0, <1>4, <1>5 DEF Reached
<1>7. Accepts(st', Reached')
  BY <1>0, <1>4, <1>6, ListSame
<1>8. QED
  BY <1>4, <1>5, <1>7 DEF ListInv, SkippedPast, EndOfContent

LEMMA ThrowList ==
    ASSUME RangeInv, ListInv, ThrowBeyondEnd
    PROVE  ListInv'
<1>0. /\ st \in StateType /\ FreeEmpty(st) /\ Reached \in Nat
  BY ListFacts
<1>1. SameScan(st, st') /\ SameExclusions(st, st')
  BY <1>0, ThrowBookkeeping DEF Bookkeeping
<1>2. pc' = pc /\ offset' = offset /\ from' = from
  BY DEF ThrowBeyondEnd
<1>3. Reached' = Reached
  BY <1>1, <1>2 DEF Reached, SameScan
<1>4. Accepts(st', Reached')
  BY <1>0, <1>1, <1>3, ListSame
<1>5. SkippedPast'
  BY <1>1, <1>2, AcceptsSame DEF ListInv, SkippedPast, EndsBefore, SameExclusions
<1>6. EndOfContent'
  BY <1>1, <1>2 DEF ListInv, EndOfContent, SameScan
<1>7. QED
  BY <1>4, <1>5, <1>6 DEF ListInv

LEMMA ListNext ==
    ASSUME RangeInv, ListInv, \A j \in Jobs : Orderly(j), [Next]_vars
    PROVE  ListInv'
<1>1. RangeInv'
  BY RangeNext
<1>2. CASE UNCHANGED vars
  <2>1. pc' = pc /\ offset' = offset /\ from' = from /\ st' = st
    BY <1>2 DEF vars
  <2>2. Reached' = Reached
    BY <2>1 DEF Reached
  <2>3. QED
    BY <2>1, <2>2 DEF ListInv, SkippedPast, EndOfContent
<1>3. CASE Next
  BY <1>1, <1>3, CalcStartOffsetList, GetChunkPaddingList, SkipZerosList, SkipAtomList,
     EndAdvanceList, ReachEndList, TryMatchList, TryChunkPredictionList,
     StepThroughUnknownList, PrematureEndList, ThrowList DEF Next
<1>4. QED
  BY <1>2, <1>3

LEMMA ListInvariant ==
    ASSUME \A j \in Jobs : Orderly(j)
    PROVE  Spec => [](RangeInv /\ ListInv)
<1>1. Init => RangeInv /\ ListInv
  BY RangeInit, ListInit
<1>2. (RangeInv /\ ListInv) /\ [Next]_vars => (RangeInv /\ ListInv)'
  BY RangeNext, ListNext
<1>3. QED
  BY <1>1, <1>2, PTL DEF Spec

-----------------------------------------------------------------------------
(* What follows from it                                                    *)

\* The exclusions that a scan leaves are ones BufferedAtom::write can step over one by one,
\* and leave as many bytes as the length written ahead of them says.
THEOREM ListIsAccepted ==
    ASSUME \A j \in Jobs : Orderly(j)
    PROVE  Spec => []WriteAccepts
<1>1. ASSUME RangeInv, ListInv PROVE WriteAccepts
  <2>0. /\ st \in StateType /\ offset \in Nat /\ Reached \in Nat /\ Reached <= offset
        /\ Size \in Nat /\ Book(st) /\ EndsBy(st, Reached) /\ Accepts(st, Reached)
    BY <1>1, ListFacts
  <2>1. ASSUME NEW i \in DOMAIN st.excluded
        PROVE  /\ Bytes(st.excluded[i]) \subseteq 0 .. st.content_size - 1
               /\ st.excluded[i].length > 0 \/ st.excluded[i].start = Size
    <3>1. st.excluded[i].start \in Int /\ st.excluded[i].length \in Int
      BY <2>0, ExcludedType
    <3>2. st.excluded[i].start + st.excluded[i].length <= Reached
      BY <2>0, Zenon DEF EndsBy
    <3>3. /\ st.excluded[i].start >= 0
          /\ st.excluded[i].start + st.excluded[i].length <= Size
      BY <2>0, Zenon DEF Book, ExclusionsApart
    <3>4. st.content_size = Size \/ st.content_size = offset
      BY <1>1 DEF ListInv, EndOfContent
    <3>5. Bytes(st.excluded[i]) \subseteq 0 .. st.content_size - 1
      BY <2>0, <3>1, <3>2, <3>3, <3>4 DEF Bytes
    <3>6. QED
      BY <2>0, <3>5 DEF Accepts
  <2>2. ExcludedBytes \cap 0 .. st.content_size - 1 = ExcludedBytes
    BY <2>1 DEF ExcludedBytes
  <2>3. st.total_excluded = Cardinality(ExcludedBytes)
    BY <2>0 DEF Book, Counted, RangeBytes, ExcludedBytes
  <2>4. \A i, j \in DOMAIN st.excluded : i < j => st.excluded[i].start < st.excluded[j].start
    BY <2>0 DEF Accepts
  <2>5. QED
    BY <2>1, <2>2, <2>3, <2>4 DEF WriteAccepts
<1>2. QED
  BY <1>1, ListInvariant, PTL

-----------------------------------------------------------------------------
(***************************************************************************)
(* Without -s.  Up to where the scan stands, or where chkOffset began to   *)
(* skip, every byte is excluded or in a frame; and what chkOffset excludes *)
(* in the end begins right there, for no unknown bytes are excluded        *)
(* meanwhile.                                                              *)
(***************************************************************************)
Strict(j) == ~j.ignore_unknown /\ ~j.dont_exclude

\* Of several sample sizes a predicted chunk takes the average, rounded down: its last
\* bytes would be in no frame.
OneSize(j) == \A t \in Tracks : Len(j.ref[t].likely_sizes) <= 1

Known(w, b) ==
    \/ \E i \in DOMAIN w.excluded : b \in Bytes(w.excluded[i])
    \/ \E t \in Tracks : \E i \in DOMAIN w.frames[t] : b \in FrameBytes(w.frames[t][i])

KnownTo(w, f) == \A b \in 0 .. Size - 1 : b < f => Known(w, b)

\* The content ends at the latest where the scan ended.
Covered ==
    /\ st.unknown_length = 0
    /\ KnownTo(st, IF pc = "skip" THEN from ELSE offset)
    /\ pc = "skip" => Behind(st, from)
    /\ pc = "done" => st.content_size <= offset /\ st.content_size <= Size

CoverInv == Strict(job) => Covered

LEMMA SameKnown ==
    ASSUME NEW w, NEW x, SameRanges(w, x)
    PROVE  \A f : KnownTo(w, f) => KnownTo(x, f)
BY DEF SameRanges, SameExclusions, KnownTo, Known

LEMMA AddToExcludeKnown ==
    ASSUME NEW w \in StateType, NEW start \in Nat, NEW length \in Nat, ~job.dont_exclude,
           KnownTo(w, start), start <= Size
    PROVE  KnownTo(AddToExclude(w, start, length), start + length)
<1> DEFINE x == AddToExclude(w, start, length)
           kept == IF start + length > Size THEN Size - start ELSE length
           n == Len(w.excluded)
<1>1. /\ x.excluded = Append(w.excluded, [start |-> start, length |-> kept])
      /\ x.frames = w.frames
  BY DEF AddToExclude, Assertt, StateType
<1>2. Size \in Nat /\ kept \in Int /\ start \in Int
  BY SizeAssumption
<1>3. /\ DOMAIN w.excluded = 1 .. n /\ n \in Nat
  BY ExcludedType
<1> HIDE DEF x
<1>4. Excludes(w, x, start, kept)
  <2> HIDE DEF kept
  <2>1. QED
    BY <1>1, <1>2, AppendExcludes
<1>5. /\ DOMAIN x.excluded = 1 .. n + 1
      /\ \A i \in 1 .. n : x.excluded[i] = w.excluded[i]
      /\ Bytes(x.excluded[n + 1]) = start .. start + kept - 1
  BY <1>4 DEF Excludes, Bytes
<1>6. ASSUME NEW b \in 0 .. Size - 1, b < start + length
      PROVE  Known(x, b)
  <2>1. CASE b < start
    <3>1. Known(w, b)
      BY <2>1 DEF KnownTo
    <3>2. QED
      BY <1>1, <1>3, <1>5, <3>1 DEF Known
  <2>2. CASE ~(b < start)
    <3>1. b \in start .. start + kept - 1
      BY <1>2, <1>6, <2>2
    <3>2. n + 1 \in DOMAIN x.excluded
      BY <1>3, <1>5
    <3>3. QED
      BY <1>5, <3>1, <3>2 DEF Known
  <2>3. QED
    BY <2>1, <2>2
<1>7. QED
  BY <1>6 DEF KnownTo, x

LEMMA AddFramesKnown ==
    ASSUME NEW w \in StateType, NEW x \in StateType, NEW t \in Tracks, NEW off \in Nat,
           NEW n \in Nat, NEW length \in Nat, AddsFrames(w, x, t, off, n, length),
           SameExclusions(w, x), KnownTo(w, off)
    PROVE  KnownTo(x, off + n * length)
<1> DEFINE m == Len(w.frames[t])
           S == {k \in Nat : KnownTo(x, off + k * length)}
<1>1. \A u \in AllTracks : Len(w.frames[u]) \in Nat /\ DOMAIN w.frames[u] = 1 .. Len(w.frames[u])
  BY FramesType
<1>2. /\ m \in Nat /\ DOMAIN w.frames[t] = 1 .. m
      /\ DOMAIN x.frames[t] = 1 .. m + n
      /\ \A u \in Tracks \ {t} : x.frames[u] = w.frames[u]
      /\ \A i \in 1 .. m : x.frames[t][i] = w.frames[t][i]
      /\ \A k \in 1 .. n : /\ x.frames[t][m + k].off = off + (k - 1) * length
                           /\ x.frames[t][m + k].length = length
  BY <1>1 DEF AddsFrames, AllTracks
<1>3. ASSUME NEW b, Known(w, b)
      PROVE  Known(x, b)
  <2>1. CASE \E i \in DOMAIN w.excluded : b \in Bytes(w.excluded[i])
    BY <2>1 DEF Known, SameExclusions
  <2>2. ASSUME NEW u \in Tracks, NEW i \in DOMAIN w.frames[u], b \in FrameBytes(w.frames[u][i])
        PROVE  Known(x, b)
    <3>1. CASE u = t
      <4>1. i \in 1 .. m /\ i \in 1 .. m + n
        BY <1>2, <2>2, <3>1
      <4>2. i \in DOMAIN x.frames[u] /\ x.frames[u][i] = w.frames[u][i]
        BY <1>2, <3>1, <4>1
      <4>3. QED
        BY <2>2, <4>2 DEF Known
    <3>2. CASE u # t
      BY <1>2, <2>2, <3>2 DEF Known
    <3>3. QED
      BY <3>1, <3>2
  <2>3. QED
    BY <1>3, <2>1, <2>2 DEF Known
<1> HIDE DEF m
<1>4. 0 \in S
  <2>1. off + 0 * length = off
    OBVIOUS
  <2>2. KnownTo(x, off)
    BY <1>3 DEF KnownTo
  <2>3. QED
    BY <2>1, <2>2
<1>5. ASSUME NEW k \in 0 .. n - 1, k \in S
      PROVE  k + 1 \in S
  <2>1. PICK p \in Nat : p = off + k * length
    <3>1. k * length \in Nat
      OBVIOUS
    <3>2. QED
      BY <3>1
  <2>2. off + (k + 1) * length = p + length
    BY <2>1
  <2>3. k + 1 \in 1 .. n /\ (k + 1) - 1 = k /\ m + (k + 1) \in DOMAIN x.frames[t]
    BY <1>2
  <2>4. FrameBytes(x.frames[t][m + (k + 1)]) = p .. p + length - 1
    <3>1. /\ x.frames[t][m + (k + 1)].off = off + ((k + 1) - 1) * length
          /\ x.frames[t][m + (k + 1)].length = length
      BY <1>2, <2>3
    <3>2. x.frames[t][m + (k + 1)].off = p
      BY <2>1, <2>3, <3>1
    <3>3. QED
      BY <3>1, <3>2 DEF FrameBytes
  <2>5. KnownTo(x, p)
    BY <1>5, <2>1
  <2>6. ASSUME NEW b \in 0 .. Size - 1, b < p + length
        PROVE  Known(x, b)
    <3>1. CASE b < p
      BY <2>5, <3>1 DEF KnownTo
    <3>2. CASE ~(b < p)
      <4>1. b \in p .. p + length - 1
        BY <2>6, <3>2
      <4>2. QED
        BY <2>3, <2>4, <4>1 DEF Known
    <3>3. QED
      BY <3>1, <3>2
  <2>7. KnownTo(x, off + (k + 1) * length)
    BY <2>2, <2>6 DEF KnownTo
  <2>8. QED
    BY <2>7
<1> HIDE DEF S
<1>6. n \in S
  <2>1. 0 .. n \subseteq S
    BY <1>4, <1>5, InductionTo
  <2>2. QED
    BY <2>1
<1>7. QED
  BY <1>6 DEF S

LEMMA AfterAdvanceKnown ==
    ASSUME NEW w \in StateType, Book(w), offset \in Nat, from \in Nat, from <= offset,
           offset > from => from < Size,
           w.unknown_length = 0, ~job.dont_exclude, Behind(w, from), KnownTo(w, from)
    PROVE  KnownTo(AfterAdvance(w), offset)
<1> DEFINE ok == Assertt(w, offset >= from, "chkExcludeOverlap")
<1>1. CASE offset = from
  BY <1>1 DEF AfterAdvance
<1>2. CASE offset # from
  <2>1. ExcludedEnd(w) \in Nat /\ ExcludedEnd(w) <= from
    BY ExcludedEndRange DEF Book
  <2>2. ~(ExcludedEnd(w) > from) /\ offset > from
    BY <1>2, <2>1
  <2>3. AfterAdvance(w) = AddToExclude(ok, from, offset - from)
    BY <2>2 DEF AfterAdvance, ExcludeSkipped
  <2>4. ok \in StateType /\ SameRanges(w, ok)
    BY FailedType, FailedRanges DEF Failures, Assertt
  <2> HIDE DEF ok
  <2>5. offset - from \in Nat /\ from + (offset - from) = offset /\ from <= Size
    BY <2>2, SizeAssumption
  <2>6. KnownTo(ok, from)
    BY <2>4, SameKnown
  <2>7. KnownTo(AddToExclude(ok, from, offset - from), from + (offset - from))
    BY <2>4, <2>5, <2>6, AddToExcludeKnown
  <2>8. QED
    BY <2>3, <2>5, <2>7
<1>3. QED
  BY <1>1, <1>2

LEMMA AddMatchKnown ==
    ASSUME NEW w \in StateType, job \in Jobs, NEW off \in Nat, NEW m,
           m.track \in Tracks, m.length \in Nat, m.pad \in Nat,
           m.pad # 0 => off + m.length <= Size,
           FreeEmpty(w), w.unknown_length = 0, ~job.dont_exclude, KnownTo(w, off)
    PROVE  KnownTo(AddMatch(w, off, m), off + m.length + m.pad)
<1> DEFINE t == m.track
           chunk == ChunkForMatch(w, t, off)
           added == AddFrames(chunk, t, off, 1, m.length)
           counted == [added EXCEPT !.current[t].n = @ + 1]
           end == off + m.length
           padded == AddToExclude(counted, end, m.pad)
           done == [padded EXCEPT !.done_padding = TRUE]
<1>1. AddMatch(w, off, m) = IF m.pad = 0 THEN counted ELSE done
  BY Zenon DEF AddMatch
<1>2. t \in AllTracks /\ end \in Nat
  BY DEF AllTracks
<1>3. chunk \in StateType /\ SameRanges(w, chunk)
  <2>1. ChkUnknownSequenceEnded(w, off) = w
    BY DEF ChkUnknownSequenceEnded
  <2>2. QED
    BY <1>2, <2>1, ChunkForMatchType, ChunkForMatchBookkeeping DEF SameRanges
<1>4. KnownTo(chunk, off)
  BY <1>3, SameKnown
<1> HIDE DEF chunk
<1>5. /\ added \in StateType /\ SameExclusions(chunk, added)
      /\ AddsFrames(chunk, added, t, off, 1, m.length)
  <2>1. PICK n \in Nat : n = 1
    OBVIOUS
  <2>2. added \in StateType
    BY <1>2, <1>3, <2>1, AddFramesType, Zenon
  <2>3. SameExclusions(chunk, added)
    BY <1>2, <1>3, AddFramesScan DEF SameExclusions
  <2>4. AddsFrames(chunk, added, t, off, 1, m.length)
    BY <1>2, <1>3, <2>1, AddFramesAdds, Zenon
  <2>5. QED
    BY <2>2, <2>3, <2>4
<1> HIDE DEF added
<1>6. KnownTo(added, end)
  <2>1. PICK n \in Nat : n = 1
    OBVIOUS
  <2>2. KnownTo(added, off + n * m.length)
    BY <1>3, <1>4, <1>5, <2>1, AddFramesKnown
  <2>3. off + n * m.length = end
    BY <2>1
  <2>4. QED
    BY <2>2, <2>3
<1>7. counted \in StateType /\ SameRanges(added, counted)
  <2>1. added.current \in [AllTracks -> ChunkRecord]
    BY <1>5 DEF StateType
  <2>2. [added.current EXCEPT ![t].n = @ + 1] \in [AllTracks -> ChunkRecord]
    BY <1>2, <2>1 DEF ChunkRecord
  <2>3. QED
    BY <1>5, <2>2 DEF StateType, SameRanges, SameExclusions
<1> HIDE DEF counted
<1>8. KnownTo(counted, end)
  BY <1>6, <1>7, SameKnown
<1>9. CASE m.pad = 0
  BY <1>1, <1>8, <1>9
<1>10. CASE m.pad # 0
  <2>1. padded \in StateType /\ KnownTo(padded, end + m.pad)
    BY <1>2, <1>7, <1>8, <1>10, AddToExcludeType, AddToExcludeKnown
  <2> HIDE DEF padded
  <2>2. SameRanges(padded, done)
    BY <2>1 DEF StateType, SameRanges, SameExclusions
  <2>3. KnownTo(done, end + m.pad)
    BY <2>1, <2>2, SameKnown
  <2>4. QED
    BY <1>1, <1>10, <2>3
<1>11. QED
  BY <1>9, <1>10

LEMMA AddPredictedKnown ==
    ASSUME NEW w \in StateType, job \in Jobs, NEW off \in Nat, NEW c, GoodChunk(c, off),
           c.track # Free, Len(job.ref[c.track].likely_sizes) <= 1,
           FreeEmpty(w), w.unknown_length = 0, KnownTo(w, off)
    PROVE  KnownTo(AddPredicted(w, off, c), off + c.size)
<1> DEFINE t == c.track
           started == OnNewChunkStarted(w, t)
           filled == [started EXCEPT !.current[t] =
                        [off |-> off, already_excluded |-> started.total_excluded,
                         size |-> c.size, n |-> c.n]]
           x == AddFrames(filled, t, off, c.n, c.sample)
<1>1. /\ t \in AllTracks /\ t \in Tracks
      /\ c.size \in Nat /\ c.n \in Nat /\ c.sample \in Nat /\ c.n * c.sample = c.size
  BY DEF GoodChunk, AllTracks
<1>2. AddPredicted(w, off, c) = x
  BY Zenon DEF AddPredicted
<1>3. started \in StateType /\ SameRanges(w, started)
  BY <1>1, OnNewChunkStartedType, OnNewBookkeeping DEF Bookkeeping, SameScan, SameRanges
<1> HIDE DEF started
<1>4. filled \in StateType /\ SameRanges(started, filled)
  <2>1. started.current \in [AllTracks -> ChunkRecord] /\ started.total_excluded \in Int
    BY <1>3 DEF StateType
  <2>2. [off |-> off, already_excluded |-> started.total_excluded,
         size |-> c.size, n |-> c.n] \in ChunkRecord
    BY <1>1, <2>1 DEF ChunkRecord
  <2>3. QED
    BY <1>1, <1>3, <2>1, <2>2 DEF StateType, SameRanges, SameExclusions
<1> HIDE DEF filled
<1>5. KnownTo(filled, off)
  BY <1>3, <1>4, SameKnown
<1>6. /\ x \in StateType /\ SameExclusions(filled, x)
      /\ AddsFrames(filled, x, t, off, c.n, c.sample)
  <2>1. x \in StateType
    BY <1>1, <1>4, AddFramesType, Zenon
  <2>2. SameExclusions(filled, x)
    BY <1>1, <1>4, AddFramesScan DEF SameExclusions
  <2>3. AddsFrames(filled, x, t, off, c.n, c.sample)
    BY <1>1, <1>4, AddFramesAdds, Zenon
  <2>4. QED
    BY <2>1, <2>2, <2>3
<1> HIDE DEF x, t
<1>7. KnownTo(x, off + c.n * c.sample)
  BY <1>1, <1>4, <1>5, <1>6, AddFramesKnown
<1>8. QED
  BY <1>1, <1>2, <1>7

-----------------------------------------------------------------------------
(* Every step keeps it                                                     *)

LEMMA CoverFacts ==
    ASSUME RangeInv, CoverInv, Strict(job)
    PROVE  /\ job \in Jobs /\ st \in StateType /\ Size \in Nat \ {0}
           /\ offset \in Nat /\ from \in Nat
           /\ FreeEmpty(st) /\ Book(st) /\ Behind(st, offset)
           /\ st.unknown_length = 0 /\ ~job.dont_exclude /\ ~job.ignore_unknown
           /\ pc # "skip" => KnownTo(st, offset)
           /\ pc = "skip" => KnownTo(st, from) /\ Behind(st, from)
BY RangeFacts DEF CoverInv, Covered, Strict

\* What a step keeps that neither adds a frame nor excludes anything.
LEMMA CoverSame ==
    ASSUME RangeInv, CoverInv, Strict(job), NEW x, SameRanges(st, x)
    PROVE  /\ pc # "skip" => KnownTo(x, offset) /\ Behind(x, offset)
           /\ pc = "skip" => KnownTo(x, from) /\ Behind(x, from)
<1>1. offset \in Int /\ from \in Int
  BY CoverFacts
<1>2. QED
  BY <1>1, CoverFacts, SameKnown, SameRangesKept

LEMMA CalcStartOffsetCover ==
    ASSUME RangeInv, CoverInv, Strict(job), \A j \in Jobs : Orderly(j), CalcStartOffset
    PROVE  Covered'
<1>1. /\ job \in Jobs /\ st \in StateType /\ Size \in Nat \ {0} /\ ~job.dont_exclude
      /\ st.unknown_length = 0
  BY CoverFacts
<1>2. pc = "start" /\ pc' = "advance" /\ offset = 0
  BY DEF CalcStartOffset, RangeInv, PlaceInv
<1>3. KnownTo(st, 0)
  BY <1>2, CoverFacts
<1>4. PICK p \in StartPoints :
        /\ offset' = p.off
        /\ st' = IF p.off = 0 THEN st ELSE AddUnknownSequence(st, p.skipped, p.off)
  BY DEF CalcStartOffset
<1>5. p.skipped = 0 /\ p.off \in Nat
  <2>1. job.first_rel = 0
    BY <1>1 DEF Orderly
  <2>2. QED
    BY <1>1, <2>1 DEF StartPoints
<1>6. CASE p.off = 0
  BY <1>1, <1>2, <1>3, <1>4, <1>6 DEF Covered
<1>7. CASE p.off # 0
  <2> DEFINE ok == Assertt(st, p.off # 0, "addUnknownSequence")
             x == AddToExclude(ok, 0, p.off)
             y == AddUnknownSequence(st, 0, p.off)
  <2>1. ok \in StateType /\ SameRanges(st, ok)
    BY <1>1, FailedType, FailedRanges DEF Failures, Assertt
  <2>2. y = [x EXCEPT !.unknown_sequences = Append(@, [start |-> 0, length |-> p.off])]
    BY Zenon DEF AddUnknownSequence
  <2>3. SameScan(st, y)
    BY <1>1, AddUnknownSequenceScan
  <2> HIDE DEF ok, y
  <2>4. KnownTo(ok, 0)
    BY <1>3, <2>1, SameKnown
  <2>5. x \in StateType /\ KnownTo(x, 0 + p.off)
    <3>1. 0 \in Nat /\ 0 <= Size /\ 0 \in Int
      BY <1>1
    <3>2. KnownTo(x, 0 + p.off)
      BY <1>1, <1>5, <2>1, <2>4, <3>1, AddToExcludeKnown
    <3>3. QED
      BY <1>1, <1>5, <2>1, <3>1, <3>2, AddToExcludeType
  <2> HIDE DEF x
  <2>6. SameRanges(x, y)
    BY <2>2, <2>5 DEF StateType, SameRanges, SameExclusions
  <2>7. KnownTo(y, p.off)
    <3>1. 0 + p.off = p.off
      BY <1>5
    <3>2. QED
      BY <2>5, <2>6, <3>1, SameKnown
  <2>8. st' = y
    BY <1>4, <1>5, <1>7 DEF y
  <2>9. st'.unknown_length = 0 /\ KnownTo(st', offset')
    BY <1>1, <1>4, <2>3, <2>7, <2>8 DEF SameScan
  <2>10. QED
    BY <1>2, <2>9 DEF Covered
<1>8. QED
  BY <1>6, <1>7

LEMMA GetChunkPaddingCover ==
    ASSUME RangeInv, CoverInv, Strict(job), GetChunkPadding
    PROVE  Covered'
<1>1. /\ st \in StateType /\ st.unknown_length = 0
  BY CoverFacts
<1>2. /\ st'.unknown_length = st.unknown_length /\ SameRanges(st, st')
      /\ pc = "advance" /\ pc' = "skip" /\ from' = offset
  BY <1>1 DEF GetChunkPadding, StateType, SameRanges, SameExclusions
<1>3. KnownTo(st', from') /\ Behind(st', from')
  BY <1>2, CoverSame
<1>4. QED
  BY <1>1, <1>2, <1>3 DEF Covered

\* A step of advanceOffset.
LEMMA SkippingCover ==
    ASSUME RangeInv, CoverInv, Strict(job), st' \in StateType, Bookkeeping(st, st'),
           pc = "skip", pc' = "skip", from' = from
    PROVE  Covered'
<1>1. FreeEmpty(st) /\ st.unknown_length = 0
  BY CoverFacts
<1>2. SameRanges(st, st') /\ st'.unknown_length = 0
  BY <1>1 DEF Bookkeeping, SameScan, SameRanges
<1>3. KnownTo(st', from') /\ Behind(st', from')
  BY <1>2, CoverSame
<1>4. QED
  BY <1>2, <1>3 DEF Covered

LEMMA SkipZerosCover ==
    ASSUME RangeInv, CoverInv, Strict(job), SkipZeros, RangeInv'
    PROVE  Covered'
<1>1. Bookkeeping(st, st')
  BY CoverFacts, AfterZerosBookkeeping DEF SkipZeros
<1>2. pc = "skip" /\ pc' = "skip" /\ from' = from
  BY DEF SkipZeros
<1>3. st' \in StateType
  BY DEF RangeInv, TypeInv, TypeOK
<1>4. QED
  BY <1>1, <1>2, <1>3, SkippingCover

LEMMA SkipAtomCover ==
    ASSUME RangeInv, CoverInv, Strict(job), SkipAtom, RangeInv'
    PROVE  Covered'
<1>1. job \in Jobs /\ st \in StateType /\ st.unknown_length = 0 /\ offset < Size
  BY CoverFacts DEF SkipAtom
<1>2. PICK w \in ZeroTests : st' = ChkUnknownSequenceEnded(w, offset)
  BY DEF SkipAtom
<1>3. Bookkeeping(st, w)
  BY <1>1, ZeroTestsBookkeeping
<1>4. st' = w
  BY <1>1, <1>2, <1>3 DEF Bookkeeping, SameScan, ChkUnknownSequenceEnded
<1>5. pc = "skip" /\ pc' = "skip" /\ from' = from
  BY DEF SkipAtom
<1>6. st' \in StateType
  BY DEF RangeInv, TypeInv, TypeOK
<1>7. QED
  BY <1>3, <1>4, <1>5, <1>6, SkippingCover

\* What chkOffset excludes once advanceOffset is back, of a state that differs from st
\* in what a prediction set.
LEMMA AdvancedCover ==
    ASSUME RangeInv, CoverInv, Strict(job), pc = "skip", NEW w \in StateType,
           Bookkeeping(st, w)
    PROVE  /\ KnownTo(AfterAdvance(w), offset)
           /\ AfterAdvance(w).unknown_length = 0
<1>1. /\ st \in StateType /\ offset \in Nat /\ from \in Nat /\ ~job.dont_exclude
      /\ st.unknown_length = 0 /\ from \in Int
  BY CoverFacts
<1>2. /\ Book(w) /\ w.unknown_length = 0 /\ SameRanges(st, w)
  BY <1>1, BookkeptFacts
<1>3. KnownTo(w, from) /\ Behind(w, from)
  BY <1>2, CoverSame
<1>4. from <= offset /\ (offset > from => from < Size)
  BY DEF RangeInv, PlaceInv
<1>5. SameScan(w, AfterAdvance(w))
  BY <1>1, AfterAdvanceScan
<1>6. QED
  BY <1>1, <1>2, <1>3, <1>4, <1>5, AfterAdvanceKnown DEF SameScan

LEMMA EndAdvanceCover ==
    ASSUME RangeInv, CoverInv, Strict(job), EndAdvance
    PROVE  Covered'
<1>1. job \in Jobs /\ st \in StateType /\ offset \in Nat /\ offset < Size
  BY CoverFacts DEF EndAdvance
<1>2. PICK w \in ZeroTests : st' = AfterAdvance(w)
  BY DEF EndAdvance
<1>3. w \in StateType /\ Bookkeeping(st, w)
  BY <1>1, ZeroTestsType, ZeroTestsBookkeeping
<1>4. pc = "skip" /\ pc' = "try" /\ offset' = offset
  BY DEF EndAdvance
<1>5. st'.unknown_length = 0 /\ KnownTo(st', offset')
  BY <1>2, <1>3, <1>4, AdvancedCover
<1>6. QED
  BY <1>4, <1>5 DEF Covered

LEMMA ReachEndCover ==
    ASSUME RangeInv, ListInv, CoverInv, Strict(job), ReachEnd
    PROVE  Covered'
<1>1. /\ job \in Jobs /\ st \in StateType /\ offset \in Nat /\ from \in Nat
      /\ FreeEmpty(st) /\ st.unknown_length = 0 /\ st.content_size = Size
  BY CoverFacts, ListFacts DEF ReachEnd
<1>2. pc = "skip" /\ pc' = "done" /\ offset' = offset /\ offset >= Size
  BY DEF ReachEnd
<1> DEFINE w == AfterAdvance(st)
           x == PushBackLastChunk(w)
<1>3. KnownTo(w, offset) /\ w.unknown_length = 0
  <2>1. Bookkeeping(st, st)
    BY DEF Bookkeeping, SameScan, SameExclusions
  <2>2. QED
    BY <1>1, <1>2, <2>1, AdvancedCover
<1>4. w \in StateType /\ FreeEmpty(w) /\ w.content_size = Size
  <2>1. w \in StateType
    BY <1>1, AfterAdvanceType
  <2>2. SameScan(st, w) /\ w.current = st.current
    BY <1>1, AfterAdvanceScan
  <2>3. QED
    BY <1>1, <2>1, <2>2 DEF SameScan, FreeEmpty
<1>5. st' = ChkUnknownSequenceEnded(x, offset)
  BY DEF ReachEnd
<1> HIDE DEF w
<1>6. SameRanges(w, x) /\ x.unknown_length = 0 /\ x.content_size = Size
  BY <1>3, <1>4, PushBackBookkeeping DEF Bookkeeping, SameScan, SameRanges
<1> HIDE DEF x
<1>7. st' = x
  BY <1>5, <1>6 DEF ChkUnknownSequenceEnded
<1>8. /\ KnownTo(st', offset') /\ st'.unknown_length = 0
      /\ st'.content_size <= offset' /\ st'.content_size <= Size
  <2>1. KnownTo(x, offset)
    BY <1>3, <1>6, SameKnown
  <2>2. Size \in Int
    BY SizeAssumption
  <2>3. QED
    BY <1>1, <1>2, <1>6, <1>7, <2>1, <2>2
<1>9. QED
  BY <1>2, <1>8 DEF Covered

LEMMA TryMatchCover ==
    ASSUME RangeInv, CoverInv, Strict(job), \A j \in Jobs : Orderly(j), TryMatch
    PROVE  Covered'
<1>1. /\ job \in Jobs /\ st \in StateType /\ offset \in Nat /\ offset < Size
      /\ ~job.dont_exclude /\ st.unknown_length = 0 /\ offset \in Int
  BY CoverFacts, RangeFacts DEF TryMatch
<1>2. pc = "try" /\ pc' = "advance"
  BY DEF TryMatch
<1>3. PICK asked \in BeforeMatch : \E m \in Matches(asked, offset) :
        /\ st' = AddMatch(AfterExpected(asked, m.track), offset, m)
        /\ offset' = offset + m.length + m.pad
  BY DEF TryMatch
<1>4. PICK m \in Matches(asked, offset) :
        /\ st' = AddMatch(AfterExpected(asked, m.track), offset, m)
        /\ offset' = offset + m.length + m.pad
  BY <1>3
<1>5. asked \in StateType /\ Bookkeeping(st, asked)
  BY <1>1, <1>2, BeforeMatchType, BeforeMatchBookkeeping
<1>6. /\ m.track \in Tracks /\ m.length \in Nat \ {0} /\ m.pad \in Nat /\ m.length \in Nat
      /\ m.pad # 0 => /\ job.ref[m.track].pkt_sz_gcd # 1
                      /\ job.ref[m.track].bounded => offset + m.length <= Size
  BY <1>1, <1>5, MatchesType
<1>7. m.pad # 0 => offset + m.length <= Size
  <2>1. job.ref[m.track].bounded \/ job.ref[m.track].pkt_sz_gcd = 1
    BY <1>1, <1>6 DEF Orderly
  <2>2. QED
    BY <1>6, <2>1
<1> DEFINE w == AfterExpected(asked, m.track)
<1>8. w \in StateType /\ Bookkeeping(st, w)
  BY <1>1, <1>5, <1>6, AfterExpectedType, AfterExpectedBookkeeping, BookkeepingTrans
<1>9. st' = AddMatch(w, offset, m)
  BY <1>4
<1> HIDE DEF w
<1>10. /\ FreeEmpty(w) /\ Book(w) /\ Behind(w, Reached) /\ w.unknown_length = 0
       /\ SameRanges(st, w)
  BY <1>1, <1>8, BookkeptFacts
<1>11. KnownTo(w, offset)
  BY <1>2, <1>10, CoverSame
<1>12. KnownTo(st', offset')
  BY <1>1, <1>4, <1>6, <1>7, <1>8, <1>9, <1>10, <1>11, AddMatchKnown
<1>13. st'.unknown_length = 0
  BY <1>1, <1>6, <1>8, <1>9, <1>10, AddMatchUnknown
<1>14. QED
  BY <1>2, <1>12, <1>13 DEF Covered

LEMMA TryChunkPredictionCover ==
    ASSUME RangeInv, CoverInv, Strict(job), OneSize(job), \A j \in Jobs : Orderly(j),
           TryChunkPrediction
    PROVE  Covered'
<1>1. /\ job \in Jobs /\ st \in StateType /\ offset \in Nat /\ offset < Size
      /\ st.unknown_length = 0 /\ Size \in Nat /\ offset <= Size
  BY CoverFacts, RangeFacts DEF TryChunkPrediction
<1>2. pc = "try" /\ pc' = "advance"
  BY DEF TryChunkPrediction
<1>3. PICK p \in Predictions(st, offset, FALSE) :
        /\ p.chunk # Nothing
        /\ st' = AddPredicted(Predicting(st, p), offset, p.chunk)
        /\ offset' = offset + p.chunk.size
  BY DEF TryChunkPrediction
<1>4. p.ignored \in BOOLEAN /\ GoodChunk(p.chunk, offset)
  BY <1>1, <1>3, PredictionsGood, Zenon
<1>5. p.chunk.track # Free /\ p.chunk.size \in Nat
  BY <1>1, <1>4 DEF GoodChunk, MayPredict, Orderly
<1>6. Len(job.ref[p.chunk.track].likely_sizes) <= 1
  BY <1>4, <1>5 DEF GoodChunk, AllTracks, OneSize
<1> DEFINE w == Predicting(st, p)
<1>7. w \in StateType /\ Bookkeeping(st, w)
  BY <1>1, <1>4, PredictingType, PredictingBookkeeping
<1>8. st' = AddPredicted(w, offset, p.chunk)
  BY <1>3
<1> HIDE DEF w
<1>9. /\ FreeEmpty(w) /\ Book(w) /\ Behind(w, Reached) /\ w.unknown_length = 0
      /\ SameRanges(st, w)
  BY <1>1, <1>7, BookkeptFacts
<1>10. KnownTo(w, offset)
  BY <1>2, <1>9, CoverSame
<1>11. KnownTo(st', offset')
  BY <1>1, <1>3, <1>4, <1>5, <1>6, <1>7, <1>8, <1>9, <1>10, AddPredictedKnown
<1>12. st'.unknown_length = 0
  <2>1. /\ w.unknown_length <= offset /\ offset - w.unknown_length = offset
        /\ w.unknown_length > 0 => offset - w.unknown_length <= Size
        /\ Reached = offset
    BY <1>1, <1>9 DEF Reached
  <2>2. QED
    BY <1>1, <1>4, <1>5, <1>7, <1>8, <1>9, <2>1, AddPredictedRange
<1>13. QED
  BY <1>2, <1>11, <1>12 DEF Covered

LEMMA PrematureEndCover ==
    ASSUME RangeInv, CoverInv, Strict(job), PrematureEnd
    PROVE  Covered'
<1>1. st \in StateType /\ FreeEmpty(st) /\ offset \in Nat /\ st.unknown_length = 0
  BY CoverFacts
<1>2. PICK p \in Misses(st, offset, FALSE) :
        LET w == EnterUnknown(IF job.use_chunk_stats THEN Predicting(st, p) ELSE st)
        IN  st' = [w EXCEPT !.content_size = offset]
  BY DEF PrematureEnd
<1> DEFINE w == EnterUnknown(IF job.use_chunk_stats THEN Predicting(st, p) ELSE st)
<1>3. /\ w \in StateType /\ w.unknown_length = st.unknown_length /\ SameExclusions(st, w)
      /\ w.frames = st.frames
  BY <1>1, UnknownStepStart DEF PrematureEnd, RangeInv
<1>4. st' = [w EXCEPT !.content_size = offset]
  BY <1>2
<1> HIDE DEF w
<1>5. /\ st'.unknown_length = 0 /\ SameRanges(st, st') /\ st'.content_size = offset
  BY <1>1, <1>3, <1>4 DEF StateType, SameRanges, SameExclusions
<1>6. /\ pc = "try" /\ pc' = "done" /\ offset' = offset
      /\ offset <= Size
  BY RangeFacts DEF PrematureEnd
<1>7. KnownTo(st', offset')
  BY <1>5, <1>6, CoverSame
<1>8. QED
  BY <1>1, <1>5, <1>6, <1>7 DEF Covered

LEMMA ThrowCover ==
    ASSUME RangeInv, CoverInv, Strict(job), ThrowBeyondEnd
    PROVE  Covered'
<1>1. st \in StateType /\ FreeEmpty(st) /\ st.unknown_length = 0
  BY CoverFacts
<1>2. SameRanges(st, st') /\ st'.unknown_length = 0
  BY <1>1, ThrowBookkeeping DEF Bookkeeping, SameScan, SameRanges
<1>3. pc' = pc /\ offset' = offset /\ from' = from /\ pc # "done"
  BY DEF ThrowBeyondEnd
<1>4. /\ pc # "skip" => KnownTo(st', offset')
      /\ pc = "skip" => KnownTo(st', from') /\ Behind(st', from')
  BY <1>2, <1>3, CoverSame
<1>5. QED
  BY <1>2, <1>3, <1>4 DEF Covered

LEMMA CoverInit ==
    ASSUME Init PROVE CoverInv
<1>1. pc = "start" /\ offset = 0 /\ st.unknown_length = 0
  BY DEF Init, InitState
<1>2. KnownTo(st, 0)
  BY DEF KnownTo
<1>3. QED
  BY <1>1, <1>2 DEF CoverInv, Covered

LEMMA CoverNext ==
    ASSUME RangeInv, ListInv, CoverInv, [Next]_vars,
           \A j \in Jobs : Orderly(j) /\ (Strict(j) => OneSize(j))
    PROVE  CoverInv'
<1>1. RangeInv' /\ job \in Jobs /\ \A j \in Jobs : Orderly(j)
  BY RangeNext, RangeFacts
<1>2. CASE UNCHANGED vars
  BY <1>2 DEF vars, CoverInv, Covered
<1>3. CASE Next
  <2> SUFFICES ASSUME Strict(job')
               PROVE  Covered'
    BY DEF CoverInv
  <2>1. job' = job
    BY <1>3 DEF Next, CalcStartOffset, GetChunkPadding, SkipZeros, SkipAtom, EndAdvance,
                ReachEnd, TryMatch, TryChunkPrediction, StepThroughUnknown, PrematureEnd,
                ThrowBeyondEnd
  <2>2. Strict(job) /\ OneSize(job)
    BY <1>1, <2>1
  <2>3. ~StepThroughUnknown
    BY <2>2 DEF Strict, StepThroughUnknown
  <2>4. QED
    BY <1>1, <1>3, <2>2, <2>3, CalcStartOffsetCover, GetChunkPaddingCover, SkipZerosCover,
       SkipAtomCover, EndAdvanceCover, ReachEndCover, TryMatchCover,
       TryChunkPredictionCover, PrematureEndCover, ThrowCover DEF Next
<1>4. QED
  BY <1>2, <1>3

LEMMA CoverInvariant ==
    ASSUME \A j \in Jobs : Orderly(j) /\ (Strict(j) => OneSize(j))
    PROVE  Spec => [](RangeInv /\ ListInv /\ CoverInv)
<1>1. Init => RangeInv /\ ListInv /\ CoverInv
  BY RangeInit, ListInit, CoverInit
<1>2. (RangeInv /\ ListInv /\ CoverInv) /\ [Next]_vars => (RangeInv /\ ListInv /\ CoverInv)'
  BY RangeNext, ListNext, CoverNext
<1>3. QED
  BY <1>1, <1>2, PTL DEF Spec

\* Without -s a scan leaves nothing in but frames: each byte of the content, as far as it
\* was accepted, is excluded or belongs to a frame that a matcher or a prediction found.
THEOREM StrictKeepsOnlyFrames ==
    ASSUME \A j \in Jobs : Orderly(j) /\ (Strict(j) => OneSize(j))
    PROVE  Spec => []StrictScanKeepsOnlyFrames
<1>1. ASSUME RangeInv, ListInv, CoverInv PROVE StrictScanKeepsOnlyFrames
  <2> SUFFICES ASSUME pc = "done", Strict(job), NEW b \in 0 .. st.content_size - 1
               PROVE  b \in ExcludedBytes \/ \E f \in Found : b \in FrameBytes(f)
    BY DEF StrictScanKeepsOnlyFrames, Strict
  <2>1. st \in StateType /\ offset \in Nat /\ Size \in Nat /\ st.content_size \in Nat
    BY <1>1, CoverFacts DEF StateType
  <2>2. KnownTo(st, offset) /\ st.content_size <= offset /\ st.content_size <= Size
    BY <1>1 DEF CoverInv, Covered
  <2>3. Known(st, b)
    BY <2>1, <2>2 DEF KnownTo
  <2>4. CASE \E i \in DOMAIN st.excluded : b \in Bytes(st.excluded[i])
    BY <2>4 DEF ExcludedBytes
  <2>5. ASSUME NEW t \in Tracks, NEW i \in DOMAIN st.frames[t], b \in FrameBytes(st.frames[t][i])
        PROVE  \E f \in Found : b \in FrameBytes(f)
    BY <2>5 DEF Found, Elements
  <2>6. QED
    BY <2>3, <2>4, <2>5 DEF Known
<1>2. QED
  BY <1>1, CoverInvariant, PTL

-----------------------------------------------------------------------------
(* The assertions of the scan                                              *)

\* Which track the cycle names next is told by the one it names now: there are two.
TakesTurns(order) ==
    \A i \in Nat, t \in Tracks : At(order, i + 1).track = t <=> At(order, i).track # t

\* What else would break an assertion.  Of an order of chunks: that a frame may be of another
\* track than the next one named, or a chunk of the same track follow, for then the index is
\* left behind; unknown bytes before the first chunk.  Of a simple order: a track missing in it,
\* and the index moved out of unknown bytes or by a duplicate frame before the first chunk.
\* Of a sample to predict: that it is longer than what the patterns in front of it need.
Steady(j) ==
    /\ Orderly(j)
    /\ j.order # <<>> =>
         /\ TakesTurns(j.order)
         /\ ~j.ignore_unknown /\ ~j.has_free
         /\ j.simple # <<>> => \A i \in Nat : At(j.simple, i) = At(j.order, i).track
         /\ \A t \in Tracks : ~j.ref[t].has_duplicates /\ t \notin j.ref[t].next
    /\ j.simple # <<>> =>
         /\ ~j.ignore_unknown
         /\ \A t \in Tracks : CanSkipTo(j.simple, t)
         /\ \A t \in Tracks : j.ref[t].has_duplicates => j.ref[j.simple[1]].codec = j.ref[t].codec
    /\ \A t \in Tracks : j.ref[t].predictable => j.ref[t].likely_sizes[1] <= PatHalf

-----------------------------------------------------------------------------
(***************************************************************************)
(* The invariant: only the last track has samples in its current chunk, so *)
(* a chunk is closed once and never empty; the index stays 0 until the     *)
(* first chunk is found, and from then on the chunk before it in the order *)
(* is the last track's.                                                    *)
(***************************************************************************)
Open(w) == \A t \in Tracks : w.current[t].n > 0 <=> w.last_track = t
Closed(w) == \A t \in Tracks : w.current[t].n = 0

Unordered(j) == j.order = <<>> /\ j.simple = <<>>

\* An order was ignored only if there is one, and not before the first chunk.
Begun(w) ==
    /\ w.ignored_chunk_order => w.first_chunk_found /\ job.order # <<>>
    /\ ~w.first_chunk_found => w.next_chunk = 0

\* The order's chunk before the index is t's; the one at the index is.
Passed(w, t) ==
    job.order # <<>> => w.next_chunk > 0 /\ At(job.order, w.next_chunk - 1).track = t
Due(w, t) == job.order # <<>> => At(job.order, w.next_chunk).track = t

InStep(w) ==
    IF w.first_chunk_found THEN Passed(w, w.last_track)
    ELSE job.order # <<>> => w.last_track = Start

OnCourse(w) == Begun(w) /\ InStep(w)

CourseInv ==
    /\ NoAssertionFails
    /\ ~Unordered(job) => st.unknown_length = 0
    /\ pc # "done" => Open(st) /\ OnCourse(st)

\* x and w agree on what failed and on the place in the order.
SameCourse(w, x) ==
    /\ x.failed = w.failed
    /\ x.first_chunk_found = w.first_chunk_found
    /\ x.ignored_chunk_order = w.ignored_chunk_order
    /\ x.next_chunk = w.next_chunk

\* x is w after a prediction was asked for, which may set that the order was ignored.
Consulted(w, x) ==
    /\ x.failed = w.failed /\ x.current = w.current /\ x.last_track = w.last_track
    /\ x.first_chunk_found = w.first_chunk_found /\ x.next_chunk = w.next_chunk
    /\ x.ignored_chunk_order =>
         w.ignored_chunk_order \/ (w.first_chunk_found /\ job.order # <<>>)

-----------------------------------------------------------------------------
(* Exclusions                                                              *)

\* Behind all that is excluded, one more sequence is in order.
LEMMA AddToExcludeCourse ==
    ASSUME NEW w \in StateType, NEW start \in Int, NEW length \in Int, EndsBy(w, start)
    PROVE  SameCourse(w, AddToExclude(w, start, length))
<1>1. w.excluded # <<>> => start >= ExcludedEnd(w)
  <2>1. SUFFICES ASSUME w.excluded # <<>>
                 PROVE  start >= ExcludedEnd(w)
    OBVIOUS
  <2>2. Len(w.excluded) \in DOMAIN w.excluded
    BY <2>1, ExcludedType
  <2>3. w.excluded[Len(w.excluded)].start + w.excluded[Len(w.excluded)].length <= start
    BY <2>2, Zenon DEF EndsBy
  <2>4. ExcludedEnd(w) <= start
    BY <2>1, <2>3 DEF ExcludedEnd
  <2>5. QED
    BY <2>4, ExcludedEndType
<1>2. Assertt(w, w.excluded # <<>> => start >= ExcludedEnd(w), "addToExclude") = w
  BY <1>1 DEF Assertt
<1>3. QED
  BY <1>2 DEF AddToExclude, SameCourse, StateType

LEMMA AddUnknownSequenceCourse ==
    ASSUME NEW w \in StateType, NEW start \in Int, NEW length \in Nat \ {0}, EndsBy(w, start)
    PROVE  SameCourse(w, AddUnknownSequence(w, start, length))
<1> DEFINE y == AddToExclude(w, start, length)
<1>1. Assertt(w, length # 0, "addUnknownSequence") = w
  BY DEF Assertt
<1>2. y \in StateType /\ SameCourse(w, y)
  BY AddToExcludeType, AddToExcludeCourse
<1>3. AddUnknownSequence(w, start, length) =
        [y EXCEPT !.unknown_sequences = Append(@, [start |-> start, length |-> length])]
  BY <1>1 DEF AddUnknownSequence
<1> HIDE DEF y
<1>4. QED
  BY <1>2, <1>3 DEF SameCourse, StateType

LEMMA ChkEndedCourse ==
    ASSUME NEW w \in StateType, NEW off \in Nat, EndsBy(w, off - w.unknown_length)
    PROVE  SameCourse(w, ChkUnknownSequenceEnded(w, off))
<1> DEFINE y == AddUnknownSequence(w, off - w.unknown_length, w.unknown_length)
<1>1. CASE w.unknown_length = 0
  BY <1>1 DEF ChkUnknownSequenceEnded, SameCourse
<1>2. CASE w.unknown_length # 0
  <2>1. w.unknown_length \in Nat \ {0} /\ off - w.unknown_length \in Int
    BY <1>2 DEF StateType
  <2>2. y \in StateType /\ SameCourse(w, y)
    BY <2>1, AddUnknownSequenceType, AddUnknownSequenceCourse
  <2>3. ChkUnknownSequenceEnded(w, off) = [y EXCEPT !.unknown_length = 0]
    BY <1>2 DEF ChkUnknownSequenceEnded
  <2> HIDE DEF y
  <2>4. QED
    BY <2>2, <2>3 DEF SameCourse, StateType
<1>3. QED
  BY <1>1, <1>2

\* Nothing is excluded beyond the offset, so the overlap ends before it.
LEMMA AfterAdvanceCourse ==
    ASSUME NEW w \in StateType, ExclusionsApart(w), offset \in Nat, from \in Nat,
           w.unknown_length = 0 => EndsBy(w, offset)
    PROVE  SameCourse(w, AfterAdvance(w))
<1> DEFINE end == ExcludedEnd(w)
           first == IF end > from THEN end ELSE from
           ok == Assertt(w, offset >= first, "chkExcludeOverlap")
<1>1. CASE ~(offset > from /\ w.unknown_length = 0)
  BY <1>1 DEF AfterAdvance, SameCourse
<1>2. CASE offset > from /\ w.unknown_length = 0
  <2>1. AfterAdvance(w) = AddToExclude(ok, first, offset - first)
    BY <1>2 DEF AfterAdvance, ExcludeSkipped
  <2>2. /\ end \in Nat
        /\ \A i \in DOMAIN w.excluded : w.excluded[i].start + w.excluded[i].length <= end
    BY ExcludedEndRange
  <2>3. end <= offset
    <3>1. CASE w.excluded = <<>>
      BY <3>1 DEF ExcludedEnd
    <3>2. CASE w.excluded # <<>>
      <4>1. Len(w.excluded) \in DOMAIN w.excluded
        BY <3>2, ExcludedType
      <4>2. w.excluded[Len(w.excluded)].start + w.excluded[Len(w.excluded)].length <= offset
        BY <1>2, <4>1, Zenon DEF EndsBy
      <4>3. QED
        BY <3>2, <4>2 DEF ExcludedEnd
    <3>3. QED
      BY <3>1, <3>2
  <2>4. first \in Nat /\ first <= offset /\ end <= first
    BY <1>2, <2>2, <2>3
  <2>5. ok = w
    BY <2>4 DEF Assertt
  <2> HIDE DEF end, first, ok
  <2>6. EndsBy(w, first)
    <3> SUFFICES ASSUME NEW i \in DOMAIN w.excluded
                 PROVE  w.excluded[i].start + w.excluded[i].length <= first
      BY DEF EndsBy
    <3>1. w.excluded[i].start \in Int /\ w.excluded[i].length \in Int
      BY ExcludedType
    <3>2. QED
      BY <2>2, <2>4, <3>1
  <2>7. offset - first \in Int /\ first \in Int
    BY <2>4
  <2>8. QED
    BY <2>1, <2>5, <2>6, <2>7, AddToExcludeCourse
<1>3. QED
  BY <1>1, <1>2

-----------------------------------------------------------------------------
(* Chunks and their order                                                  *)

\* The chunk of the last track is closed, and it has samples.
LEMMA PushBackCourse ==
    ASSUME NEW w \in StateType, Open(w), FreeEmpty(w)
    PROVE  LET x == PushBackLastChunk(w) IN SameCourse(w, x) /\ Closed(x)
<1> DEFINE t == w.last_track
           c == w.current[t]
           x == PushBackLastChunk(w)
<1>1. w.current \in [AllTracks -> ChunkRecord] /\ w.last_track \in AllTracks \cup {Start}
  BY DEF StateType
<1>2. \A u \in Tracks : w.current[u].n \in Nat /\ (u # t => w.current[u].n = 0)
  BY <1>1 DEF Open, ChunkRecord, AllTracks
<1>3. CASE NoLastTrack(w) \/ t = Free
  <2>1. t \notin Tracks
    BY <1>3, TracksAssumption DEF NoLastTrack
  <2>2. x = w
    <3>1. CASE NoLastTrack(w)
      BY <3>1 DEF PushBackLastChunk
    <3>2. CASE ~NoLastTrack(w) /\ t = Free
      <4>1. c.n = 0
        BY <3>2 DEF FreeEmpty
      <4>2. FinalizeCurrentChunk(w) = w
        BY <3>2, <4>1, Zenon DEF FinalizeCurrentChunk
      <4>3. ~(c.n > 0)
        BY <4>1
      <4>4. QED
        BY <3>2, <4>2, <4>3, Zenon DEF PushBackLastChunk
    <3>3. QED
      BY <1>3, <3>1, <3>2
  <2>3. QED
    BY <1>2, <2>1, <2>2 DEF SameCourse, Closed
<1>4. CASE ~NoLastTrack(w) /\ t # Free
  <2>1. t \in Tracks /\ c.n > 0
    BY <1>1, <1>4 DEF NoLastTrack, AllTracks, Open
  <2>2. Assertt(w, c.n > 0, "finalizeCurrentChunk") = w
    BY <2>1 DEF Assertt
  <2>3. x = [w EXCEPT !.chunks[t] = Append(@, c), !.current[t].n = 0, !.current[t].size = 0]
    BY <1>4, <2>2, Zenon DEF PushBackLastChunk, FinalizeCurrentChunk
  <2>4. SameCourse(w, x)
    BY <2>3 DEF SameCourse, StateType
  <2>5. x.current[t].n = 0
    BY <1>1, <2>1, <2>3 DEF StateType, ChunkRecord, AllTracks
  <2>6. \A u \in Tracks \ {t} : x.current[u] = w.current[u]
    BY <1>1, <2>1, <2>3 DEF StateType, ChunkRecord, AllTracks
  <2>7. QED
    BY <1>2, <2>4, <2>5, <2>6 DEF Closed
<1>5. QED
  BY <1>3, <1>4

\* An order's index names one of its chunks.
LEMMA AtIndex ==
    ASSUME job \in Jobs, job.order # <<>>, NEW i \in Nat
    PROVE  /\ At(job.order, i).track \in Tracks /\ At(job.order, i).n \in Nat \ {0}
           /\ At(TracksOf(job.order), i) = At(job.order, i).track
<1>1. job.order \in Seq([track : Tracks, n : Nat \ {0}])
  BY JobsAssumption DEF JobType
<1>2. At(job.order, i) \in [track : Tracks, n : Nat \ {0}]
  BY <1>1, AtInOrder, Zenon
<1>3. PICK n \in Nat \ {0} : n = Len(job.order)
  BY <1>1
<1>4. (i % n) + 1 \in 1 .. n
  BY ModRange
<1>5. /\ DOMAIN TracksOf(job.order) = 1 .. n /\ Len(TracksOf(job.order)) = n
      /\ \A k \in 1 .. n : TracksOf(job.order)[k] = job.order[k].track
  BY <1>1, <1>3 DEF TracksOf
<1>6. At(TracksOf(job.order), i) = At(job.order, i).track
  BY <1>3, <1>4, <1>5 DEF At
<1>7. QED
  BY <1>2, <1>6

\* Where tracks take turns, each comes up.
LEMMA TurnsHaveAll ==
    ASSUME job \in Jobs, Steady(job), job.order # <<>>, NEW t \in Tracks
    PROVE  /\ TracksOf(job.order) \in Seq(Tracks) /\ TracksOf(job.order) # <<>>
           /\ CanSkipTo(TracksOf(job.order), t)
<1> DEFINE order == TracksOf(job.order)
<1>1. job.order \in Seq([track : Tracks, n : Nat \ {0}])
  BY JobsAssumption DEF JobType
<1>2. order \in Seq(Tracks) /\ order # <<>>
  <2> DEFINE s == job.order
             n == Len(s)
  <2>1. /\ n \in Nat \ {0} /\ DOMAIN s = 1 .. n
        /\ \A i \in 1 .. n : s[i] \in [track : Tracks, n : Nat \ {0}]
    <3>1. ASSUME NEW X, NEW q \in Seq(X), q # <<>>
          PROVE  /\ Len(q) \in Nat \ {0} /\ DOMAIN q = 1 .. Len(q)
                 /\ \A i \in 1 .. Len(q) : q[i] \in X
      BY <3>1
    <3>2. QED
      BY <1>1, <3>1, Zenon
  <2>2. /\ order = [i \in 1 .. n |-> s[i].track]
        /\ \A i \in 1 .. n : s[i].track \in Tracks
    <3>1. order = [i \in DOMAIN s |-> s[i].track]
      BY DEF TracksOf
    <3> HIDE DEF order, s
    <3>2. \A r \in [track : Tracks, n : Nat \ {0}] : r.track \in Tracks
      OBVIOUS
    <3>3. QED
      BY <2>1, <3>1, <3>2
  <2> HIDE DEF s, n
  <2> HIDE DEF order
  <2>3. order \in [1 .. n -> Tracks]
    BY <2>2
  <2>4. order \in Seq(Tracks) /\ Len(order) = n
    BY <2>1, <2>3
  <2>5. QED
    BY <2>1, <2>4
<1>3. PICK i \in Nat : At(job.order, i).track = t
  <2>1. At(job.order, 0 + 1).track = t <=> At(job.order, 0).track # t
    BY DEF Steady, TakesTurns
  <2>2. 0 \in Nat /\ 0 + 1 \in Nat
    OBVIOUS
  <2>3. QED
    BY <2>1, <2>2
<1>4. At(order, i) = t
  BY <1>3, AtIndex
<1>5. PICK n \in Nat \ {0} : n = Len(order)
  BY <1>2
<1>6. (i % n) + 1 \in 1 .. n
  BY ModRange
<1>7. (i % n) + 1 \in DOMAIN order
  <2> HIDE DEF order
  <2>1. DOMAIN order = 1 .. n
    BY <1>2, <1>5
  <2>2. QED
    BY <1>6, <2>1
<1>8. order[(i % n) + 1] = t
  BY <1>4, <1>5 DEF At
<1> HIDE DEF order
<1>9. CanSkipTo(order, t)
  BY <1>7, <1>8, Zenon DEF CanSkipTo
<1>10. QED
  BY <1>2, <1>9 DEF order

\* Where two tracks take turns the index is right for the one that is not the last.
LEMMA OtherIsDue ==
    ASSUME NEW w \in StateType, job \in Jobs, Steady(job), NEW t \in Tracks,
           Passed(w, w.last_track), w.last_track # t
    PROVE  Due(w, t)
<1> SUFFICES ASSUME job.order # <<>>
             PROVE  At(job.order, w.next_chunk).track = t
  BY DEF Due
<1>1. PICK i \in Nat : i = w.next_chunk - 1 /\ i + 1 = w.next_chunk
  BY DEF StateType, Passed
<1>2. At(job.order, i).track # t
  BY <1>1 DEF Passed
<1>3. At(job.order, i + 1).track = t
  BY <1>2 DEF Steady, TakesTurns
<1>4. QED
  BY <1>1, <1>3

\* The index moves along the order, which has every track.
LEMMA CorrectCourse ==
    ASSUME NEW w \in StateType, job \in Jobs, Steady(job), NEW t \in Tracks
    PROVE  LET x == CorrectChunkIdx(w, t)
           IN  /\ x.failed = w.failed
               /\ x.current = w.current
               /\ x.first_chunk_found = w.first_chunk_found
               /\ x.ignored_chunk_order = w.ignored_chunk_order
               /\ Unordered(job) => x.next_chunk = w.next_chunk
               /\ Due(x, t)
<1> DEFINE ok == Assertt(w, t # Free, "correctChunkIdx")
<1>1. ok = w
  BY TracksAssumption DEF Assertt
<1>2. CASE job.order # <<>>
  <2> DEFINE order == TracksOf(job.order)
  <2>1. order \in Seq(Tracks) /\ order # <<>> /\ CanSkipTo(order, t)
    BY <1>2, TurnsHaveAll
  <2>2. CorrectChunkIdx(w, t) = [w EXCEPT !.next_chunk = SkipToTrack(order, @, t)]
    BY <1>1, <1>2, <2>1 DEF CorrectChunkIdx
  <2>3. w.next_chunk \in Nat
    BY DEF StateType
  <2> HIDE DEF order
  <2>4. /\ SkipToTrack(order, w.next_chunk, t) \in Nat
        /\ At(order, SkipToTrack(order, w.next_chunk, t)) = t
    BY <2>1, <2>3, SkipToTrackCorrect
  <2>5. At(job.order, SkipToTrack(order, w.next_chunk, t)).track = t
    BY <1>2, <2>4, AtIndex DEF order
  <2>6. QED
    BY <1>2, <2>2, <2>5 DEF StateType, Due, Unordered
<1>3. CASE Unordered(job)
  BY <1>1, <1>3 DEF CorrectChunkIdx, Due, Unordered
<1>4. CASE job.order = <<>> /\ job.simple # <<>>
  <2>1. CanSkipTo(job.simple, t)
    BY <1>4 DEF Steady
  <2>2. CorrectChunkIdx(w, t) = [w EXCEPT !.next_chunk = SkipToTrack(job.simple, @, t)]
    BY <1>1, <1>4, <2>1 DEF CorrectChunkIdx
  <2>3. QED
    BY <1>4, <2>2 DEF StateType, Due, Unordered
<1>5. QED
  BY <1>2, <1>3, <1>4 DEF Unordered

LEMMA OnFirstCourse ==
    ASSUME NEW w \in StateType, job \in Jobs, Steady(job), NEW t \in Tracks,
           w.next_chunk = 0
    PROVE  LET x == OnFirstChunkFound(w, t)
           IN  /\ x.failed = w.failed
               /\ x.current = w.current
               /\ x.first_chunk_found
               /\ x.ignored_chunk_order = w.ignored_chunk_order
               /\ Due(x, t)
<1> DEFINE y == [w EXCEPT !.first_chunk_found = TRUE]
<1>1. y \in StateType /\ y.first_chunk_found
  BY DEF StateType
<1>2. Assertt(y, w.next_chunk = 0, "onFirstChunkFound") = y
  BY DEF Assertt
<1>3. OnFirstChunkFound(w, t) = CorrectChunkIdx(y, t)
  BY <1>2, TracksAssumption DEF OnFirstChunkFound
<1>4. /\ y.failed = w.failed /\ y.current = w.current
      /\ y.ignored_chunk_order = w.ignored_chunk_order
  BY DEF StateType
<1> HIDE DEF y
<1>5. QED
  BY <1>1, <1>3, <1>4, CorrectCourse

LEMMA OnNewCourse ==
    ASSUME NEW w \in StateType, job \in Jobs, Steady(job), NEW t \in Tracks,
           Open(w), FreeEmpty(w), Begun(w), w.first_chunk_found => Due(w, t)
    PROVE  LET x == OnNewChunkStarted(w, t)
           IN  /\ x.failed = w.failed
               /\ Closed(x)
               /\ x.first_chunk_found
               /\ ~x.ignored_chunk_order
               /\ Passed(x, t)
<1> DEFINE fixed == CorrectChunkIdx(w, t)
           corrected == IF w.ignored_chunk_order
                        THEN [fixed EXCEPT !.ignored_chunk_order = FALSE] ELSE w
           back == PushBackLastChunk(corrected)
           pushed == [back EXCEPT !.done_padding_after = FALSE]
           first == OnFirstChunkFound(pushed, t)
           found == IF pushed.first_chunk_found THEN pushed ELSE first
           x == [found EXCEPT !.next_chunk = @ + 1]
<1>1. OnNewChunkStarted(w, t) = x
  BY TracksAssumption, Zenon DEF OnNewChunkStarted
<1>2. /\ corrected \in StateType /\ corrected.failed = w.failed
      /\ Open(corrected) /\ FreeEmpty(corrected)
      /\ ~corrected.ignored_chunk_order
      /\ ~corrected.first_chunk_found => corrected.next_chunk = 0
      /\ corrected.first_chunk_found => Due(corrected, t)
  <2>1. CASE ~w.ignored_chunk_order
    BY <2>1 DEF Begun
  <2>2. CASE w.ignored_chunk_order
    <3>1. /\ fixed \in StateType /\ fixed.failed = w.failed /\ fixed.current = w.current
          /\ fixed.first_chunk_found = w.first_chunk_found /\ Due(fixed, t)
          /\ fixed.last_track = w.last_track
      BY CorrectChunkIdxType, CorrectCourse, CorrectBookkeeping DEF AllTracks, Bookkeeping, SameScan
    <3>2. w.first_chunk_found
      BY <2>2 DEF Begun
    <3> HIDE DEF fixed
    <3>3. corrected = [fixed EXCEPT !.ignored_chunk_order = FALSE]
      BY <2>2
    <3> HIDE DEF corrected
    <3>4. /\ corrected \in StateType /\ corrected.failed = fixed.failed
          /\ corrected.current = fixed.current /\ corrected.last_track = fixed.last_track
          /\ corrected.first_chunk_found = fixed.first_chunk_found
          /\ corrected.next_chunk = fixed.next_chunk /\ ~corrected.ignored_chunk_order
      BY <3>1, <3>3 DEF StateType
    <3>5. QED
      BY <3>1, <3>2, <3>4 DEF Open, FreeEmpty, Due
  <2>3. QED
    BY <2>1, <2>2
<1> HIDE DEF corrected
<1>3. back \in StateType /\ SameCourse(corrected, back) /\ Closed(back)
  BY <1>2, PushBackLastChunkType, PushBackCourse
<1> HIDE DEF back
<1>4. pushed \in StateType /\ SameCourse(corrected, pushed) /\ Closed(pushed)
  BY <1>3 DEF StateType, SameCourse, Closed
<1> HIDE DEF pushed
<1>5. /\ found \in StateType /\ found.failed = w.failed /\ Closed(found)
      /\ found.first_chunk_found /\ ~found.ignored_chunk_order /\ Due(found, t)
  <2>1. CASE pushed.first_chunk_found
    BY <1>2, <1>4, <2>1 DEF SameCourse, Due
  <2>2. CASE ~pushed.first_chunk_found
    <3>1. first \in StateType
      BY <1>4, OnFirstChunkFoundType
    <3>2. /\ first.failed = pushed.failed /\ first.current = pushed.current
          /\ first.first_chunk_found /\ Due(first, t)
          /\ first.ignored_chunk_order = pushed.ignored_chunk_order
      BY <1>2, <1>4, <2>2, OnFirstCourse DEF SameCourse
    <3> HIDE DEF first
    <3>3. QED
      BY <1>2, <1>4, <2>2, <3>1, <3>2 DEF SameCourse, Closed
  <2>3. QED
    BY <2>1, <2>2
<1> HIDE DEF found
<1>6. /\ x.failed = found.failed /\ x.current = found.current
      /\ x.first_chunk_found = found.first_chunk_found
      /\ x.ignored_chunk_order = found.ignored_chunk_order
      /\ x.next_chunk = found.next_chunk + 1 /\ found.next_chunk \in Nat
  BY <1>5 DEF StateType
<1>7. Passed(x, t)
  <2>1. x.next_chunk > 0 /\ x.next_chunk - 1 = found.next_chunk
    BY <1>6
  <2>2. QED
    BY <1>5, <2>1 DEF Passed, Due
<1> HIDE DEF x
<1>8. QED
  BY <1>1, <1>5, <1>6, <1>7 DEF Closed

-----------------------------------------------------------------------------
(* A match and a predicted chunk                                           *)

LEMMA AddFramesCourse ==
    ASSUME NEW w \in StateType, NEW t \in AllTracks, NEW off, NEW n, NEW length
    PROVE  SameCourse(w, AddFrames(w, t, off, n, length))
BY DEF AddFrames, SetLastTrack, SameCourse, StateType

\* Out of unknown bytes the index is corrected, which without an order moves nothing.
LEMMA EndedCourse ==
    ASSUME NEW w \in StateType, job \in Jobs, Steady(job), NEW t \in Tracks, NEW off \in Nat,
           EndsBy(w, off - w.unknown_length), w.unknown_length > 0 => Unordered(job),
           NEW x, x = IF w.unknown_length = 0 THEN w
                      ELSE CorrectChunkIdx(ChkUnknownSequenceEnded(w, off), t)
    PROVE  /\ x \in StateType /\ SameCourse(w, x)
           /\ x.current = w.current /\ x.last_track = w.last_track
<1> DEFINE chk == ChkUnknownSequenceEnded(w, off)
<1>1. CASE w.unknown_length = 0
  BY <1>1 DEF SameCourse
<1>2. CASE w.unknown_length # 0
  <2>1. /\ chk \in StateType /\ SameCourse(w, chk)
        /\ chk.current = w.current /\ chk.last_track = w.last_track
    BY ChkUnknownSequenceEndedType, ChkEndedCourse, ChkEndedScan
  <2>2. Unordered(job)
    BY <1>2 DEF StateType
  <2>3. x = CorrectChunkIdx(chk, t)
    BY <1>2
  <2> HIDE DEF chk
  <2>4. x \in StateType /\ SameCourse(chk, x) /\ x.current = chk.current
    BY <2>1, <2>2, <2>3, CorrectChunkIdxType, CorrectCourse DEF SameCourse
  <2>5. x.last_track = chk.last_track
    BY <2>1, <2>3, CorrectBookkeeping DEF Bookkeeping, SameScan
  <2>6. QED
    BY <2>1, <2>4, <2>5 DEF SameCourse
<1>3. QED
  BY <1>1, <1>2

LEMMA ChunkForMatchCourse ==
    ASSUME NEW w \in StateType, job \in Jobs, Steady(job), NEW t \in Tracks, NEW off \in Nat,
           EndsBy(w, off - w.unknown_length), w.unknown_length > 0 => Unordered(job),
           Open(w), FreeEmpty(w), OnCourse(w)
    PROVE  LET x == ChunkForMatch(w, t, off)
           IN  /\ x.failed = w.failed
               /\ Begun(x) /\ x.first_chunk_found /\ Passed(x, t)
               /\ \A u \in Tracks \ {t} : x.current[u].n = 0
<1> DEFINE ended == IF w.unknown_length > 0
                    THEN CorrectChunkIdx(ChkUnknownSequenceEnded(w, off), t) ELSE w
           first == OnFirstChunkFound(ended, t)
           found == IF ended.first_chunk_found THEN ended ELSE first
           new == OnNewChunkStarted(found, t)
           begun == BeginChunk(new, t, off)
           started == IF found.last_track = t THEN found ELSE begun
           again == OnNewChunkStarted(started, t)
           limit == job.ref[t].has_duplicates /\ ChunkReachedSampleLimit(started, t)
           x == IF limit THEN again ELSE started
<1>1. ChunkForMatch(w, t, off) = x
  BY Zenon DEF ChunkForMatch
<1>2. t \in AllTracks
  BY DEF AllTracks
<1>3. /\ ended \in StateType /\ SameCourse(w, ended)
      /\ ended.current = w.current /\ ended.last_track = w.last_track
  <2>1. ended = IF w.unknown_length = 0 THEN w
                ELSE CorrectChunkIdx(ChkUnknownSequenceEnded(w, off), t)
    <3>1. w.unknown_length \in Nat
      BY DEF StateType
    <3>2. w.unknown_length > 0 <=> w.unknown_length # 0
      BY <3>1
    <3>3. QED
      BY <3>2, Zenon
  <2> HIDE DEF ended
  <2>2. QED
    BY <2>1, EndedCourse
<1> HIDE DEF ended
<1>4. /\ found \in StateType /\ found.failed = w.failed
      /\ found.current = w.current /\ found.last_track = w.last_track
      /\ found.first_chunk_found /\ Begun(found)
      /\ IF w.last_track = t THEN Passed(found, t) ELSE Due(found, t)
  <2>1. CASE ended.first_chunk_found
    <3>1. Begun(ended) /\ Passed(ended, ended.last_track)
      BY <1>3, <2>1 DEF SameCourse, OnCourse, Begun, InStep, Passed
    <3>2. ended.last_track # t => Due(ended, t)
      BY <1>3, <3>1, OtherIsDue
    <3>3. QED
      BY <1>3, <2>1, <3>1, <3>2 DEF SameCourse
  <2>2. CASE ~ended.first_chunk_found
    <3>1. ended.next_chunk = 0 /\ ~ended.ignored_chunk_order
      BY <1>3, <2>2 DEF SameCourse, OnCourse, Begun
    <3>2. first \in StateType /\ first.last_track = ended.last_track
      BY <1>2, <1>3, OnFirstChunkFoundType, OnFirstBookkeeping DEF Bookkeeping, SameScan
    <3>3. /\ first.failed = ended.failed /\ first.current = ended.current
          /\ first.first_chunk_found /\ Due(first, t)
          /\ first.ignored_chunk_order = ended.ignored_chunk_order
      BY <1>3, <3>1, OnFirstCourse
    <3>4. w.last_track = t => job.order = <<>>
      <4>1. job.order # <<>> => w.last_track = Start
        BY <1>3, <2>2 DEF SameCourse, OnCourse, InStep
      <4>2. QED
        BY <4>1, TracksAssumption
    <3> HIDE DEF first
    <3>5. found = first
      BY <2>2
    <3>6. QED
      BY <1>3, <3>1, <3>2, <3>3, <3>4, <3>5 DEF SameCourse, Begun, Passed
  <2>3. QED
    BY <2>1, <2>2
<1> HIDE DEF found
<1>5. Open(found) /\ FreeEmpty(found)
  BY <1>4 DEF Open, FreeEmpty
<1>6. CASE found.last_track = t
  <2>1. started = found
    BY <1>6
  <2>2. \A u \in Tracks \ {t} : started.current[u].n = 0
    <3>1. found.current \in [AllTracks -> ChunkRecord]
      BY <1>4 DEF StateType
    <3>2. QED
      BY <1>5, <1>6, <2>1, <3>1 DEF Open, ChunkRecord, AllTracks
  <2>3. CASE ~limit
    <3>1. x = found
      BY <2>1, <2>3
    <3> HIDE DEF x, limit, again, started
    <3>2. QED
      BY <1>1, <1>4, <1>6, <2>1, <2>2, <3>1
  <2>4. CASE limit
    <3>1. job.order = <<>>
      BY <2>4 DEF Steady
    <3>2. x = again
      BY <2>4
    <3>3. /\ again.failed = found.failed /\ Closed(again)
          /\ again.first_chunk_found /\ ~again.ignored_chunk_order /\ Passed(again, t)
      <4> HIDE DEF started, limit
      <4>1. Due(found, t)
        BY <3>1 DEF Due
      <4>2. QED
        BY <1>4, <1>5, <2>1, <4>1, OnNewCourse
    <3> HIDE DEF x, limit, again, started
    <3>4. QED
      BY <1>1, <1>4, <3>2, <3>3 DEF Closed, Begun
  <2>5. QED
    BY <2>3, <2>4
<1>7. CASE found.last_track # t
  <2>1. /\ new \in StateType /\ new.failed = found.failed /\ Closed(new)
        /\ new.first_chunk_found /\ ~new.ignored_chunk_order /\ Passed(new, t)
    <3>1. Due(found, t)
      BY <1>4, <1>7
    <3>2. QED
      BY <1>2, <1>4, <1>5, <3>1, OnNewCourse, OnNewChunkStartedType
  <2> HIDE DEF new
  <2>2. /\ begun.failed = new.failed /\ begun.next_chunk = new.next_chunk
        /\ begun.first_chunk_found /\ ~begun.ignored_chunk_order
    BY <2>1 DEF BeginChunk, StateType
  <2>3. \A u \in Tracks : begun.current[u].n = 0
    <3>1. new.current \in [AllTracks -> ChunkRecord]
      BY <2>1 DEF StateType
    <3>2. \A u \in Tracks : begun.current[u].n = new.current[u].n
      <4>1. Tracks \subseteq AllTracks
        BY DEF AllTracks
      <4>2. t \in AllTracks /\ new.current[t] \in ChunkRecord
        BY <1>2, <3>1, <4>1
      <4> DEFINE at == [new.current[t] EXCEPT !.off = off, !.already_excluded = new.total_excluded]
      <4>3. at.n = new.current[t].n
        BY <4>2 DEF ChunkRecord
      <4>4. begun.current = [new.current EXCEPT ![t] = at]
        BY <2>1, <3>1, <4>2 DEF BeginChunk, StateType, ChunkRecord
      <4> HIDE DEF at, begun
      <4>5. QED
        BY <3>1, <4>1, <4>2, <4>3, <4>4
    <3>3. QED
      BY <2>1, <3>2 DEF Closed
  <2> HIDE DEF begun
  <2>4. started = begun
    BY <1>7
  <2>5. ~limit
    <3>1. job.ref[t].likely_n \in Seq(Nat \ {0})
      BY <1>2, RefType DEF TrackInfo
    <3>2. Len(job.ref[t].likely_n) = 1 => job.ref[t].likely_n[1] # 0
      BY <3>1
    <3> HIDE DEF started
    <3>3. QED
      BY <2>3, <2>4, <3>2 DEF ChunkReachedSampleLimit
  <2>6. x = begun
    BY <2>4, <2>5
  <2> HIDE DEF x
  <2>7. QED
    BY <1>1, <1>4, <2>1, <2>2, <2>3, <2>6 DEF Begun, Passed
<1>8. QED
  BY <1>6, <1>7

LEMMA AddMatchCourse ==
    ASSUME NEW w \in StateType, job \in Jobs, Steady(job), NEW off \in Nat, NEW m,
           m.track \in Tracks, m.length \in Nat, m.pad \in Nat,
           FreeEmpty(w), Book(w), w.unknown_length <= off, Behind(w, off - w.unknown_length),
           w.unknown_length > 0 => off - w.unknown_length <= Size,
           w.unknown_length > 0 => Unordered(job),
           Open(w), OnCourse(w)
    PROVE  LET x == AddMatch(w, off, m)
           IN  x.failed = w.failed /\ Open(x) /\ OnCourse(x)
<1> DEFINE t == m.track
           chk == ChkUnknownSequenceEnded(w, off)
           chunk == ChunkForMatch(w, t, off)
           added == AddFrames(chunk, t, off, 1, m.length)
           counted == [added EXCEPT !.current[t].n = @ + 1]
           end == off + m.length
           padded == AddToExclude(counted, end, m.pad)
           done == [padded EXCEPT !.done_padding = TRUE]
<1>1. /\ t \in AllTracks /\ end \in Nat /\ off <= end /\ off \in Int /\ end \in Int
  BY DEF AllTracks
<1>2. EndsBy(w, off - w.unknown_length) /\ EndsBy(chk, off)
  <2>1. Behind(chk, off)
    BY ChkEndedRange
  <2>2. QED
    BY <2>1 DEF Behind, EndsBy
<1>3. chunk \in StateType /\ chunk.excluded = chk.excluded
  BY ChunkForMatchType, ChunkForMatchBookkeeping DEF SameExclusions
<1>4. /\ chunk.failed = w.failed
      /\ Begun(chunk) /\ chunk.first_chunk_found /\ Passed(chunk, t)
      /\ \A u \in Tracks \ {t} : chunk.current[u].n = 0
  BY <1>2, ChunkForMatchCourse
<1>5. AddMatch(w, off, m) = IF m.pad = 0 THEN counted ELSE done
  BY Zenon DEF AddMatch
<1> HIDE DEF chunk, chk
<1>6. /\ added \in StateType /\ SameCourse(chunk, added)
      /\ added.current = chunk.current /\ added.excluded = chunk.excluded
      /\ added.last_track = t
  <2>1. t \in AllTracks /\ 1 \in Nat /\ off \in Nat /\ m.length \in Nat
    BY <1>1
  <2>2. added \in StateType
    BY <1>3, <2>1, AddFramesType, Zenon
  <2>3. SameCourse(chunk, added)
    BY <1>3, <2>1, AddFramesCourse, Zenon
  <2>4. /\ added.current = chunk.current /\ added.excluded = chunk.excluded
        /\ added.last_track = t
    BY <1>3, <2>1, AddFramesScan
  <2>5. QED
    BY <2>2, <2>3, <2>4
<1> HIDE DEF added
<1>7. /\ counted \in StateType /\ SameCourse(chunk, counted)
      /\ counted.excluded = chk.excluded /\ counted.last_track = t
      /\ counted.current[t].n > 0
      /\ \A u \in Tracks \ {t} : counted.current[u].n = 0
  <2>1. added.current \in [AllTracks -> ChunkRecord]
    BY <1>6 DEF StateType
  <2>2. counted.current = [added.current EXCEPT ![t].n = @ + 1]
    BY <1>6 DEF StateType
  <2>3. /\ counted.current \in [AllTracks -> ChunkRecord]
        /\ counted.current[t].n > 0
        /\ \A u \in Tracks \ {t} : counted.current[u] = added.current[u]
    <3>1. t \in AllTracks /\ Tracks \subseteq AllTracks
      BY <1>1 DEF AllTracks
    <3>c. added.current[t] \in ChunkRecord
      BY <2>1, <3>1
    <3>2. /\ added.current[t].n \in Nat
          /\ [added.current[t] EXCEPT !.n = @ + 1] \in ChunkRecord
          /\ [added.current[t] EXCEPT !.n = @ + 1].n = added.current[t].n + 1
      BY <3>c DEF ChunkRecord
    <3>3. /\ counted.current \in [AllTracks -> ChunkRecord]
          /\ counted.current[t] = [added.current[t] EXCEPT !.n = @ + 1]
          /\ \A u \in Tracks \ {t} : counted.current[u] = added.current[u]
      BY <2>1, <2>2, <3>1, <3>2
    <3>4. QED
      BY <3>2, <3>3
  <2>4. counted \in StateType
    BY <1>6, <2>2, <2>3 DEF StateType
  <2>5. /\ counted.failed = added.failed
        /\ counted.first_chunk_found = added.first_chunk_found
        /\ counted.ignored_chunk_order = added.ignored_chunk_order
        /\ counted.next_chunk = added.next_chunk
        /\ counted.excluded = added.excluded /\ counted.last_track = added.last_track
    BY <1>6 DEF StateType
  <2> HIDE DEF counted
  <2>6. QED
    BY <1>3, <1>4, <1>6, <2>3, <2>4, <2>5 DEF SameCourse
<1> HIDE DEF counted
<1>8. counted.failed = w.failed /\ Open(counted) /\ OnCourse(counted)
  <2>1. \A u \in Tracks : counted.current[u].n > 0 <=> u = t
    BY <1>7
  <2>2. QED
    BY <1>4, <1>7, <2>1 DEF SameCourse, Open, OnCourse, Begun, InStep, Passed
<1>9. CASE m.pad = 0
  BY <1>5, <1>8, <1>9
<1>10. CASE m.pad # 0
  <2>1. EndsBy(counted, end)
    <3>1. ASSUME NEW i \in DOMAIN counted.excluded
          PROVE  counted.excluded[i].start + counted.excluded[i].length <= end
      <4>1. /\ counted.excluded[i].start \in Int /\ counted.excluded[i].length \in Int
        BY <1>7, ExcludedType
      <4>2. counted.excluded[i].start + counted.excluded[i].length <= off
        BY <1>2, <1>7 DEF EndsBy
      <4>3. QED
        BY <1>1, <4>1, <4>2
    <3>2. QED
      BY <3>1 DEF EndsBy
  <2>2. m.pad \in Int
    OBVIOUS
  <2>3. /\ padded \in StateType /\ SameCourse(counted, padded)
        /\ padded.current = counted.current /\ padded.last_track = counted.last_track
    BY <1>1, <1>7, <2>1, <2>2, AddToExcludeType, AddToExcludeCourse, AddToExcludeScan
       DEF SameScan
  <2> HIDE DEF padded
  <2>4. /\ done.failed = padded.failed /\ done.current = padded.current
        /\ done.last_track = padded.last_track
        /\ done.first_chunk_found = padded.first_chunk_found
        /\ done.ignored_chunk_order = padded.ignored_chunk_order
        /\ done.next_chunk = padded.next_chunk
    BY <2>3 DEF StateType
  <2> HIDE DEF done
  <2>5. QED
    BY <1>5, <1>8, <1>10, <2>3, <2>4 DEF SameCourse, Open, OnCourse, Begun, InStep, Passed
<1>11. QED
  BY <1>9, <1>10

LEMMA AddPredictedCourse ==
    ASSUME NEW w \in StateType, job \in Jobs, Steady(job), NEW off \in Nat, NEW c,
           GoodChunk(c, off), c.track # Free, c.n > 0, FreeEmpty(w),
           EndsBy(w, off - w.unknown_length), w.unknown_length > 0 => Unordered(job),
           job.order # <<>> => c.track # w.last_track, Open(w), OnCourse(w)
    PROVE  LET x == AddPredicted(w, off, c)
           IN  x.failed = w.failed /\ Open(x) /\ OnCourse(x)
<1> DEFINE t == c.track
           ended == IF w.unknown_length = 0 THEN w
                    ELSE CorrectChunkIdx(ChkUnknownSequenceEnded(w, off), t)
           started == OnNewChunkStarted(ended, t)
           filled == [started EXCEPT !.current[t] =
                         [off |-> off, already_excluded |-> started.total_excluded,
                          size |-> c.size, n |-> c.n]]
           x == AddFrames(filled, t, off, c.n, c.sample)
<1>1. /\ t \in AllTracks /\ t \in Tracks
      /\ c.size \in Nat /\ c.n \in Nat /\ c.sample \in Nat
  BY DEF GoodChunk, AllTracks
<1>2. AddPredicted(w, off, c) = x
  BY Zenon DEF AddPredicted
<1>3. /\ ended \in StateType /\ SameCourse(w, ended)
      /\ ended.current = w.current /\ ended.last_track = w.last_track
  BY <1>1, EndedCourse
<1> HIDE DEF ended
<1>4. /\ Open(ended) /\ FreeEmpty(ended) /\ Begun(ended)
      /\ ended.first_chunk_found => Due(ended, t)
  <2>1. Open(ended) /\ FreeEmpty(ended) /\ Begun(ended)
    BY <1>3 DEF Open, FreeEmpty, OnCourse, Begun, SameCourse
  <2>2. ended.first_chunk_found => Passed(ended, ended.last_track)
    BY <1>3 DEF OnCourse, InStep, Passed, SameCourse
  <2>3. ended.first_chunk_found /\ ended.last_track # t => Due(ended, t)
    BY <1>1, <1>3, <2>2, OtherIsDue
  <2>4. ended.last_track = t => Due(ended, t)
    BY <1>3 DEF Due
  <2>5. QED
    BY <2>1, <2>3, <2>4
<1>5. /\ started \in StateType /\ started.failed = w.failed /\ Closed(started)
      /\ started.first_chunk_found /\ ~started.ignored_chunk_order /\ Passed(started, t)
  <2>1. started \in StateType
    BY <1>1, <1>3, OnNewChunkStartedType
  <2>2. /\ started.failed = ended.failed /\ Closed(started)
        /\ started.first_chunk_found /\ ~started.ignored_chunk_order /\ Passed(started, t)
    BY <1>1, <1>3, <1>4, OnNewCourse
  <2>3. QED
    BY <1>3, <2>1, <2>2 DEF SameCourse
<1> HIDE DEF started
<1>6. /\ filled \in StateType /\ SameCourse(started, filled)
      /\ filled.current[t].n = c.n
      /\ \A u \in Tracks \ {t} : filled.current[u].n = 0
  <2>1. started.current \in [AllTracks -> ChunkRecord] /\ started.total_excluded \in Int
    BY <1>5 DEF StateType
  <2>2. [off |-> off, already_excluded |-> started.total_excluded,
         size |-> c.size, n |-> c.n] \in ChunkRecord
    BY <1>1, <2>1 DEF ChunkRecord
  <2>3. filled \in StateType /\ SameCourse(started, filled)
    BY <1>1, <1>5, <2>1, <2>2 DEF StateType, SameCourse
  <2>4. filled.current[t].n = c.n /\ \A u \in Tracks \ {t} : filled.current[u] = started.current[u]
    BY <1>1, <1>5, <2>1 DEF StateType, AllTracks
  <2>5. QED
    BY <1>5, <2>3, <2>4 DEF Closed
<1> HIDE DEF filled
<1>7. /\ SameCourse(filled, x) /\ x.current = filled.current /\ x.last_track = t
  BY <1>1, <1>6, AddFramesCourse, AddFramesScan
<1> HIDE DEF x
<1>8. \A u \in Tracks : x.current[u].n > 0 <=> u = t
  BY <1>6, <1>7
<1>9. QED
  BY <1>2, <1>5, <1>6, <1>7, <1>8 DEF SameCourse, Open, OnCourse, Begun, InStep, Passed

-----------------------------------------------------------------------------
(* Predictions                                                             *)

\* A chunk whose number of samples is one of the track's likely ones.
LEMMA FitChunksCourse ==
    ASSUME job \in Jobs, NEW off, NEW t \in AllTracks,
           NEW c \in FitChunks(off, t, Elements(job.ref[t].likely_n))
    PROVE  c.n > 0 /\ c.track = t
<1>1. job.ref[t].likely_n \in Seq(Nat \ {0})
  BY RefType DEF TrackInfo
<1>2. c.track = t /\ \E n \in Elements(job.ref[t].likely_n) : c.n = n
  BY DEF FitChunks, Chunk
<1>3. Elements(job.ref[t].likely_n) \subseteq Nat \ {0}
  BY <1>1 DEF Elements
<1>4. QED
  BY <1>2, <1>3

\* A perfect fit is one of these.
LEMMA PerfectChunksCourse ==
    ASSUME job \in Jobs, Steady(job), NEW off, NEW t \in AllTracks,
           NEW c \in TrackChunks(off, t, TRUE), c # Nothing
    PROVE  c.n > 0 /\ c.track = t
<1>1. job.ref[t].predictable /\ t \in Tracks
  BY DEF TrackChunks, AllTracks, Steady, Orderly
<1>2. c \in FitChunks(off, t, Elements(job.ref[t].likely_n))
  BY <1>1 DEF TrackChunks
<1>3. QED
  BY <1>1, <1>2, FitChunksCourse

\* A chunk that fits has a likely number of samples, and one that is assumed at least the
\* one that the pattern before it leaves room for.
LEMMA TrackChunksCourse ==
    ASSUME job \in Jobs, Steady(job), NEW off \in Nat, NEW t \in AllTracks,
           NEW only_perfect_fit, NEW c \in TrackChunks(off, t, only_perfect_fit), c # Nothing,
           off + PatHalf <= Size
    PROVE  c.n > 0 /\ c.track = t
<1>1. job.ref[t].predictable /\ t \in Tracks
  BY DEF TrackChunks, AllTracks, Steady, Orderly
<1>2. /\ job.ref[t].likely_sizes \in Seq(Nat \ {0}) /\ job.ref[t].likely_n \in Seq(Nat \ {0})
      /\ job.ref[t].likely_sizes # <<>> /\ job.ref[t].likely_n # <<>>
  BY <1>1, RefType DEF TrackInfo
<1>3. CASE c \in FitChunks(off, t, Elements(job.ref[t].likely_n))
  BY <1>1, <1>3, FitChunksCourse
<1>4. CASE ~only_perfect_fit /\ c = BoldChunk(off, t)
  <2> DEFINE ref == job.ref[t]
             s == ref.likely_sizes[1]
             assumed == IF ref.likely_n_p < 90 THEN Max({1, MinChunkBytes \div s})
                        ELSE ref.likely_n[1]
             fitting == (Size - off) \div s
             n == Min({assumed, fitting})
  <2>1. s \in Nat \ {0} /\ ref.likely_n[1] \in Nat \ {0} /\ s <= PatHalf
    <3>1. s <= PatHalf
      BY <1>1 DEF Steady
    <3>2. \A q \in Seq(Nat \ {0}) : q # <<>> => q[1] \in Nat \ {0}
      OBVIOUS
    <3> HIDE DEF ref
    <3>4. s \in Nat \ {0} /\ ref.likely_n[1] \in Nat \ {0}
      BY <1>2, <3>2, Zenon DEF ref
    <3>3. QED
      BY <3>1, <3>4
  <2>2. fitting \in Nat /\ fitting >= 1
    <3> HIDE DEF s
    <3>1. Size - off \in Nat /\ s <= Size - off
      BY <1>4, <2>1, SizeAssumption
    <3>2. QED
      BY <2>1, <3>1
  <2>3. assumed \in Nat /\ assumed >= 1
    <3> HIDE DEF s
    <3>1. MinChunkBytes \div s \in Nat
      BY <2>1, SizeAssumption
    <3>2. /\ Max({1, MinChunkBytes \div s}) \in Nat
          /\ Max({1, MinChunkBytes \div s}) >= 1
      BY <3>1, MaxOfTwo
    <3>3. QED
      BY <2>1, <3>2
  <2>4. n > 0
    <3> HIDE DEF s, assumed, fitting
    <3>1. QED
      BY <2>2, <2>3, MinOfTwo
  <2>5. c = Chunk(off, n, t, s)
    BY <1>4 DEF BoldChunk
  <2> HIDE DEF n, s
  <2>6. QED
    BY <2>4, <2>5 DEF Chunk
<1>5. QED
  BY <1>1, <1>3, <1>4 DEF TrackChunks

\* A chunk that the order tells is of the track it names next.
LEMMA ViaOrderCourse ==
    ASSUME NEW w \in StateType, job \in Jobs, Steady(job), NEW off \in Nat,
           job.order # <<>>, NEW p \in ViaOrder(w, off)
    PROVE  /\ p.ignored => w.ignored_chunk_order \/ w.last_track # Start
           /\ p.chunk # Nothing =>
                p.chunk.n > 0 /\ p.chunk.track = At(job.order, w.next_chunk).track
<1> DEFINE t == LikelyNext(w).track
           n == LikelyNext(w).n
           likely == job.ref[t].likely_n
<1>1. t \in Tracks /\ n \in Nat \ {0} /\ t = At(job.order, w.next_chunk).track
  <2>1. w.next_chunk \in Nat
    BY DEF StateType
  <2>2. QED
    BY <2>1, AtIndex DEF LikelyNext
<1>2. Elements(likely) \subseteq Nat \ {0}
  <2>1. likely \in Seq(Nat \ {0})
    BY <1>1, RefType DEF TrackInfo, AllTracks
  <2>2. QED
    BY <2>1 DEF Elements
<1>3. ASSUME NEW c \in OrderChunks(w, off), c # Nothing
      PROVE  c.n > 0 /\ c.track = t
  <2>1. \/ c \in FitChunks(off, t, {n} \cup Elements(likely))
        \/ c = Chunk(off, n, t, job.ref[t].likely_sizes[1])
    BY <1>3 DEF OrderChunks
  <2>2. CASE c = Chunk(off, n, t, job.ref[t].likely_sizes[1])
    BY <1>1, <2>2 DEF Chunk
  <2>3. CASE c \in FitChunks(off, t, {n} \cup Elements(likely))
    <3> DEFINE ns == {n} \cup Elements(likely)
    <3>1. ns \subseteq Nat \ {0}
      BY <1>1, <1>2
    <3> HIDE DEF ns, t, likely
    <3>2. c.track = t /\ c.n \in ns
      BY <2>3 DEF FitChunks, Chunk, ns
    <3>3. c.n \in Nat \ {0}
      BY <3>1, <3>2, Zenon
    <3>4. QED
      BY <3>2, <3>3
  <2>4. QED
    BY <2>1, <2>2, <2>3
<1> HIDE DEF t
<1>4. CASE p = [chunk |-> Nothing, ignored |-> TRUE] /\ w.last_track # Start
  BY <1>4
<1>5. CASE \E c \in OrderChunks(w, off) : p = [chunk |-> c, ignored |-> w.ignored_chunk_order]
  BY <1>1, <1>3, <1>5
<1>6. QED
  BY <1>4, <1>5, Zenon DEF ViaOrder

\* An order is ignored only where it was asked, and where tracks take turns no chunk is
\* predicted of the track that was last.
LEMMA PredictionsCourse ==
    ASSUME NEW w \in StateType, job \in Jobs, Steady(job), NEW off \in Nat, OnCourse(w),
           NEW only_perfect_fit, NEW p \in Predictions(w, off, only_perfect_fit)
    PROVE  /\ p.ignored =>
                w.ignored_chunk_order \/ (w.first_chunk_found /\ job.order # <<>>)
           /\ p.chunk # Nothing =>
                p.chunk.n > 0 /\ (job.order # <<>> => p.chunk.track # w.last_track)
<1> DEFINE chunks ==
          IF w.last_track = Start
          THEN {Nothing} \cup UNION {TrackChunks(off, t, only_perfect_fit) :
                                       t \in {job.orig_first} \cup job.fallback}
          ELSE FallbackChunks(w, off)
               \cup UNION {TrackChunks(off, t, only_perfect_fit) : t \in NextTracks(w, off)}
           none == [chunk |-> Nothing, ignored |-> w.ignored_chunk_order]
<1>1. \/ p = none
      \/ PredictsViaOrder(w, off) /\ p \in ViaOrder(w, off)
      \/ /\ \E c \in chunks : p = [none EXCEPT !.chunk = c]
         /\ w.last_track = Start => ~(off + PatHalf > Size)
  BY Zenon DEF Predictions
<1>2. ASSUME job.order # <<>>
      PROVE  /\ w.last_track # Start => w.first_chunk_found
             /\ At(job.order, w.next_chunk).track # w.last_track
  <2>1. w.next_chunk \in Nat
    BY DEF StateType
  <2>2. CASE ~w.first_chunk_found
    <3>1. w.last_track = Start /\ At(job.order, w.next_chunk).track \in Tracks
      BY <1>2, <2>1, <2>2, AtIndex DEF OnCourse, InStep
    <3>2. QED
      BY <2>2, <3>1, TracksAssumption
  <2>3. CASE w.first_chunk_found
    <3>1. PICK i \in Nat : i = w.next_chunk - 1 /\ i + 1 = w.next_chunk
      BY <1>2, <2>1, <2>3 DEF OnCourse, InStep, Passed
    <3>2. At(job.order, i).track = w.last_track
      BY <1>2, <2>3, <3>1 DEF OnCourse, InStep, Passed
    <3>3. At(job.order, i).track \in Tracks
      BY <1>2, AtIndex
    <3>4. At(job.order, i + 1).track # At(job.order, i).track
      BY <1>2, <3>3 DEF Steady, TakesTurns
    <3>5. QED
      BY <2>3, <3>1, <3>2, <3>4
  <2>4. QED
    BY <2>2, <2>3
<1>3. CASE p = none
  BY <1>3
<1>4. CASE PredictsViaOrder(w, off) /\ p \in ViaOrder(w, off)
  <2>1. job.order # <<>>
    BY <1>4 DEF PredictsViaOrder, AsksOrder
  <2>2. QED
    BY <1>2, <1>4, <2>1, ViaOrderCourse
<1>5. ASSUME NEW c \in chunks, p = [none EXCEPT !.chunk = c],
             w.last_track = Start => ~(off + PatHalf > Size)
      PROVE  /\ p.ignored = w.ignored_chunk_order
             /\ p.chunk # Nothing =>
                  p.chunk.n > 0 /\ (job.order # <<>> => p.chunk.track # w.last_track)
  <2>1. p.chunk = c /\ p.ignored = w.ignored_chunk_order
    BY <1>5
  <2>2. Size \in Nat /\ PatHalf \in Nat
    BY SizeAssumption
  <2>3. CASE w.last_track = Start
    <3>1. off + PatHalf <= Size
      BY <1>5, <2>2, <2>3
    <3>2. {job.orig_first} \cup job.fallback \subseteq Tracks
      BY JobsAssumption DEF JobType
    <3>3. \/ c = Nothing
          \/ \E t \in {job.orig_first} \cup job.fallback :
                c \in TrackChunks(off, t, only_perfect_fit)
      BY <2>3, Zenon
    <3>4. ASSUME NEW t \in {job.orig_first} \cup job.fallback,
                 c \in TrackChunks(off, t, only_perfect_fit), c # Nothing
          PROVE  c.n > 0 /\ c.track # w.last_track
      <4>1. t \in AllTracks /\ t # Start
        BY <3>2, TracksAssumption DEF AllTracks
      <4>2. QED
        BY <2>3, <3>1, <3>4, <4>1, TrackChunksCourse
    <3>5. QED
      BY <2>1, <3>3, <3>4
  <2>4. CASE w.last_track # Start
    <3>1. \/ c \in FallbackChunks(w, off)
          \/ \E t \in NextTracks(w, off) : c \in TrackChunks(off, t, only_perfect_fit)
      BY <2>4, Zenon
    <3>2. ASSUME c \in FallbackChunks(w, off), c # Nothing
          PROVE  c.n > 0 /\ (job.order # <<>> => c.track # w.last_track)
      <4>1. job.simple # <<>> /\ c \in TrackChunks(off, At(job.simple, w.next_chunk), TRUE)
        BY <3>2 DEF FallbackChunks
      <4>2. job.simple \in Seq(Tracks) /\ w.next_chunk \in Nat
        BY JobsAssumption DEF JobType, StateType
      <4>3. At(job.simple, w.next_chunk) \in Tracks
        BY <4>1, <4>2, AtInOrder, Zenon
      <4>4. At(job.simple, w.next_chunk) \in AllTracks
        BY <4>3 DEF AllTracks
      <4>5. c.n > 0 /\ c.track = At(job.simple, w.next_chunk)
        BY <3>2, <4>1, <4>4, PerfectChunksCourse
      <4>6. job.order # <<>> =>
              At(job.simple, w.next_chunk) = At(job.order, w.next_chunk).track
        BY <4>1, <4>2 DEF Steady
      <4>7. QED
        BY <1>2, <4>5, <4>6
    <3>3. ASSUME NEW t \in NextTracks(w, off), c \in TrackChunks(off, t, only_perfect_fit),
                 c # Nothing
          PROVE  c.n > 0 /\ (job.order # <<>> => c.track # w.last_track)
      <4>1. t \in AllTracks
        BY <2>4, NextTracksType
      <4>2. off + PatHalf <= Size
        BY <2>2, <3>3 DEF NextTracks
      <4>3. c.n > 0 /\ c.track = t
        BY <3>3, <4>1, <4>2, TrackChunksCourse
      <4>4. ASSUME job.order # <<>>
            PROVE  t # w.last_track
        <5>1. ~job.has_free
          BY <4>4 DEF Steady
        <5>2. t \in job.ref[w.last_track].next /\ t # Free
          BY <3>3, <5>1 DEF NextTracks
        <5>3. t \in Tracks
          BY <4>1, <5>2 DEF AllTracks
        <5>4. \A u \in Tracks : u \notin job.ref[u].next
          BY <4>4 DEF Steady
        <5>5. QED
          BY <5>2, <5>3, <5>4
      <4>5. QED
        BY <4>3, <4>4
    <3>4. QED
      BY <2>1, <3>1, <3>2, <3>3
  <2>5. QED
    BY <2>3, <2>4
<1>6. QED
  BY <1>1, <1>3, <1>4, <1>5

\* Asked for anywhere, the index is in step.
LEMMA PredictingCourse ==
    ASSUME NEW w \in StateType, job \in Jobs, OnCourse(w), NEW p,
           p.ignored => w.ignored_chunk_order \/ (w.first_chunk_found /\ job.order # <<>>)
    PROVE  Consulted(w, Predicting(w, p))
<1>1. AsksOrder(w) => ChunkOrderInStep(w)
  BY DEF AsksOrder, ChunkOrderInStep, OnCourse, Begun, InStep, Passed
<1>2. Assertt(w, AsksOrder(w) => ChunkOrderInStep(w), "currentChunkFinished") = w
  BY <1>1 DEF Assertt
<1>3. Predicting(w, p) = [w EXCEPT !.ignored_chunk_order = p.ignored]
  BY <1>2 DEF Predicting
<1>4. QED
  BY <1>3 DEF Consulted, StateType

\* Of duplicate tracks a frame is only believed to be of the one expected, or the codec tells;
\* so the index does not move before the first chunk.
LEMMA AfterExpectedCourse ==
    ASSUME NEW w \in StateType, job \in Jobs, Steady(job), NEW off \in Nat,
           NEW m \in Matches(w, off), OnCourse(w)
    PROVE  LET x == AfterExpected(w, m.track)
           IN  x.failed = w.failed /\ x.current = w.current /\ OnCourse(x)
<1> DEFINE t == m.track
           x == AfterExpected(w, t)
<1>1. t \in Tracks
  BY MatchesType
<1>2. CASE ~(job.ref[t].has_duplicates /\ job.simple # <<>> /\ At(job.simple, w.next_chunk) # t)
  BY <1>2 DEF AfterExpected
<1>3. CASE job.ref[t].has_duplicates /\ job.simple # <<>> /\ At(job.simple, w.next_chunk) # t
  <2>1. x = CorrectChunkIdx(w, t)
    BY <1>3 DEF AfterExpected
  <2>2. Expected(w, t)
    BY <1>3 DEF Matches
  <2>3. w.first_chunk_found
    <3>1. SUFFICES ASSUME ~w.first_chunk_found
                   PROVE  FALSE
      OBVIOUS
    <3>2. w.next_chunk = 0
      BY <3>1 DEF OnCourse, Begun
    <3>3. job.simple \in Seq(Tracks)
      BY JobsAssumption DEF JobType
    <3>4. Len(job.simple) \in Nat \ {0}
      BY <1>3, <3>3
    <3>5. \A n \in Nat \ {0} : (0 % n) + 1 = 1
      OBVIOUS
    <3>6. At(job.simple, 0) = job.simple[1]
      BY <3>4, <3>5, Zenon DEF At
    <3>7. job.ref[job.simple[1]].codec = job.ref[t].codec
      BY <1>1, <1>3 DEF Steady
    <3>8. QED
      BY <1>3, <2>2, <3>2, <3>6, <3>7 DEF Expected
  <2>4. /\ x.failed = w.failed /\ x.current = w.current
        /\ x.first_chunk_found = w.first_chunk_found
        /\ x.ignored_chunk_order = w.ignored_chunk_order
    BY <1>1, <2>1, CorrectCourse
  <2>5. job.order = <<>>
    BY <1>1, <1>3 DEF Steady
  <2>6. QED
    BY <2>3, <2>4, <2>5 DEF OnCourse, Begun, InStep, Passed
<1>4. QED
  BY <1>2, <1>3

\* A prediction that only was asked for.
LEMMA AskedCourse ==
    ASSUME st \in StateType, job \in Jobs, Steady(job), offset \in Nat, OnCourse(st), NEW w,
           \/ w \in ZeroTests \cup AfterZeros \cup BeforeMatch
           \/ \E p \in Misses(st, offset, FALSE) :
                w = IF job.use_chunk_stats THEN Predicting(st, p) ELSE st
    PROVE  Consulted(st, w)
<1>1. \/ w = st
      \/ \E p \in Predictions(st, offset, TRUE) \cup Predictions(st, offset, FALSE) :
           w = Predicting(st, p)
  <2>1. ASSUME w \in ZeroTests
        PROVE  w = st \/ \E p \in Predictions(st, offset, TRUE) : w = Predicting(st, p)
    BY <2>1, Zenon DEF ZeroTests
  <2>2. ASSUME w \in AfterZeros
        PROVE  w = st \/ \E p \in Predictions(st, offset, TRUE) : w = Predicting(st, p)
    BY <2>2, Zenon DEF AfterZeros, Misses
  <2>3. ASSUME w \in BeforeMatch
        PROVE  w = st \/ \E p \in Predictions(st, offset, FALSE) : w = Predicting(st, p)
    BY <2>3, Zenon DEF BeforeMatch, Misses, PreferPrediction
  <2>4. ASSUME NEW p \in Misses(st, offset, FALSE),
               w = IF job.use_chunk_stats THEN Predicting(st, p) ELSE st
        PROVE  w = st \/ \E q \in Predictions(st, offset, FALSE) : w = Predicting(st, q)
    BY <2>4, Zenon DEF Misses
  <2>5. QED
    BY <2>1, <2>2, <2>3, <2>4
<1>2. CASE w = st
  BY <1>2 DEF Consulted
<1>3. ASSUME NEW p, w = Predicting(st, p),
             p \in Predictions(st, offset, TRUE) \/ p \in Predictions(st, offset, FALSE)
      PROVE  Consulted(st, w)
  <2>1. p.ignored =>
          st.ignored_chunk_order \/ (st.first_chunk_found /\ job.order # <<>>)
    BY <1>3, PredictionsCourse
  <2>2. QED
    BY <1>3, <2>1, PredictingCourse
<1>4. QED
  BY <1>1, <1>2, <1>3

-----------------------------------------------------------------------------
(* The invariant holds                                                     *)

LEMMA CourseInit ==
    ASSUME Init PROVE CourseInv
<1>1. /\ st.failed = "none" /\ ~st.ignored_chunk_order /\ st.next_chunk = 0
      /\ ~st.first_chunk_found
      /\ st.unknown_length = 0 /\ st.last_track = Start
      /\ st.current = [t \in AllTracks |-> NoChunk]
  BY DEF Init, InitState
<1>2. \A t \in Tracks : st.current[t].n = 0 /\ t # Start
  BY <1>1, TracksAssumption DEF NoChunk, AllTracks
<1>3. QED
  BY <1>1, <1>2 DEF CourseInv, NoAssertionFails, OnCourse, Begun, InStep, Open

\* What every step finds, also in a state w that only was asked for a prediction.
LEMMA CourseFacts ==
    ASSUME RangeInv, CourseInv, \A j \in Jobs : Steady(j)
    PROVE  /\ job \in Jobs /\ Steady(job) /\ st \in StateType
           /\ offset \in Nat /\ from \in Nat /\ Size \in Nat \ {0}
           /\ st.unknown_length \in Nat
           /\ Reached \in Nat /\ Reached <= offset /\ Reached = offset - st.unknown_length
           /\ Book(st) /\ Behind(st, Reached) /\ EndsBy(st, Reached) /\ FreeEmpty(st)
           /\ st.unknown_length > 0 => Reached < Size /\ Unordered(job)
           /\ pc # "done" => Open(st) /\ OnCourse(st)
BY RangeFacts DEF RangeInv, UnknownInv, CourseInv, Behind, EndsBy

LEMMA AskedFacts ==
    ASSUME RangeInv, CourseInv, \A j \in Jobs : Steady(j), pc # "done",
           NEW w \in StateType, Bookkeeping(st, w), Consulted(st, w)
    PROVE  /\ Open(w) /\ OnCourse(w) /\ FreeEmpty(w) /\ Book(w)
           /\ w.unknown_length = st.unknown_length /\ w.unknown_length <= offset
           /\ offset - w.unknown_length = Reached
           /\ Behind(w, offset - w.unknown_length) /\ EndsBy(w, offset - w.unknown_length)
           /\ w.unknown_length > 0 => offset - w.unknown_length <= Size /\ Unordered(job)
           /\ w.failed = st.failed
<1>1. /\ offset \in Nat /\ Size \in Nat \ {0} /\ st.unknown_length \in Nat
      /\ Reached \in Nat /\ Reached <= offset /\ Reached = offset - st.unknown_length
      /\ st.unknown_length > 0 => Reached < Size /\ Unordered(job)
      /\ OnCourse(st) /\ Open(st)
  BY CourseFacts
<1>2. /\ FreeEmpty(w) /\ Book(w) /\ Behind(w, Reached)
      /\ w.unknown_length = st.unknown_length
  BY BookkeptFacts
<1>3. Open(w) /\ OnCourse(w)
  BY <1>1 DEF Open, OnCourse, Begun, InStep, Passed, Consulted
<1>4. EndsBy(w, Reached)
  BY <1>2 DEF Behind, EndsBy
<1>5. QED
  BY <1>1, <1>2, <1>3, <1>4 DEF Consulted

\* The unknown bytes are 0 after the step, or there is no order.
LEMMA CourseHolds ==
    ASSUME CourseInv, st'.failed \in {"none", "getFragment"}, OnCourse(st'), Open(st'),
           job' = job, st'.unknown_length = 0 \/ st'.unknown_length = st.unknown_length
    PROVE  CourseInv'
BY DEF CourseInv, NoAssertionFails, OnCourse, Begun, InStep, Passed, Unordered, Open

LEMMA CalcStartOffsetCourse ==
    ASSUME RangeInv, CourseInv, \A j \in Jobs : Steady(j), CalcStartOffset
    PROVE  CourseInv'
<1>0. /\ job \in Jobs /\ Steady(job) /\ st \in StateType /\ EndsBy(st, Reached)
      /\ OnCourse(st) /\ Open(st)
  BY CourseFacts DEF CalcStartOffset
<1>1. pc = "start" /\ st.unknown_length = 0 /\ Reached = 0
  BY DEF CalcStartOffset, RangeInv, PlaceInv, Reached
<1>2. PICK p \in StartPoints :
        st' = IF p.off = 0 THEN st ELSE AddUnknownSequence(st, p.skipped, p.off)
  BY DEF CalcStartOffset
<1>3. p.skipped = 0 /\ p.off \in Nat
  <2>1. job.first_rel = 0 /\ Size \in Nat
    BY <1>0, SizeAssumption DEF Steady, Orderly
  <2>2. QED
    BY <2>1 DEF StartPoints
<1> DEFINE x == AddUnknownSequence(st, 0, p.off)
<1>4. SameScan(st, x) /\ x.current = st.current
  BY <1>0, AddUnknownSequenceScan
<1>5. p.off # 0 => SameCourse(st, x)
  BY <1>0, <1>1, <1>3, AddUnknownSequenceCourse
<1> HIDE DEF x
<1>6. st' = IF p.off = 0 THEN st ELSE x
  BY <1>2, <1>3 DEF x
<1>7. /\ st'.failed = st.failed /\ OnCourse(st') /\ Open(st')
      /\ st'.unknown_length = st.unknown_length
  BY <1>0, <1>1, <1>4, <1>5, <1>6 DEF SameCourse, SameScan, OnCourse, Begun, InStep, Passed, Open
<1>8. job' = job
  BY DEF CalcStartOffset
<1>9. QED
  BY <1>7, <1>8, CourseHolds DEF CourseInv, NoAssertionFails

LEMMA GetChunkPaddingCourse ==
    ASSUME RangeInv, CourseInv, \A j \in Jobs : Steady(j), GetChunkPadding
    PROVE  CourseInv'
<1>0. st \in StateType /\ OnCourse(st) /\ Open(st) /\ pc = "advance"
  BY CourseFacts DEF GetChunkPadding
<1>1. /\ st'.failed = st.failed /\ st'.current = st.current /\ st'.last_track = st.last_track
      /\ st'.ignored_chunk_order = st.ignored_chunk_order
      /\ st'.first_chunk_found = st.first_chunk_found /\ st'.next_chunk = st.next_chunk
      /\ st'.unknown_length = st.unknown_length
  BY <1>0 DEF GetChunkPadding, StateType
<1>2. OnCourse(st') /\ Open(st') /\ job' = job
  BY <1>0, <1>1 DEF OnCourse, Begun, InStep, Passed, Open, GetChunkPadding
<1>3. QED
  BY <1>1, <1>2, CourseHolds DEF CourseInv, NoAssertionFails

LEMMA SkipZerosCourse ==
    ASSUME RangeInv, CourseInv, \A j \in Jobs : Steady(j), SkipZeros
    PROVE  CourseInv'
<1>0. /\ job \in Jobs /\ Steady(job) /\ st \in StateType /\ offset \in Nat /\ offset < Size
      /\ pc = "skip" /\ st' \in AfterZeros /\ job' = job /\ OnCourse(st)
  BY CourseFacts DEF SkipZeros
<1>1. Consulted(st, st')
  BY <1>0, AskedCourse
<1>2. st' \in StateType /\ Bookkeeping(st, st')
  BY <1>0, AfterZerosType, AfterZerosBookkeeping
<1>3. Open(st') /\ OnCourse(st') /\ st'.unknown_length = st.unknown_length
  BY <1>0, <1>1, <1>2, AskedFacts
<1>4. QED
  BY <1>0, <1>1, <1>3, CourseHolds DEF Consulted, CourseInv, NoAssertionFails

LEMMA SkipAtomCourse ==
    ASSUME RangeInv, CourseInv, \A j \in Jobs : Steady(j), SkipAtom
    PROVE  CourseInv'
<1>0. /\ job \in Jobs /\ Steady(job) /\ st \in StateType /\ offset \in Nat /\ offset < Size
      /\ pc = "skip" /\ job' = job /\ OnCourse(st)
  BY CourseFacts DEF SkipAtom
<1>1. PICK w \in ZeroTests : st' = ChkUnknownSequenceEnded(w, offset)
  BY DEF SkipAtom
<1>2. /\ Consulted(st, w)
      /\ w \in StateType /\ Bookkeeping(st, w)
  BY <1>0, AskedCourse, ZeroTestsType, ZeroTestsBookkeeping
<1>3. Open(w) /\ OnCourse(w) /\ EndsBy(w, offset - w.unknown_length)
  BY <1>0, <1>2, AskedFacts
<1>4. /\ SameCourse(w, st') /\ st'.current = w.current /\ st'.last_track = w.last_track
      /\ st'.unknown_length = 0
  BY <1>0, <1>1, <1>2, <1>3, ChkEndedCourse, ChkEndedScan
<1>5. Open(st') /\ OnCourse(st') /\ st'.failed = st.failed
  BY <1>2, <1>3, <1>4 DEF Open, OnCourse, Begun, InStep, Passed, Consulted, SameCourse
<1>6. QED
  BY <1>0, <1>4, <1>5, CourseHolds DEF CourseInv, NoAssertionFails

LEMMA EndAdvanceCourse ==
    ASSUME RangeInv, CourseInv, \A j \in Jobs : Steady(j), EndAdvance
    PROVE  CourseInv'
<1>0. /\ job \in Jobs /\ Steady(job) /\ st \in StateType /\ offset \in Nat /\ offset < Size
      /\ from \in Nat /\ pc = "skip" /\ job' = job /\ OnCourse(st)
  BY CourseFacts DEF EndAdvance
<1>1. PICK w \in ZeroTests : st' = AfterAdvance(w)
  BY DEF EndAdvance
<1>2. /\ Consulted(st, w)
      /\ w \in StateType /\ Bookkeeping(st, w)
  BY <1>0, AskedCourse, ZeroTestsType, ZeroTestsBookkeeping
<1>3. /\ Open(w) /\ OnCourse(w) /\ EndsBy(w, offset - w.unknown_length) /\ Book(w)
      /\ w.unknown_length = st.unknown_length
  BY <1>0, <1>2, AskedFacts
<1>4. w.unknown_length = 0 => EndsBy(w, offset)
  <2>1. w.unknown_length = 0 => offset - w.unknown_length = offset
    BY <1>0
  <2>2. QED
    BY <1>3, <2>1
<1>5. /\ SameCourse(w, st') /\ SameScan(w, st') /\ st'.current = w.current
  BY <1>0, <1>1, <1>2, <1>3, <1>4, AfterAdvanceCourse, AfterAdvanceScan DEF Book
<1>6. /\ Open(st') /\ OnCourse(st') /\ st'.failed = st.failed
      /\ st'.unknown_length = st.unknown_length
  BY <1>2, <1>3, <1>5 DEF Open, OnCourse, Begun, InStep, Passed, Consulted, SameCourse, SameScan
<1>7. QED
  BY <1>0, <1>6, CourseHolds DEF CourseInv, NoAssertionFails

\* The last chunk is closed, and nothing is opened any more.
LEMMA ReachEndCourse ==
    ASSUME RangeInv, CourseInv, \A j \in Jobs : Steady(j), ReachEnd
    PROVE  CourseInv'
<1>0. /\ job \in Jobs /\ Steady(job) /\ st \in StateType /\ offset \in Nat /\ from \in Nat
      /\ Book(st) /\ Open(st) /\ OnCourse(st) /\ FreeEmpty(st)
      /\ EndsBy(st, Reached) /\ Behind(st, Reached) /\ Reached = offset - st.unknown_length
      /\ st.unknown_length \in Nat
  BY CourseFacts DEF ReachEnd
<1> DEFINE w == AfterAdvance(st)
           x == PushBackLastChunk(w)
<1>1. /\ st' = ChkUnknownSequenceEnded(x, offset) /\ pc = "skip" /\ pc' = "done"
      /\ job' = job
  BY DEF ReachEnd
<1>2. st.unknown_length = 0 => EndsBy(st, offset)
  <2>1. st.unknown_length = 0 => Reached = offset
    BY <1>0
  <2>2. QED
    BY <1>0, <2>1
<1>3. /\ w \in StateType /\ SameScan(st, w) /\ w.current = st.current /\ SameCourse(st, w)
  BY <1>0, <1>2, AfterAdvanceType, AfterAdvanceScan, AfterAdvanceCourse DEF Book
<1>4. EndsBy(w, Reached)
  <2>1. (offset > from => from < Size) /\ FramesBehind(st, from)
    BY <1>1 DEF RangeInv, PlaceInv
  <2>2. Behind(w, Reached)
    BY <1>0, <2>1, AfterAdvanceRange
  <2>3. QED
    BY <2>2 DEF Behind, EndsBy
<1>5. Open(w) /\ FreeEmpty(w)
  BY <1>0, <1>3 DEF Open, FreeEmpty, SameScan
<1> HIDE DEF w
<1>6. /\ x \in StateType /\ SameCourse(w, x) /\ Bookkeeping(w, x)
  BY <1>3, <1>5, PushBackLastChunkType, PushBackCourse, PushBackBookkeeping
<1> HIDE DEF x
<1>7. EndsBy(x, offset - x.unknown_length)
  <2>1. x.excluded = w.excluded /\ x.unknown_length = st.unknown_length
    BY <1>3, <1>5, <1>6 DEF Bookkeeping, SameExclusions, SameScan
  <2>2. QED
    BY <1>0, <1>4, <2>1 DEF EndsBy
<1>8. SameCourse(x, st') /\ st'.unknown_length = 0
  BY <1>0, <1>1, <1>6, <1>7, ChkEndedCourse, ChkEndedScan
<1>9. st'.failed = st.failed
  BY <1>3, <1>6, <1>8 DEF SameCourse
<1>10. QED
  BY <1>1, <1>8, <1>9 DEF CourseInv, NoAssertionFails

LEMMA TryMatchCourse ==
    ASSUME RangeInv, CourseInv, \A j \in Jobs : Steady(j), TryMatch
    PROVE  CourseInv'
<1>0. /\ job \in Jobs /\ Steady(job) /\ st \in StateType /\ offset \in Nat /\ offset < Size
      /\ pc = "try" /\ job' = job /\ OnCourse(st)
  BY CourseFacts DEF TryMatch, RangeInv, TypeInv
<1>1. PICK asked \in BeforeMatch : \E m \in Matches(asked, offset) :
        st' = AddMatch(AfterExpected(asked, m.track), offset, m)
  BY DEF TryMatch
<1>2. PICK m \in Matches(asked, offset) :
        st' = AddMatch(AfterExpected(asked, m.track), offset, m)
  BY <1>1
<1>3. /\ asked \in StateType /\ Bookkeeping(st, asked)
      /\ Consulted(st, asked)
  BY <1>0, BeforeMatchType, BeforeMatchBookkeeping, AskedCourse
<1>4. Open(asked) /\ OnCourse(asked) /\ asked.failed = st.failed
  BY <1>0, <1>3, AskedFacts
<1>5. m.track \in Tracks /\ m.length \in Nat /\ m.pad \in Nat
  BY <1>0, <1>3, MatchesType
<1> DEFINE w == AfterExpected(asked, m.track)
<1>6. /\ w \in StateType /\ Bookkeeping(asked, w)
      /\ w.failed = asked.failed /\ w.current = asked.current /\ OnCourse(w)
  BY <1>0, <1>3, <1>4, <1>5, AfterExpectedType, AfterExpectedBookkeeping, AfterExpectedCourse
<1>7. st' = AddMatch(w, offset, m)
  BY <1>2
<1> HIDE DEF w
<1>8. Open(w) /\ Bookkeeping(st, w)
  BY <1>3, <1>4, <1>6, BookkeepingTrans DEF Open, Bookkeeping, SameScan
<1>9. /\ FreeEmpty(w) /\ Book(w) /\ Behind(w, Reached)
      /\ w.unknown_length = st.unknown_length
  BY <1>6, <1>8, BookkeptFacts
<1>10. /\ w.unknown_length <= offset /\ Behind(w, offset - w.unknown_length)
       /\ w.unknown_length > 0 => offset - w.unknown_length <= Size
       /\ w.unknown_length > 0 => Unordered(job)
  <2>1. /\ Reached = offset - st.unknown_length /\ Reached <= offset /\ Reached \in Nat
        /\ st.unknown_length \in Nat /\ Size \in Nat
        /\ st.unknown_length > 0 => Reached < Size /\ Unordered(job)
    BY CourseFacts
  <2>2. QED
    BY <1>0, <1>9, <2>1
<1>11. st'.failed = w.failed /\ Open(st') /\ OnCourse(st')
  BY <1>0, <1>5, <1>6, <1>7, <1>8, <1>9, <1>10, AddMatchCourse
<1>12. st'.unknown_length = 0
  BY <1>0, <1>5, <1>6, <1>7, AddMatchUnknown
<1>13. QED
  BY <1>0, <1>4, <1>6, <1>11, <1>12, CourseHolds DEF CourseInv, NoAssertionFails

LEMMA TryChunkPredictionCourse ==
    ASSUME RangeInv, CourseInv, \A j \in Jobs : Steady(j), TryChunkPrediction
    PROVE  CourseInv'
<1>0. /\ job \in Jobs /\ Steady(job) /\ st \in StateType /\ offset \in Nat /\ offset < Size
      /\ offset <= Size /\ pc = "try" /\ job' = job /\ Size \in Nat
      /\ OnCourse(st)
  <2>1. offset \in Nat /\ offset < Size /\ Size \in Nat
    BY CourseFacts DEF TryChunkPrediction, RangeInv, TypeInv
  <2>2. QED
    BY <2>1, CourseFacts DEF TryChunkPrediction
<1>1. PICK p \in Predictions(st, offset, FALSE) :
        /\ p.chunk # Nothing
        /\ st' = AddPredicted(Predicting(st, p), offset, p.chunk)
  BY DEF TryChunkPrediction
<1>2. /\ p.ignored \in BOOLEAN /\ GoodChunk(p.chunk, offset)
      /\ p.ignored => st.ignored_chunk_order \/ (st.first_chunk_found /\ job.order # <<>>)
      /\ p.chunk.n > 0 /\ (job.order # <<>> => p.chunk.track # st.last_track)
  <2>1. p.ignored \in BOOLEAN /\ GoodChunk(p.chunk, offset)
    BY <1>0, <1>1, PredictionsGood, Zenon
  <2>2. /\ p.ignored =>
             st.ignored_chunk_order \/ (st.first_chunk_found /\ job.order # <<>>)
        /\ p.chunk.n > 0 /\ (job.order # <<>> => p.chunk.track # st.last_track)
    BY <1>0, <1>1, PredictionsCourse
  <2>3. QED
    BY <2>1, <2>2
<1>3. p.chunk.track # Free
  BY <1>0, <1>2 DEF GoodChunk, MayPredict, Orderly, Steady
<1> DEFINE w == Predicting(st, p)
<1>4. /\ w \in StateType /\ Bookkeeping(st, w) /\ Consulted(st, w)
      /\ w.last_track = st.last_track
  BY <1>0, <1>2, PredictingType, PredictingBookkeeping, PredictingCourse DEF Consulted
<1>5. st' = AddPredicted(w, offset, p.chunk)
  BY <1>1
<1> HIDE DEF w
<1>6. /\ Open(w) /\ OnCourse(w) /\ FreeEmpty(w) /\ Book(w) /\ w.failed = st.failed
      /\ w.unknown_length <= offset
      /\ Behind(w, offset - w.unknown_length) /\ EndsBy(w, offset - w.unknown_length)
      /\ w.unknown_length > 0 => offset - w.unknown_length <= Size
      /\ w.unknown_length > 0 => Unordered(job)
  BY <1>0, <1>4, AskedFacts
<1>7. st'.failed = w.failed /\ Open(st') /\ OnCourse(st')
  BY <1>0, <1>2, <1>3, <1>4, <1>5, <1>6, AddPredictedCourse
<1>8. st'.unknown_length = 0
  BY <1>0, <1>2, <1>3, <1>4, <1>5, <1>6, AddPredictedRange
<1>9. QED
  BY <1>0, <1>6, <1>7, <1>8, CourseHolds DEF CourseInv, NoAssertionFails

\* A sequence of unknown bytes begins: the chunk before it is closed.
LEMMA EnterUnknownCourse ==
    ASSUME RangeInv, CourseInv, \A j \in Jobs : Steady(j), pc = "try",
           NEW p \in Misses(st, offset, FALSE)
    PROVE  LET w == EnterUnknown(IF job.use_chunk_stats THEN Predicting(st, p) ELSE st)
           IN  /\ w \in StateType /\ w.unknown_length = st.unknown_length
               /\ w.failed = st.failed /\ Open(w) /\ Begun(w)
<1>0. /\ job \in Jobs /\ Steady(job) /\ st \in StateType /\ offset \in Nat /\ offset < Size
      /\ FreeEmpty(st) /\ Size \in Nat /\ OnCourse(st)
  BY CourseFacts DEF RangeInv, TypeInv
<1> DEFINE asked == IF job.use_chunk_stats THEN Predicting(st, p) ELSE st
           back == PushBackLastChunk(asked)
           w == EnterUnknown(asked)
<1>1. /\ w \in StateType /\ w.last_track = Free /\ w.unknown_length = st.unknown_length
  BY UnknownStepStart DEF RangeInv
<1>2. Consulted(st, asked)
  <2> HIDE DEF asked
  <2>1. QED
    BY <1>0, AskedCourse DEF asked
<1>3. asked \in StateType /\ Bookkeeping(st, asked)
  <2>1. p.ignored \in BOOLEAN
    <3>1. offset <= Size
      BY <1>0
    <3>2. QED
      BY <1>0, <3>1, MissesType
  <2>2. Bookkeeping(st, st)
    BY DEF Bookkeeping, SameScan, SameExclusions
  <2>3. QED
    BY <1>0, <2>1, <2>2, PredictingType, PredictingBookkeeping
<1> HIDE DEF asked
<1>4. Open(asked) /\ OnCourse(asked) /\ FreeEmpty(asked) /\ asked.failed = st.failed
  BY <1>2, <1>3, AskedFacts
<1>5. ASSUME asked.unknown_length = 0
      PROVE  w.failed = st.failed /\ Open(w) /\ Begun(w)
  <2>1. back \in StateType /\ SameCourse(asked, back) /\ Closed(back)
    BY <1>3, <1>4, PushBackLastChunkType, PushBackCourse
  <2>2. w = SetLastTrack(back, Free)
    BY <1>5 DEF EnterUnknown
  <2> HIDE DEF back, w
  <2>3. SameCourse(back, w) /\ w.current = back.current /\ w.last_track = Free
    BY <2>1, <2>2 DEF SetLastTrack, SameCourse, StateType
  <2>4. \A t \in Tracks : ~(w.current[t].n > 0) /\ w.last_track # t
    BY <2>1, <2>3, TracksAssumption DEF Closed
  <2>5. QED
    BY <1>4, <2>1, <2>3, <2>4 DEF SameCourse, OnCourse, Begun, Open
<1>6. ASSUME asked.unknown_length # 0
      PROVE  w.failed = st.failed /\ Open(w) /\ Begun(w)
  <2>1. w = asked
    BY <1>6 DEF EnterUnknown
  <2>2. QED
    BY <1>4, <2>1 DEF OnCourse
<1>7. w.failed = st.failed /\ Open(w) /\ Begun(w)
  BY <1>5, <1>6
<1>8. QED
  BY <1>1, <1>7 DEF asked

LEMMA StepThroughUnknownCourse ==
    ASSUME RangeInv, CourseInv, \A j \in Jobs : Steady(j), StepThroughUnknown
    PROVE  CourseInv'
<1>1. PICK p \in Misses(st, offset, FALSE) :
        LET w == EnterUnknown(IF job.use_chunk_stats THEN Predicting(st, p) ELSE st)
        IN  st' = [w EXCEPT !.unknown_length = @ + CalcStep(w, offset)]
  BY DEF StepThroughUnknown
<1> DEFINE w == EnterUnknown(IF job.use_chunk_stats THEN Predicting(st, p) ELSE st)
<1>2. w \in StateType /\ w.failed = st.failed /\ Open(w) /\ Begun(w)
  BY EnterUnknownCourse DEF StepThroughUnknown
<1>3. st' = [w EXCEPT !.unknown_length = @ + CalcStep(w, offset)]
  BY <1>1
<1> HIDE DEF w
<1>4. st'.failed = st.failed /\ Open(st') /\ Begun(st')
  BY <1>2, <1>3 DEF StateType, Open, Begun
<1>5. Unordered(job) /\ job' = job
  BY CourseFacts DEF StepThroughUnknown, Steady, Unordered
<1>6. OnCourse(st')
  BY <1>4, <1>5 DEF OnCourse, InStep, Passed, Unordered
<1>7. QED
  BY <1>4, <1>5, <1>6
     DEF CourseInv, NoAssertionFails, OnCourse, Begun, InStep, Passed, Unordered, Open

LEMMA PrematureEndCourse ==
    ASSUME RangeInv, CourseInv, \A j \in Jobs : Steady(j), PrematureEnd
    PROVE  CourseInv'
<1>1. PICK p \in Misses(st, offset, FALSE) :
        LET w == EnterUnknown(IF job.use_chunk_stats THEN Predicting(st, p) ELSE st)
        IN  st' = [w EXCEPT !.content_size = offset]
  BY DEF PrematureEnd
<1> DEFINE w == EnterUnknown(IF job.use_chunk_stats THEN Predicting(st, p) ELSE st)
<1>2. /\ w \in StateType /\ w.unknown_length = st.unknown_length
      /\ w.failed = st.failed
  BY EnterUnknownCourse DEF PrematureEnd
<1>3. st' = [w EXCEPT !.content_size = offset]
  BY <1>1
<1> HIDE DEF w
<1>4. st'.failed = st.failed /\ st'.unknown_length = st.unknown_length
  BY <1>2, <1>3 DEF StateType
<1>5. job' = job /\ pc' = "done"
  BY DEF PrematureEnd
<1>6. QED
  BY <1>4, <1>5 DEF CourseInv, NoAssertionFails, Unordered

LEMMA ThrowCourse ==
    ASSUME RangeInv, CourseInv, ThrowBeyondEnd
    PROVE  CourseInv'
<1>1. st \in StateType
  BY RangeFacts
<1>2. st' = [st EXCEPT !.failed = "getFragment"] /\ pc' = pc /\ job' = job
  BY DEF ThrowBeyondEnd
<1>3. st'.failed = "getFragment"
  BY <1>1, <1>2 DEF StateType
<1>4. /\ st'.current = st.current /\ st'.last_track = st.last_track
      /\ st'.ignored_chunk_order = st.ignored_chunk_order
      /\ st'.first_chunk_found = st.first_chunk_found /\ st'.next_chunk = st.next_chunk
      /\ st'.unknown_length = st.unknown_length
  BY <1>1, <1>2 DEF StateType
<1>5. QED
  BY <1>2, <1>3, <1>4 DEF CourseInv, NoAssertionFails, OnCourse, Begun, InStep, Passed, Unordered, Open

LEMMA CourseNext ==
    ASSUME RangeInv, CourseInv, \A j \in Jobs : Steady(j), [Next]_vars
    PROVE  CourseInv'
<1>1. CASE UNCHANGED vars
  <2>1. pc' = pc /\ st' = st /\ job' = job
    BY <1>1 DEF vars
  <2>2. QED
    BY <2>1 DEF CourseInv, NoAssertionFails, OnCourse, Begun, InStep, Passed, Unordered, Open
<1>2. CASE Next
  BY <1>2, CalcStartOffsetCourse, GetChunkPaddingCourse, SkipZerosCourse, SkipAtomCourse,
     EndAdvanceCourse, ReachEndCourse, TryMatchCourse, TryChunkPredictionCourse,
     StepThroughUnknownCourse, PrematureEndCourse, ThrowCourse DEF Next
<1>3. QED
  BY <1>1, <1>2

-----------------------------------------------------------------------------
\* No broken file makes the scan of a steady reference abort: no chunk is closed without a
\* sample or twice, no track found is missing in the order, the chunk before the index is the
\* one being filled (mp4_chunk_pred.cpp:377), and nothing is excluded out of order or twice.
THEOREM ScanNeverAsserts ==
    ASSUME \A j \in Jobs : Steady(j)
    PROVE  Spec => []NoAssertionFails
<1>1. \A j \in Jobs : Orderly(j)
  BY DEF Steady
<1>2. Init => RangeInv /\ CourseInv
  BY RangeInit, CourseInit
<1>3. (RangeInv /\ CourseInv) /\ [Next]_vars => (RangeInv /\ CourseInv)'
  BY <1>1, RangeNext, CourseNext
<1>4. CourseInv => NoAssertionFails
  BY DEF CourseInv
<1>5. QED
  BY <1>2, <1>3, <1>4, PTL DEF Spec

-----------------------------------------------------------------------------
(***************************************************************************)
(* The sample tables lead to each sample's own bytes in the repaired mdat, *)
(* for every content and every reference that is Sampled.                  *)
(***************************************************************************)
\* A chunk of at most so many samples that the next frame of its track begins another.
Limited(j, t) ==
    /\ j.ref[t].has_duplicates
    /\ Len(j.ref[t].likely_n) = 1 /\ j.ref[t].likely_n_p >= 99

\* The simple order tells a duplicate track's frames apart, and no two of its chunks
\* follow one another.
Told(j, t) ==
    /\ j.order = <<>> /\ j.simple # <<>> /\ ~j.ref[t].predictable
    /\ \A i \in DOMAIN j.simple : j.ref[j.simple[i]].codec = j.ref[t].codec
    /\ \A i \in Nat : At(j.simple, i) = t => At(j.simple, i + 1) # t

\* What would break the tables besides: a chunk of averaged sample sizes that a frame found
\* by its codec continues, and one that ends at its limit but keeps its offset.
Sampled(j) ==
    /\ Orderly(j)
    /\ \A t \in Tracks : j.ref[t].lens = {} \/ Len(j.ref[t].likely_sizes) <= 1
    /\ \A t \in Tracks : Limited(j, t) => Told(j, t)

-----------------------------------------------------------------------------
(* The invariant                                                           *)

\* Where byte b ends up, by what w excludes.
PositionIn(w, b) == b - Cardinality({x \in RangeBytes(w) : x < b})

\* The samples of the track's chunks up to each.
Samples(w, t) == SumUpTo(Counts(w.chunks[t]))

\* Only the last track has samples in its current chunk.
OneOpen(w) == \A t \in Tracks : w.last_track # t => w.current[t].n = 0

\* Every frame is in one chunk.
Tiled(w) ==
    \A t \in Tracks :
        Samples(w, t)[Len(w.chunks[t])] + w.current[t].n = Len(w.frames[t])

\* The frames of track t from the m-th on are the samples of chunk c: the first is where
\* the chunk is, and each begins in the repaired file where the one before it ends.
Placed(w, t, c, m) ==
    /\ m + c.n <= Len(w.frames[t])
    /\ c.n > 0 => c.off - c.already_excluded = PositionIn(w, w.frames[t][m + 1].off)
    /\ \A j \in 1 .. c.n - 1 :
         PositionIn(w, w.frames[t][m + j + 1].off) =
             PositionIn(w, w.frames[t][m + j].off) + w.frames[t][m + j].length

AllPlaced(w) ==
    \A t \in Tracks :
        /\ \A k \in DOMAIN w.chunks[t] : Placed(w, t, w.chunks[t][k], Samples(w, t)[k - 1])
        /\ Placed(w, t, w.current[t], Samples(w, t)[Len(w.chunks[t])])

Tables(w) ==
    /\ OneOpen(w) /\ Tiled(w)
    /\ ~job.dont_exclude => AllPlaced(w)

\* Where the table will put the next sample of the track's open chunk.
NextPosition(w, t) ==
    LET c == w.current[t]
        last == w.frames[t][Len(w.frames[t])]
    IN  IF c.n = 0 THEN c.off - c.already_excluded ELSE PositionIn(w, last.off) + last.length

\* A frame found at f continues the open chunk: all between is excluded.
Continues(w, f) ==
    \A t \in Tracks : w.last_track = t /\ job.ref[t].lens # {} =>
        f - w.total_excluded = NextPosition(w, t)

\* The order expects another track's chunk next.
AwaitsOther(w) ==
    \A t \in Tracks : w.last_track = t /\ Limited(job, t) => At(job.simple, w.next_chunk) # t

\* While chkOffset skips, nothing is excluded but unknown bytes, and those only with -s.
SkipInv ==
    /\ ~job.ignore_unknown => st.unknown_length = 0
    /\ pc = "skip" /\ (st.last_track # Free \/ ~job.ignore_unknown) => Behind(st, from)

TableInv ==
    /\ Tables(st) /\ AwaitsOther(st) /\ SkipInv
    /\ pc = "start" => st.last_track = Start
    /\ ~job.dont_exclude =>
         /\ pc \in {"advance", "try"} /\ offset < Size => Continues(st, offset)
         /\ pc = "skip" /\ from < Size => Continues(st, from)

-----------------------------------------------------------------------------
(* Sums                                                                    *)

SumsTo(s, m, g) == g = [i \in 0 .. m |-> IF i = 0 THEN 0 ELSE g[i - 1] + s[i]]

\* The function that SumUpTo defines exists.
LEMMA SumExists ==
    ASSUME NEW s \in Seq(Nat), NEW n \in Nat
    PROVE  \E g : SumsTo(s, n, g)
<1> DEFINE With == {m \in Nat : \E g : SumsTo(s, m, g)}
<1>1. 0 \in With
  <2> DEFINE h == [i \in 0 .. 0 |-> 0]
  <2>1. SumsTo(s, 0, h)
    BY DEF SumsTo
  <2>2. QED
    BY <2>1
<1>2. ASSUME NEW m \in 0 .. n - 1, m \in With
      PROVE  m + 1 \in With
  <2>1. PICK g : SumsTo(s, m, g)
    BY <1>2
  <2>2. \A i \in 0 .. m : g[i] = IF i = 0 THEN 0 ELSE g[i - 1] + s[i]
    BY <2>1 DEF SumsTo
  <2> DEFINE h == [i \in 0 .. m + 1 |-> IF i <= m THEN g[i] ELSE g[m] + s[m + 1]]
  <2>3. ASSUME NEW i \in 0 .. m + 1
        PROVE  h[i] = IF i = 0 THEN 0 ELSE h[i - 1] + s[i]
    <3>1. CASE i = 0
      BY <2>2, <3>1
    <3>2. CASE i # 0
      <4>1. i - 1 \in 0 .. m + 1 /\ i - 1 <= m /\ h[i - 1] = g[i - 1]
        BY <3>2
      <4>2. CASE i <= m
        <5>1. h[i] = g[i] /\ g[i] = g[i - 1] + s[i]
          BY <2>2, <3>2, <4>2
        <5>2. QED
          BY <3>2, <4>1, <5>1
      <4>3. CASE ~(i <= m)
        <5>1. i = m + 1 /\ i - 1 = m /\ h[i] = g[m] + s[m + 1]
          BY <4>3
        <5>2. QED
          BY <3>2, <4>1, <5>1
      <4>4. QED
        BY <4>2, <4>3
    <3>3. QED
      BY <3>1, <3>2
  <2>4. h = [i \in 0 .. m + 1 |-> h[i]]
    OBVIOUS
  <2> HIDE DEF h
  <2>5. SumsTo(s, m + 1, h)
    BY <2>3, <2>4 DEF SumsTo
  <2>6. m + 1 \in Nat
    BY <1>2
  <2>7. QED
    BY <2>5, <2>6
<1> HIDE DEF With
<1>3. 0 .. n \subseteq With
  BY <1>1, <1>2, InductionTo
<1>4. n \in With
  BY <1>3
<1>5. QED
  BY <1>4 DEF With

LEMMA SumDefined ==
    ASSUME NEW s \in Seq(Nat)
    PROVE  /\ SumUpTo(s)[0] = 0
           /\ \A i \in 1 .. Len(s) : SumUpTo(s)[i] = SumUpTo(s)[i - 1] + s[i]
<1> DEFINE sum == SumUpTo(s)
<1>1. Len(s) \in Nat
  OBVIOUS
<1>2. \E g : SumsTo(s, Len(s), g)
  BY <1>1, SumExists
<1>3. sum = CHOOSE g : SumsTo(s, Len(s), g)
  BY DEF SumUpTo, SumsTo
<1>4. SumsTo(s, Len(s), sum)
  BY <1>2, <1>3
<1> HIDE DEF sum
<1>5. \A i \in 0 .. Len(s) : sum[i] = IF i = 0 THEN 0 ELSE sum[i - 1] + s[i]
  BY <1>4 DEF SumsTo
<1>6. QED
  BY <1>1, <1>5 DEF sum

LEMMA SumType ==
    ASSUME NEW s \in Seq(Nat), NEW n \in 0 .. Len(s)
    PROVE  SumUpTo(s)[n] \in Nat
<1> DEFINE sum == SumUpTo(s)
           Even == {m \in 0 .. Len(s) : sum[m] \in Nat}
<1>1. Len(s) \in Nat
  OBVIOUS
<1>2. sum[0] = 0 /\ \A i \in 1 .. Len(s) : sum[i] = sum[i - 1] + s[i]
  BY SumDefined
<1> HIDE DEF sum
<1>3. 0 \in Even
  BY <1>1, <1>2
<1>4. ASSUME NEW i \in 0 .. Len(s) - 1, i \in Even
      PROVE  i + 1 \in Even
  <2>1. i + 1 \in 1 .. Len(s) /\ (i + 1) - 1 = i /\ i + 1 \in 0 .. Len(s)
    BY <1>1
  <2>2. s[i + 1] \in Nat
    BY <2>1, ElementInSet
  <2>3. sum[i + 1] = sum[i] + s[i + 1]
    BY <1>2, <2>1
  <2>4. QED
    BY <1>4, <2>1, <2>2, <2>3
<1> HIDE DEF Even
<1>5. 0 .. Len(s) \subseteq Even
  BY <1>1, <1>3, <1>4, InductionTo
<1>6. QED
  BY <1>5 DEF Even, sum

LEMMA SumAppend ==
    ASSUME NEW s \in Seq(Nat), NEW e \in Nat
    PROVE  /\ \A i \in 0 .. Len(s) : SumUpTo(Append(s, e))[i] = SumUpTo(s)[i]
           /\ SumUpTo(Append(s, e))[Len(s) + 1] = SumUpTo(s)[Len(s)] + e
<1> DEFINE a == Append(s, e)
           n == Len(s)
           sum == SumUpTo(s)
           more == SumUpTo(a)
           Same == {m \in 0 .. n : more[m] = sum[m]}
<1>1. n \in Nat /\ a \in Seq(Nat) /\ Len(a) = n + 1 /\ a[n + 1] = e
      /\ \A i \in 1 .. n : a[i] = s[i]
  OBVIOUS
<1>2. sum[0] = 0 /\ \A i \in 1 .. n : sum[i] = sum[i - 1] + s[i]
  BY SumDefined
<1>3. more[0] = 0 /\ \A i \in 1 .. Len(a) : more[i] = more[i - 1] + a[i]
  BY <1>1, SumDefined
<1> HIDE DEF sum, more, a, n
<1>4. 0 \in Same
  BY <1>1, <1>2, <1>3
<1>5. ASSUME NEW i \in 0 .. n - 1, i \in Same
      PROVE  i + 1 \in Same
  <2>1. i + 1 \in 1 .. n /\ i + 1 \in 1 .. n + 1 /\ (i + 1) - 1 = i /\ i + 1 \in 0 .. n
    BY <1>1
  <2>2. more[i + 1] = more[i] + a[i + 1] /\ sum[i + 1] = sum[i] + s[i + 1]
    BY <1>1, <1>2, <1>3, <2>1
  <2>3. a[i + 1] = s[i + 1]
    BY <1>1, <2>1
  <2>4. QED
    BY <1>5, <2>1, <2>2, <2>3
<1> HIDE DEF Same
<1>6. 0 .. n \subseteq Same
  BY <1>1, <1>4, <1>5, InductionTo
<1>7. more[n + 1] = more[n] + e
  <2>1. n + 1 \in 1 .. Len(a) /\ (n + 1) - 1 = n
    BY <1>1
  <2>2. QED
    BY <1>1, <1>3, <2>1
<1>8. n \in Same
  BY <1>1, <1>6
<1>9. QED
  BY <1>6, <1>7, <1>8 DEF Same, sum, more, a, n

-----------------------------------------------------------------------------
(* What later exclusions leave as it is                                    *)

LEMMA PositionsKept ==
    ASSUME NEW w \in StateType, NEW x \in StateType, NEW f \in Int, Grows(w, x, f),
           NEW b \in Int, b <= f
    PROVE  PositionIn(x, b) = PositionIn(w, b)
<1>1. DOMAIN w.excluded = 1 .. Len(w.excluded) /\ DOMAIN x.excluded = 1 .. Len(x.excluded)
      /\ Len(w.excluded) \in Nat /\ Len(x.excluded) \in Nat
  BY ExcludedType
<1>2. \A i \in DOMAIN x.excluded :
        x.excluded[i].start \in Int /\ x.excluded[i].length \in Int
  BY ExcludedType
<1>3. /\ DOMAIN w.excluded \subseteq DOMAIN x.excluded
      /\ \A i \in DOMAIN w.excluded : x.excluded[i] = w.excluded[i]
      /\ \A i \in DOMAIN x.excluded \ DOMAIN w.excluded : x.excluded[i].start >= f
  BY <1>1 DEF Grows
<1>4. ASSUME NEW y \in RangeBytes(x), y < b
      PROVE  y \in RangeBytes(w)
  <2>1. PICK i \in DOMAIN x.excluded : y \in Bytes(x.excluded[i])
    BY <1>4 DEF RangeBytes
  <2>2. y \in Int /\ x.excluded[i].start <= y
    BY <1>2, <2>1 DEF Bytes
  <2>3. i \in DOMAIN w.excluded
    BY <1>2, <1>3, <1>4, <2>2
  <2>4. QED
    BY <1>3, <2>1, <2>3 DEF RangeBytes
<1>5. RangeBytes(w) \subseteq RangeBytes(x)
  BY <1>3 DEF RangeBytes
<1>6. {y \in RangeBytes(x) : y < b} = {y \in RangeBytes(w) : y < b}
  BY <1>4, <1>5
<1>7. QED
  BY <1>6 DEF PositionIn

LEMMA PositionAtFrontier ==
    ASSUME NEW w \in StateType, Counted(w), NEW f \in Int, Behind(w, f),
           NEW b \in Int, f <= b
    PROVE  PositionIn(w, b) = b - w.total_excluded
<1>1. \A i \in DOMAIN w.excluded :
        /\ w.excluded[i].start \in Int /\ w.excluded[i].length \in Int
        /\ w.excluded[i].start + w.excluded[i].length <= f
  BY ExcludedType DEF Behind
<1>2. ASSUME NEW y \in RangeBytes(w)
      PROVE  y < b
  <2>1. PICK i \in DOMAIN w.excluded : y \in Bytes(w.excluded[i])
    BY DEF RangeBytes
  <2>2. QED
    BY <1>1, <2>1 DEF Bytes
<1>3. {y \in RangeBytes(w) : y < b} = RangeBytes(w)
  BY <1>2
<1>4. QED
  BY <1>3 DEF PositionIn, Counted

\* x is w with exclusions behind all frames and with, perhaps, more frames.
Extends(w, x) ==
    /\ \E f \in Int : Grows(w, x, f) /\ FramesBehind(w, f)
    /\ \A t \in Tracks :
         /\ Len(w.frames[t]) <= Len(x.frames[t])
         /\ \A i \in 1 .. Len(w.frames[t]) : x.frames[t][i] = w.frames[t][i]

LEMMA FramePositionsKept ==
    ASSUME NEW w \in StateType, NEW x \in StateType, Extends(w, x),
           NEW t \in Tracks, NEW i \in 1 .. Len(w.frames[t])
    PROVE  /\ x.frames[t][i] = w.frames[t][i]
           /\ PositionIn(x, x.frames[t][i].off) = PositionIn(w, w.frames[t][i].off)
<1>1. PICK f \in Int : Grows(w, x, f) /\ FramesBehind(w, f)
  BY DEF Extends
<1>2. x.frames[t][i] = w.frames[t][i]
  BY DEF Extends
<1>3. i \in DOMAIN w.frames[t] /\ w.frames[t][i].off \in Nat /\ w.frames[t][i].length \in Nat
  BY FramesType DEF AllTracks
<1>4. w.frames[t][i].off <= f
  BY <1>1, <1>3 DEF FramesBehind
<1>5. QED
  BY <1>1, <1>2, <1>3, <1>4, PositionsKept

LEMMA PlacedKept ==
    ASSUME NEW w \in StateType, NEW x \in StateType, Extends(w, x),
           NEW t \in Tracks, NEW c \in ChunkRecord, NEW m \in Nat, Placed(w, t, c, m)
    PROVE  Placed(x, t, c, m)
<1>1. /\ Len(w.frames[t]) \in Nat /\ Len(x.frames[t]) \in Nat
      /\ Len(w.frames[t]) <= Len(x.frames[t])
  BY FramesType DEF AllTracks, Extends
<1>2. c.n \in Nat /\ m + c.n <= Len(w.frames[t])
  BY DEF ChunkRecord, Placed
<1>3. m + c.n <= Len(x.frames[t])
  BY <1>1, <1>2
<1>4. ASSUME c.n > 0
      PROVE  c.off - c.already_excluded = PositionIn(x, x.frames[t][m + 1].off)
  <2>1. m + 1 \in 1 .. Len(w.frames[t])
    BY <1>1, <1>2, <1>4
  <2>2. PositionIn(x, x.frames[t][m + 1].off) = PositionIn(w, w.frames[t][m + 1].off)
    BY <2>1, FramePositionsKept
  <2>3. c.off - c.already_excluded = PositionIn(w, w.frames[t][m + 1].off)
    BY <1>4 DEF Placed
  <2>4. QED
    BY <2>2, <2>3
<1>5. ASSUME NEW j \in 1 .. c.n - 1
      PROVE  PositionIn(x, x.frames[t][m + j + 1].off) =
               PositionIn(x, x.frames[t][m + j].off) + x.frames[t][m + j].length
  <2>1. m + j \in 1 .. Len(w.frames[t]) /\ m + j + 1 \in 1 .. Len(w.frames[t])
    BY <1>1, <1>2
  <2>2. /\ PositionIn(x, x.frames[t][m + j].off) = PositionIn(w, w.frames[t][m + j].off)
        /\ x.frames[t][m + j] = w.frames[t][m + j]
    BY <2>1, FramePositionsKept
  <2>3. PositionIn(x, x.frames[t][m + j + 1].off) = PositionIn(w, w.frames[t][m + j + 1].off)
    BY <2>1, FramePositionsKept
  <2>4. PositionIn(w, w.frames[t][m + j + 1].off) =
          PositionIn(w, w.frames[t][m + j].off) + w.frames[t][m + j].length
    BY DEF Placed
  <2>5. QED
    BY <2>2, <2>3, <2>4
<1>6. QED
  BY <1>3, <1>4, <1>5 DEF Placed

LEMMA ChunksType ==
    ASSUME NEW w \in StateType, NEW t \in AllTracks
    PROVE  /\ w.chunks[t] \in Seq(ChunkRecord) /\ Len(w.chunks[t]) \in Nat
           /\ DOMAIN w.chunks[t] = 1 .. Len(w.chunks[t])
           /\ \A k \in DOMAIN w.chunks[t] : w.chunks[t][k] \in ChunkRecord
           /\ w.current[t] \in ChunkRecord
<1>1. w.chunks[t] \in Seq(ChunkRecord) /\ w.current[t] \in ChunkRecord
  BY DEF StateType
<1>2. QED
  BY <1>1, ElementInSet

LEMMA CountsType ==
    ASSUME NEW chunks \in Seq(ChunkRecord)
    PROVE  /\ Counts(chunks) \in Seq(Nat) /\ Len(Counts(chunks)) = Len(chunks)
           /\ \A k \in 1 .. Len(chunks) : Counts(chunks)[k] = chunks[k].n
           /\ \A k \in 0 .. Len(chunks) : SumUpTo(Counts(chunks))[k] \in Nat
<1>1. Len(chunks) \in Nat /\ DOMAIN chunks = 1 .. Len(chunks)
  OBVIOUS
<1>2. \A k \in 1 .. Len(chunks) : chunks[k].n \in Nat
  <2>1. \A k \in 1 .. Len(chunks) : chunks[k] \in ChunkRecord
    BY ElementInSet
  <2>2. QED
    BY <2>1 DEF ChunkRecord
<1>3. /\ Counts(chunks) \in Seq(Nat) /\ Len(Counts(chunks)) = Len(chunks)
      /\ \A k \in 1 .. Len(chunks) : Counts(chunks)[k] = chunks[k].n
  <2> DEFINE n == Len(chunks)
             value(k) == chunks[k].n
  <2>1. Counts(chunks) = [k \in 1 .. n |-> value(k)]
    BY <1>1 DEF Counts
  <2>2. n \in Nat /\ \A k \in 1 .. n : value(k) \in Nat
    BY <1>1, <1>2
  <2> HIDE DEF n, value
  <2>3. [k \in 1 .. n |-> value(k)] \in Seq(Nat) /\ Len([k \in 1 .. n |-> value(k)]) = n
    BY <2>2
  <2>4. \A k \in 1 .. n : Counts(chunks)[k] = value(k)
    BY <2>1
  <2>5. QED
    BY <2>1, <2>3, <2>4 DEF n, value
<1>4. QED
  BY <1>3, SumType

LEMMA SamplesType ==
    ASSUME NEW w \in StateType, NEW t \in AllTracks
    PROVE  \A k \in 0 .. Len(w.chunks[t]) : Samples(w, t)[k] \in Nat
BY ChunksType, CountsType DEF Samples

-----------------------------------------------------------------------------
(* Operators that leave the tables as they are                             *)

SameTables(w, x) ==
    /\ x.chunks = w.chunks /\ x.current = w.current /\ x.frames = w.frames
    /\ x.last_track = w.last_track

Untouched(w, x) == SameTables(w, x) /\ SameExclusions(w, x)

LEMMA UntouchedTrans ==
    ASSUME NEW w, NEW x, NEW y, Untouched(w, x), Untouched(x, y)
    PROVE  Untouched(w, y)
BY DEF Untouched, SameTables, SameExclusions

LEMMA SamePositions ==
    ASSUME NEW w, NEW x, SameRanges(w, x)
    PROVE  /\ \A b : PositionIn(x, b) = PositionIn(w, b)
           /\ \A t, c, m : Placed(w, t, c, m) => Placed(x, t, c, m)
<1>1. RangeBytes(x) = RangeBytes(w) /\ x.frames = w.frames
  BY DEF RangeBytes, SameRanges, SameExclusions
<1>2. \A b : PositionIn(x, b) = PositionIn(w, b)
  BY <1>1 DEF PositionIn
<1>3. ASSUME NEW t, NEW c, NEW m, Placed(w, t, c, m)
      PROVE  Placed(x, t, c, m)
  BY <1>1, <1>2, <1>3, Zenon DEF Placed
<1>4. QED
  BY <1>2, <1>3

LEMMA UntouchedKept ==
    ASSUME NEW w, NEW x, Untouched(w, x), Tables(w)
    PROVE  /\ Tables(x)
           /\ \A t : NextPosition(x, t) = NextPosition(w, t)
<1>1. /\ x.chunks = w.chunks /\ x.current = w.current /\ x.frames = w.frames
      /\ x.last_track = w.last_track /\ SameRanges(w, x)
  BY DEF Untouched, SameTables, SameRanges
<1>2. /\ \A b : PositionIn(x, b) = PositionIn(w, b)
      /\ \A t, c, m : Placed(w, t, c, m) => Placed(x, t, c, m)
  BY <1>1, SamePositions
<1>3. \A t : Samples(x, t) = Samples(w, t)
  BY <1>1 DEF Samples
<1>4. OneOpen(x) /\ Tiled(x)
  BY <1>1, <1>3 DEF Tables, OneOpen, Tiled
<1>5. AllPlaced(w) => AllPlaced(x)
  BY <1>1, <1>2, <1>3, Zenon DEF AllPlaced
<1>6. ~job.dont_exclude => AllPlaced(x)
  BY <1>5 DEF Tables
<1>7. \A t : NextPosition(x, t) = NextPosition(w, t)
  BY <1>1, <1>2, Zenon DEF NextPosition
<1>8. QED
  BY <1>4, <1>6, <1>7 DEF Tables

LEMMA OpenChunkHasFrames ==
    ASSUME NEW w \in StateType, Tiled(w), NEW t \in Tracks, w.current[t].n # 0
    PROVE  Len(w.frames[t]) \in 1 .. Len(w.frames[t])
<1> DEFINE m == Samples(w, t)[Len(w.chunks[t])]
           n == w.current[t].n
<1>1. m \in Nat /\ n \in Nat
  BY SamplesType, ChunksType DEF AllTracks, ChunkRecord
<1>2. m + n = Len(w.frames[t])
  BY DEF Tiled
<1> HIDE DEF m, n
<1>3. n # 0
  BY DEF n
<1>4. QED
  BY <1>1, <1>2, <1>3

\* Exclusions behind all frames break nothing.
LEMMA ExclusionsKeepTables ==
    ASSUME NEW w \in StateType, NEW x \in StateType, Tables(w), SameTables(w, x),
           NEW f \in Int, Grows(w, x, f), FramesBehind(w, f)
    PROVE  /\ Tables(x)
           /\ \A t \in Tracks : NextPosition(x, t) = NextPosition(w, t)
<1>1. /\ x.chunks = w.chunks /\ x.current = w.current /\ x.frames = w.frames
      /\ x.last_track = w.last_track
  BY DEF SameTables
<1>2. Extends(w, x)
  <2>1. \A t \in Tracks : Len(w.frames[t]) \in Nat
    BY FramesType DEF AllTracks
  <2>2. QED
    BY <1>1, <2>1 DEF Extends
<1>3. \A t : Samples(x, t) = Samples(w, t)
  BY <1>1 DEF Samples
<1>4. OneOpen(x) /\ Tiled(x)
  BY <1>1, <1>3 DEF Tables, OneOpen, Tiled
<1>5. ASSUME AllPlaced(w), NEW t \in Tracks
      PROVE  /\ \A k \in DOMAIN x.chunks[t] : Placed(x, t, x.chunks[t][k], Samples(x, t)[k - 1])
             /\ Placed(x, t, x.current[t], Samples(x, t)[Len(x.chunks[t])])
  <2>1. t \in AllTracks
    BY DEF AllTracks
  <2>2. /\ \A k \in DOMAIN w.chunks[t] : w.chunks[t][k] \in ChunkRecord
        /\ w.current[t] \in ChunkRecord
        /\ DOMAIN w.chunks[t] = 1 .. Len(w.chunks[t]) /\ Len(w.chunks[t]) \in Nat
    BY <2>1, ChunksType
  <2>3. /\ Samples(w, t)[Len(w.chunks[t])] \in Nat
        /\ \A k \in DOMAIN w.chunks[t] : Samples(w, t)[k - 1] \in Nat
    BY <2>1, <2>2, SamplesType
  <2>4. ASSUME NEW k \in DOMAIN w.chunks[t]
        PROVE  Placed(x, t, w.chunks[t][k], Samples(w, t)[k - 1])
    BY <1>2, <1>5, <2>2, <2>3, PlacedKept DEF AllPlaced
  <2>5. Placed(x, t, w.current[t], Samples(w, t)[Len(w.chunks[t])])
    BY <1>2, <1>5, <2>2, <2>3, PlacedKept DEF AllPlaced
  <2>6. QED
    BY <1>1, <1>3, <2>4, <2>5
<1>6. ~job.dont_exclude => AllPlaced(x)
  BY <1>5 DEF Tables, AllPlaced
<1>7. ASSUME NEW t \in Tracks
      PROVE  NextPosition(x, t) = NextPosition(w, t)
  <2>1. CASE w.current[t].n = 0
    BY <1>1, <2>1 DEF NextPosition
  <2>2. CASE w.current[t].n # 0
    <3>1. Len(w.frames[t]) \in 1 .. Len(w.frames[t])
      BY <2>2, OpenChunkHasFrames DEF Tables
    <3>2. LET last == w.frames[t][Len(w.frames[t])]
          IN  PositionIn(x, last.off) = PositionIn(w, last.off)
      BY <1>1, <1>2, <3>1, FramePositionsKept
    <3>3. QED
      BY <1>1, <2>2, <3>2 DEF NextPosition
  <2>3. QED
    BY <2>1, <2>2
<1>8. QED
  BY <1>4, <1>6, <1>7 DEF Tables

LEMMA FailedUntouched ==
    ASSUME NEW w \in StateType, NEW holds, NEW name
    PROVE  Untouched(w, Assertt(w, holds, name))
BY DEF Untouched, SameTables, SameExclusions, Assertt, StateType

LEMMA PredictingUntouched ==
    ASSUME NEW w \in StateType, NEW p
    PROVE  Untouched(w, Predicting(w, p))
BY DEF Untouched, SameTables, SameExclusions, Assertt, StateType, Predicting

LEMMA CorrectUntouched ==
    ASSUME NEW w \in StateType, NEW t
    PROVE  Untouched(w, CorrectChunkIdx(w, t))
<1> DEFINE ok == Assertt(w, t # Free, "correctChunkIdx")
<1>1. ok \in StateType /\ Untouched(w, ok)
  <2>1. "correctChunkIdx" \in Failures
    BY DEF Failures
  <2>2. ok \in StateType
    BY <2>1, FailedType DEF Assertt
  <2>3. QED
    BY <2>2, FailedUntouched
<1> HIDE DEF ok
<1>2. \A n : Untouched(ok, [ok EXCEPT !.next_chunk = n])
  BY <1>1 DEF Untouched, SameTables, SameExclusions, StateType
<1>3. \A name : Untouched(ok, Assertt(ok, FALSE, name))
  BY <1>1, FailedUntouched
<1>4. Untouched(ok, ok)
  BY DEF Untouched, SameTables, SameExclusions
<1>5. \/ CorrectChunkIdx(w, t) = ok
      \/ \E n : CorrectChunkIdx(w, t) = [ok EXCEPT !.next_chunk = n]
      \/ \E name : CorrectChunkIdx(w, t) = Assertt(ok, FALSE, name)
  BY Zenon DEF CorrectChunkIdx, ok
<1>6. Untouched(ok, CorrectChunkIdx(w, t))
  BY <1>2, <1>3, <1>4, <1>5
<1>7. QED
  BY <1>1, <1>6, UntouchedTrans

LEMMA OnFirstUntouched ==
    ASSUME NEW w \in StateType, NEW t
    PROVE  Untouched(w, OnFirstChunkFound(w, t))
<1> DEFINE v == [w EXCEPT !.first_chunk_found = TRUE]
           ok == Assertt(v, w.next_chunk = 0, "onFirstChunkFound")
<1>1. v \in StateType /\ Untouched(w, v)
  BY DEF StateType, Untouched, SameTables, SameExclusions
<1> HIDE DEF v
<1>2. ok \in StateType /\ Untouched(v, ok)
  <2>1. "onFirstChunkFound" \in Failures
    BY DEF Failures
  <2>2. QED
    BY <1>1, <2>1, FailedType, FailedUntouched DEF Assertt
<1> HIDE DEF ok
<1>3. Untouched(w, CorrectChunkIdx(ok, t))
  BY <1>1, <1>2, CorrectUntouched, UntouchedTrans
<1>4. Untouched(w, w)
  BY DEF Untouched, SameTables, SameExclusions
<1>5. OnFirstChunkFound(w, t) = IF t = Free THEN w ELSE CorrectChunkIdx(ok, t)
  BY Zenon DEF OnFirstChunkFound, ok, v
<1>6. QED
  BY <1>3, <1>4, <1>5

LEMMA AfterExpectedUntouched ==
    ASSUME NEW w \in StateType, NEW t
    PROVE  Untouched(w, AfterExpected(w, t))
<1>1. Untouched(w, w)
  BY DEF Untouched, SameTables, SameExclusions
<1>2. QED
  BY <1>1, CorrectUntouched DEF AfterExpected

LEMMA AddToExcludeSame ==
    ASSUME NEW w \in StateType, NEW start, NEW length
    PROVE  SameTables(w, AddToExclude(w, start, length))
BY DEF SameTables, AddToExclude, Assertt, StateType

LEMMA AddUnknownSame ==
    ASSUME NEW w \in StateType, NEW start, NEW length
    PROVE  SameTables(w, AddUnknownSequence(w, start, length))
<1> DEFINE ok == Assertt(w, length # 0, "addUnknownSequence")
           x == AddToExclude(ok, start, length)
<1>1. ok \in StateType /\ SameTables(w, ok)
  <2>1. "addUnknownSequence" \in Failures
    BY DEF Failures
  <2>2. QED
    BY <2>1, FailedType, FailedUntouched DEF Assertt, Untouched
<1> HIDE DEF ok
<1>2. SameTables(ok, x)
  BY <1>1, AddToExcludeSame
<1> HIDE DEF x
<1>3. \A s : SameTables(x, [x EXCEPT !.unknown_sequences = s])
  BY DEF SameTables
<1>4. AddUnknownSequence(w, start, length)
        = [x EXCEPT !.unknown_sequences = Append(@, [start |-> start, length |-> length])]
  BY Zenon DEF AddUnknownSequence, x, ok
<1>5. QED
  BY <1>1, <1>2, <1>3, <1>4 DEF SameTables

LEMMA ChkEndedSame ==
    ASSUME NEW w \in StateType, NEW off
    PROVE  SameTables(w, ChkUnknownSequenceEnded(w, off))
<1>1. SameTables(w, w)
  BY DEF SameTables
<1>2. SameTables(w, AddUnknownSequence(w, off - w.unknown_length, w.unknown_length))
  BY AddUnknownSame
<1>3. QED
  BY <1>1, <1>2 DEF ChkUnknownSequenceEnded, SameTables

LEMMA AfterAdvanceSame ==
    ASSUME NEW w \in StateType
    PROVE  SameTables(w, AfterAdvance(w))
<1>1. SameTables(w, w)
  BY DEF SameTables
<1>2. ASSUME NEW holds
      PROVE  LET ok == Assertt(w, holds, "chkExcludeOverlap")
             IN  ok \in StateType /\ SameTables(w, ok)
  <2>1. "chkExcludeOverlap" \in Failures
    BY DEF Failures
  <2>2. QED
    BY <2>1, FailedType, FailedUntouched DEF Assertt, Untouched
<1>3. \A holds, start, length :
        SameTables(w, AddToExclude(Assertt(w, holds, "chkExcludeOverlap"), start, length))
  BY <1>2, AddToExcludeSame DEF SameTables
<1>4. SameTables(w, ExcludeSkipped(w, from, offset))
  BY <1>3, Zenon DEF ExcludeSkipped
<1>5. QED
  BY <1>1, <1>4 DEF AfterAdvance

-----------------------------------------------------------------------------
(* A chunk ends, and another begins                                        *)

AllClosed(w) == \A t \in Tracks : w.current[t].n = 0

LEMMA CountsAppend ==
    ASSUME NEW chunks \in Seq(ChunkRecord), NEW c \in ChunkRecord
    PROVE  Counts(Append(chunks, c)) = Append(Counts(chunks), c.n)
<1> DEFINE more == Append(chunks, c)
<1>1. /\ more \in Seq(ChunkRecord) /\ Len(more) = Len(chunks) + 1 /\ Len(chunks) \in Nat
      /\ more[Len(chunks) + 1] = c
      /\ \A k \in 1 .. Len(chunks) : more[k] = chunks[k]
  OBVIOUS
<1> HIDE DEF more
<1>2. /\ Counts(chunks) \in Seq(Nat) /\ Len(Counts(chunks)) = Len(chunks)
      /\ \A k \in 1 .. Len(chunks) : Counts(chunks)[k] = chunks[k].n
  BY CountsType
<1>3. /\ Counts(more) \in Seq(Nat) /\ Len(Counts(more)) = Len(chunks) + 1
      /\ \A k \in 1 .. Len(chunks) + 1 : Counts(more)[k] = more[k].n
  BY <1>1, CountsType
<1>4. c.n \in Nat
  BY DEF ChunkRecord
<1>5. \A k \in 1 .. Len(chunks) : Counts(more)[k] = Counts(chunks)[k]
  <2>1. ASSUME NEW k \in 1 .. Len(chunks)
        PROVE  Counts(more)[k] = Counts(chunks)[k]
    <3>1. k \in 1 .. Len(chunks) + 1
      BY <1>1
    <3>2. Counts(more)[k] = more[k].n
      BY <1>3, <3>1
    <3>3. QED
      BY <1>1, <1>2, <3>2
  <2>2. QED
    BY <2>1
<1>6. Counts(more)[Len(chunks) + 1] = c.n
  BY <1>1, <1>3
<1> DEFINE a == Append(Counts(chunks), c.n)
<1>7. /\ a \in Seq(Nat) /\ Len(a) = Len(chunks) + 1 /\ a[Len(chunks) + 1] = c.n
      /\ \A k \in 1 .. Len(chunks) : a[k] = Counts(chunks)[k]
  BY <1>2, <1>4
<1> HIDE DEF a
<1>8. \A k \in 1 .. Len(chunks) + 1 : Counts(more)[k] = a[k]
  BY <1>1, <1>5, <1>6, <1>7
<1>9. Counts(more) = a
  BY <1>1, <1>3, <1>7, <1>8
<1>10. QED
  BY <1>9 DEF more, a

\* The samples before each chunk, once c is appended.
LEMMA SamplesAppend ==
    ASSUME NEW chunks \in Seq(ChunkRecord), NEW c \in ChunkRecord
    PROVE  LET sum == SumUpTo(Counts(chunks))
               more == SumUpTo(Counts(Append(chunks, c)))
           IN  /\ \A k \in 0 .. Len(chunks) : more[k] = sum[k]
               /\ more[Len(chunks) + 1] = sum[Len(chunks)] + c.n
<1>1. Counts(chunks) \in Seq(Nat) /\ Len(Counts(chunks)) = Len(chunks) /\ c.n \in Nat
  BY CountsType DEF ChunkRecord
<1>2. /\ \A k \in 0 .. Len(chunks) :
           SumUpTo(Append(Counts(chunks), c.n))[k] = SumUpTo(Counts(chunks))[k]
      /\ SumUpTo(Append(Counts(chunks), c.n))[Len(chunks) + 1]
           = SumUpTo(Counts(chunks))[Len(chunks)] + c.n
  BY <1>1, SumAppend
<1>3. Counts(Append(chunks, c)) = Append(Counts(chunks), c.n)
  BY CountsAppend
<1>4. QED
  BY <1>2, <1>3

\* The chunk c of track t is stored, and t's current chunk is empty.
Stores(w, x, t, c) ==
    /\ x.chunks[t] = Append(w.chunks[t], c) /\ x.current[t].n = 0
    /\ \A u \in Tracks \ {t} : x.chunks[u] = w.chunks[u] /\ x.current[u] = w.current[u]
    /\ SameRanges(w, x)

LEMMA FinalizeStores ==
    ASSUME NEW w \in StateType, w.last_track \in Tracks
    PROVE  Stores(w, FinalizeCurrentChunk(w), w.last_track, w.current[w.last_track])
<1> DEFINE t == w.last_track
           c == w.current[t]
           ok == Assertt(w, c.n > 0, "finalizeCurrentChunk")
           x == [ok EXCEPT !.chunks[t] = Append(@, c), !.current[t].n = 0, !.current[t].size = 0]
<1>1. t \in AllTracks /\ t # Free
  BY TracksAssumption DEF AllTracks
<1>2. ok \in StateType /\ Untouched(w, ok)
  <2>1. "finalizeCurrentChunk" \in Failures
    BY DEF Failures
  <2>2. QED
    BY <2>1, FailedType, FailedUntouched DEF Assertt
<1>3. FinalizeCurrentChunk(w) = x
  BY <1>1 DEF FinalizeCurrentChunk
<1> HIDE DEF ok
<1>4. /\ ok.chunks \in [AllTracks -> Seq(ChunkRecord)]
      /\ ok.current \in [AllTracks -> ChunkRecord]
  BY <1>2 DEF StateType
<1>5. /\ x.chunks = [ok.chunks EXCEPT ![t] = Append(@, c)]
      /\ x.current = [ok.current EXCEPT ![t].n = 0, ![t].size = 0]
      /\ SameRanges(ok, x)
  BY <1>2 DEF StateType, SameRanges, SameExclusions
<1>6. /\ ok.chunks = w.chunks /\ ok.current = w.current /\ SameRanges(w, ok)
  BY <1>2 DEF Untouched, SameTables, SameRanges
<1> HIDE DEF x
<1>7. x.chunks[t] = Append(w.chunks[t], c)
  BY <1>1, <1>4, <1>5, <1>6
<1>8. x.current[t].n = 0
  BY <1>1, <1>4, <1>5 DEF ChunkRecord
<1>9. \A u \in Tracks \ {t} : x.chunks[u] = w.chunks[u] /\ x.current[u] = w.current[u]
  BY <1>1, <1>4, <1>5, <1>6 DEF AllTracks
<1>10. SameRanges(w, x)
  BY <1>5, <1>6 DEF SameRanges, SameExclusions
<1>11. QED
  BY <1>3, <1>7, <1>8, <1>9, <1>10 DEF Stores

LEMMA StoresTables ==
    ASSUME NEW w \in StateType, Tables(w), w.last_track \in Tracks, NEW x \in StateType,
           Stores(w, x, w.last_track, w.current[w.last_track])
    PROVE  Tables(x) /\ AllClosed(x)
<1> DEFINE t == w.last_track
           c == w.current[t]
           n == Len(w.chunks[t])
<1>1. t \in AllTracks /\ x.frames = w.frames /\ SameRanges(w, x)
  BY DEF AllTracks, Stores, SameRanges
<1>2. /\ x.chunks[t] = Append(w.chunks[t], c) /\ x.current[t].n = 0
      /\ \A u \in Tracks \ {t} : x.chunks[u] = w.chunks[u] /\ x.current[u] = w.current[u]
  BY DEF Stores
<1>3. w.chunks[t] \in Seq(ChunkRecord) /\ c \in ChunkRecord /\ n \in Nat
  BY <1>1, ChunksType
<1>4. /\ \A k \in 0 .. n : Samples(x, t)[k] = Samples(w, t)[k]
      /\ Samples(x, t)[n + 1] = Samples(w, t)[n] + c.n
  BY <1>2, <1>3, SamplesAppend DEF Samples
<1>5. Len(x.chunks[t]) = n + 1 /\ DOMAIN x.chunks[t] = 1 .. n + 1
      /\ x.chunks[t][n + 1] = c /\ \A k \in 1 .. n : x.chunks[t][k] = w.chunks[t][k]
  BY <1>2, <1>3
<1>6. Samples(w, t)[n] + c.n = Len(w.frames[t])
  BY DEF Tables, Tiled
<1>7. \A u \in Tracks \ {t} : Samples(x, u) = Samples(w, u)
  BY <1>2 DEF Samples
<1>8. AllClosed(x)
  BY <1>2 DEF Tables, OneOpen, AllClosed
<1>9. Tiled(x)
  <2>1. Samples(x, t)[Len(x.chunks[t])] + x.current[t].n = Len(x.frames[t])
    <3>1. Samples(x, t)[Len(x.chunks[t])] = Len(w.frames[t]) /\ Len(w.frames[t]) \in Nat
      BY <1>1, <1>4, <1>5, <1>6, FramesType
    <3>2. QED
      BY <1>1, <1>2, <3>1
  <2>2. ASSUME NEW u \in Tracks, u # t
        PROVE  Samples(x, u)[Len(x.chunks[u])] + x.current[u].n = Len(x.frames[u])
    <3>1. Samples(w, u)[Len(w.chunks[u])] + w.current[u].n = Len(w.frames[u])
      BY DEF Tables, Tiled
    <3>2. x.chunks[u] = w.chunks[u] /\ x.current[u] = w.current[u] /\ Samples(x, u) = Samples(w, u)
      BY <1>2, <1>7, <2>2
    <3>3. QED
      BY <1>1, <3>1, <3>2
  <2>3. QED
    BY <2>1, <2>2 DEF Tiled
<1>10. ASSUME AllPlaced(w)
       PROVE  AllPlaced(x)
  <2>1. \A u, d, m : Placed(w, u, d, m) => Placed(x, u, d, m)
    BY <1>1, SamePositions
  <2>2. ASSUME NEW k \in DOMAIN x.chunks[t]
        PROVE  Placed(x, t, x.chunks[t][k], Samples(x, t)[k - 1])
    <3>1. CASE k \in 1 .. n
      <4>1. k \in DOMAIN w.chunks[t] /\ k - 1 \in 0 .. n
        BY <1>3, <3>1
      <4>2. x.chunks[t][k] = w.chunks[t][k] /\ Samples(x, t)[k - 1] = Samples(w, t)[k - 1]
        BY <1>4, <1>5, <3>1, <4>1
      <4>3. QED
        BY <1>10, <2>1, <4>1, <4>2 DEF AllPlaced
    <3>2. CASE k = n + 1
      <4>1. k - 1 = n /\ n \in 0 .. n
        BY <1>3, <3>2
      <4>2. x.chunks[t][k] = c /\ Samples(x, t)[k - 1] = Samples(w, t)[n]
        BY <1>4, <1>5, <3>2, <4>1
      <4>3. Placed(w, t, c, Samples(w, t)[n])
        BY <1>10 DEF AllPlaced
      <4>4. QED
        BY <2>1, <4>2, <4>3
    <3>3. k \in 1 .. n + 1
      BY <1>5
    <3>4. k \in 1 .. n \/ k = n + 1
      BY <1>3, <3>3
    <3>5. QED
      BY <3>1, <3>2, <3>4
  <2>3. Placed(x, t, x.current[t], Samples(x, t)[Len(x.chunks[t])])
    <3>1. Samples(x, t)[Len(x.chunks[t])] = Len(x.frames[t]) /\ Len(x.frames[t]) \in Nat
      BY <1>1, <1>4, <1>5, <1>6, FramesType
    <3>2. QED
      BY <1>2, <3>1 DEF Placed
  <2>4. ASSUME NEW u \in Tracks, u # t
        PROVE  /\ \A k \in DOMAIN x.chunks[u] : Placed(x, u, x.chunks[u][k], Samples(x, u)[k - 1])
               /\ Placed(x, u, x.current[u], Samples(x, u)[Len(x.chunks[u])])
    <3>1. x.chunks[u] = w.chunks[u] /\ x.current[u] = w.current[u] /\ Samples(x, u) = Samples(w, u)
      BY <1>2, <1>7, <2>4
    <3>2. /\ \A k \in DOMAIN w.chunks[u] : Placed(w, u, w.chunks[u][k], Samples(w, u)[k - 1])
          /\ Placed(w, u, w.current[u], Samples(w, u)[Len(w.chunks[u])])
      BY <1>10 DEF AllPlaced
    <3>3. QED
      BY <2>1, <3>1, <3>2
  <2>5. QED
    BY <2>2, <2>3, <2>4 DEF AllPlaced
<1>11. OneOpen(x)
  BY <1>8 DEF OneOpen, AllClosed
<1>12. QED
  BY <1>8, <1>9, <1>10, <1>11 DEF Tables

LEMMA PushBackTables ==
    ASSUME NEW w \in StateType, FreeEmpty(w), Tables(w)
    PROVE  LET x == PushBackLastChunk(w)
           IN  Tables(x) /\ AllClosed(x)
<1>1. PushBackLastChunk(w) = IF NoLastTrack(w) THEN w ELSE FinalizeCurrentChunk(w)
  BY DEF PushBackLastChunk, FreeEmpty
<1>2. CASE w.last_track \in Tracks
  <2>1. ~NoLastTrack(w)
    BY <1>2, TracksAssumption DEF NoLastTrack
  <2>2. FinalizeCurrentChunk(w) \in StateType
    BY <2>1, FinalizeCurrentChunkType
  <2>3. QED
    BY <1>1, <1>2, <2>1, <2>2, FinalizeStores, StoresTables
<1>3. CASE w.last_track \notin Tracks
  <2>1. w.last_track = Start \/ w.last_track = Free
    BY <1>3 DEF StateType, AllTracks
  <2>2. PushBackLastChunk(w) = w
    BY <1>1, <2>1 DEF NoLastTrack, FinalizeCurrentChunk, FreeEmpty
  <2>3. AllClosed(w)
    BY <1>3 DEF Tables, OneOpen, AllClosed
  <2>4. QED
    BY <2>2, <2>3
<1>4. QED
  BY <1>2, <1>3

LEMMA OnNewTables ==
    ASSUME NEW w \in StateType, job \in Jobs, FreeEmpty(w), Tables(w), NEW t
    PROVE  LET x == OnNewChunkStarted(w, t)
           IN  Tables(x) /\ AllClosed(x)
<1> DEFINE right == CorrectChunkIdx(w, t)
           corrected == IF w.ignored_chunk_order
                        THEN [right EXCEPT !.ignored_chunk_order = FALSE] ELSE w
           pushedBack == PushBackLastChunk(corrected)
           pushed == [pushedBack EXCEPT !.done_padding_after = FALSE]
           found == IF pushed.first_chunk_found THEN pushed ELSE OnFirstChunkFound(pushed, t)
<1>1. right \in StateType /\ Untouched(w, right)
  BY CorrectChunkIdxType, CorrectUntouched
<1> HIDE DEF right
<1>2. corrected \in StateType /\ Untouched(w, corrected)
  BY <1>1 DEF StateType, Untouched, SameTables, SameExclusions
<1>3. FreeEmpty(corrected) /\ Tables(corrected)
  BY <1>2, UntouchedKept DEF FreeEmpty, Untouched, SameTables
<1> HIDE DEF corrected
<1>4. pushedBack \in StateType /\ Tables(pushedBack) /\ AllClosed(pushedBack)
  BY <1>2, <1>3, PushBackLastChunkType, PushBackTables
<1> HIDE DEF pushedBack
<1>5. pushed \in StateType /\ Untouched(pushedBack, pushed)
  BY <1>4 DEF StateType, Untouched, SameTables, SameExclusions
<1> HIDE DEF pushed
<1>6. found \in StateType /\ Untouched(pushedBack, found)
  <2>1. OnFirstChunkFound(pushed, t) \in StateType
          /\ Untouched(pushedBack, OnFirstChunkFound(pushed, t))
    BY <1>5, OnFirstChunkFoundType, OnFirstUntouched, UntouchedTrans
  <2>2. QED
    BY <1>5, <2>1
<1> HIDE DEF found
<1>7. Untouched(pushedBack, [found EXCEPT !.next_chunk = @ + 1])
  BY <1>6 DEF StateType, Untouched, SameTables, SameExclusions
<1>8. OnNewChunkStarted(w, t) =
        IF t = Free THEN pushed ELSE [found EXCEPT !.next_chunk = @ + 1]
  BY Zenon DEF OnNewChunkStarted, found, pushed, pushedBack, corrected, right
<1>9. Untouched(pushedBack, OnNewChunkStarted(w, t))
  BY <1>5, <1>7, <1>8
<1>10. QED
  BY <1>4, <1>9, UntouchedKept DEF AllClosed, Untouched, SameTables

-----------------------------------------------------------------------------
(* Tracks that the order tells apart                                       *)

\* The simple order expects a chunk of track t next.
Awaits(w, t) == At(job.simple, w.next_chunk) = t

LEMMA CorrectAwaits ==
    ASSUME NEW w \in StateType, job \in Jobs, NEW t \in Tracks, Told(job, t), Awaits(w, t)
    PROVE  Awaits(CorrectChunkIdx(w, t), t)
<1> DEFINE ok == Assertt(w, t # Free, "correctChunkIdx")
<1>1. ok = w
  BY TracksAssumption DEF Assertt
<1>2. job.order = <<>> /\ job.simple # <<>>
  BY DEF Told
<1>3. job.simple \in Seq(Tracks) /\ w.next_chunk \in Nat
  BY JobsAssumption DEF JobType, StateType
<1>4. CASE CanSkipTo(job.simple, t)
  <2>1. CorrectChunkIdx(w, t) = [w EXCEPT !.next_chunk = SkipToTrack(job.simple, @, t)]
    BY <1>1, <1>2, <1>4 DEF CorrectChunkIdx
  <2>2. CorrectChunkIdx(w, t).next_chunk = SkipToTrack(job.simple, w.next_chunk, t)
    BY <2>1 DEF StateType
  <2>3. At(job.simple, SkipToTrack(job.simple, w.next_chunk, t)) = t
    BY <1>3, <1>4, SkipToTrackCorrect
  <2>4. QED
    BY <2>2, <2>3 DEF Awaits
<1>5. CASE ~CanSkipTo(job.simple, t)
  <2>1. CorrectChunkIdx(w, t).next_chunk = w.next_chunk
    BY <1>1, <1>2, <1>5 DEF CorrectChunkIdx, Assertt, StateType
  <2>2. QED
    BY <2>1 DEF Awaits
<1>6. QED
  BY <1>4, <1>5

LEMMA OnFirstAwaits ==
    ASSUME NEW w \in StateType, job \in Jobs, NEW t \in Tracks, Told(job, t), Awaits(w, t)
    PROVE  Awaits(OnFirstChunkFound(w, t), t)
<1> DEFINE v == [w EXCEPT !.first_chunk_found = TRUE]
           ok == Assertt(v, w.next_chunk = 0, "onFirstChunkFound")
<1>1. v \in StateType /\ v.next_chunk = w.next_chunk
  BY DEF StateType
<1> HIDE DEF v
<1>2. ok \in StateType /\ ok.next_chunk = w.next_chunk
  <2>1. "onFirstChunkFound" \in Failures
    BY DEF Failures
  <2>2. ok \in StateType
    BY <1>1, <2>1, FailedType DEF Assertt
  <2>3. QED
    BY <1>1, <2>2 DEF Assertt, StateType
<1>3. OnFirstChunkFound(w, t) = CorrectChunkIdx(ok, t)
  BY TracksAssumption, Zenon DEF OnFirstChunkFound, v
<1> HIDE DEF ok
<1>4. Awaits(ok, t)
  BY <1>2 DEF Awaits
<1>5. QED
  BY <1>2, <1>3, <1>4, CorrectAwaits

LEMMA ChkEndedNext ==
    ASSUME NEW w \in StateType, NEW off
    PROVE  ChkUnknownSequenceEnded(w, off).next_chunk = w.next_chunk
BY DEF ChkUnknownSequenceEnded, AddUnknownSequence, AddToExclude, Assertt, StateType

LEMMA PushBackNext ==
    ASSUME NEW w \in StateType
    PROVE  PushBackLastChunk(w).next_chunk = w.next_chunk
<1>1. \A off, size : /\ AddUnknownSequence(w, off, size).next_chunk = w.next_chunk
  BY DEF AddUnknownSequence, AddToExclude, Assertt, StateType
<1>2. \A v : FinalizeCurrentChunk(v).next_chunk = v.next_chunk
  BY DEF FinalizeCurrentChunk, Assertt, StateType
<1>3. QED
  BY <1>1, <1>2 DEF PushBackLastChunk

\* The chunk after one of t is another track's.
LEMMA OnNewAwaits ==
    ASSUME NEW w \in StateType, job \in Jobs, NEW t \in Tracks, Told(job, t), Awaits(w, t)
    PROVE  ~Awaits(OnNewChunkStarted(w, t), t)
<1> DEFINE right == CorrectChunkIdx(w, t)
           corrected == IF w.ignored_chunk_order
                        THEN [right EXCEPT !.ignored_chunk_order = FALSE] ELSE w
           pushedBack == PushBackLastChunk(corrected)
           pushed == [pushedBack EXCEPT !.done_padding_after = FALSE]
           found == IF pushed.first_chunk_found THEN pushed ELSE OnFirstChunkFound(pushed, t)
<1>1. right \in StateType /\ Awaits(right, t)
  BY CorrectChunkIdxType, CorrectAwaits
<1> HIDE DEF right
<1>2. corrected \in StateType /\ Awaits(corrected, t)
  BY <1>1 DEF StateType, Awaits
<1> HIDE DEF corrected
<1>3. pushedBack \in StateType /\ Awaits(pushedBack, t)
  BY <1>2, PushBackLastChunkType, PushBackNext DEF Awaits
<1> HIDE DEF pushedBack
<1>4. pushed \in StateType /\ Awaits(pushed, t)
  BY <1>3 DEF StateType, Awaits
<1> HIDE DEF pushed
<1>5. found \in StateType /\ Awaits(found, t)
  BY <1>4, OnFirstChunkFoundType, OnFirstAwaits
<1> HIDE DEF found
<1>6. OnNewChunkStarted(w, t) = [found EXCEPT !.next_chunk = @ + 1]
  BY TracksAssumption, Zenon
  DEF OnNewChunkStarted, found, pushed, pushedBack, corrected, right
<1>7. OnNewChunkStarted(w, t).next_chunk = found.next_chunk + 1 /\ found.next_chunk \in Nat
  BY <1>5, <1>6 DEF StateType
<1>8. QED
  BY <1>5, <1>7 DEF Awaits, Told

-----------------------------------------------------------------------------
(* A frame is added                                                        *)

\* A frame of track t found at off belongs behind the samples of t's open chunk.
Ready(w, t, off) ==
    /\ Tables(w)
    /\ \A u \in Tracks \ {t} : w.current[u].n = 0
    /\ ~job.dont_exclude => off - w.total_excluded = NextPosition(w, t)

LEMMA BeginReady ==
    ASSUME NEW w \in StateType, NEW t \in Tracks, NEW off \in Nat, Tables(w), AllClosed(w)
    PROVE  /\ Ready(BeginChunk(w, t, off), t, off)
           /\ BeginChunk(w, t, off).current[t].n = 0
<1> DEFINE x == BeginChunk(w, t, off)
<1>1. t \in AllTracks
  BY DEF AllTracks
<1>2. w.current \in [AllTracks -> ChunkRecord] /\ w.total_excluded \in Int
  BY DEF StateType
<1>3. /\ x.current = [w.current EXCEPT ![t].off = off, ![t].already_excluded = w.total_excluded]
      /\ x.chunks = w.chunks /\ x.last_track = w.last_track /\ SameRanges(w, x)
  BY <1>1 DEF BeginChunk, StateType, SameRanges, SameExclusions
<1> HIDE DEF x
<1>4. \A u \in Tracks \ {t} : x.current[u] = w.current[u]
  BY <1>2, <1>3 DEF AllTracks
<1>5. x.current[t].n = w.current[t].n /\ x.current[t].off = off
        /\ x.current[t].already_excluded = w.total_excluded
  BY <1>1, <1>2, <1>3 DEF ChunkRecord
<1>6. AllClosed(x)
  BY <1>4, <1>5 DEF AllClosed
<1>7. \A u \in Tracks : Samples(x, u) = Samples(w, u)
  BY <1>3 DEF Samples
<1>8. Tiled(x)
  <2>1. \A u \in Tracks : x.current[u].n = w.current[u].n
    BY <1>6 DEF AllClosed
  <2>2. QED
    BY <1>3, <1>7, <2>1 DEF Tables, Tiled, SameRanges
<1>9. ASSUME AllPlaced(w)
      PROVE  AllPlaced(x)
  <2>1. \A u, d, m : Placed(w, u, d, m) => Placed(x, u, d, m)
    BY <1>3, SamePositions
  <2>2. ASSUME NEW u \in Tracks
        PROVE  Placed(x, u, x.current[u], Samples(x, u)[Len(x.chunks[u])])
    <3>1. x.current[u].n = 0 /\ Len(x.frames[u]) \in Nat
            /\ Samples(x, u)[Len(x.chunks[u])] \in Nat
      <4>1. u \in AllTracks
        BY DEF AllTracks
      <4>2. x.current[u].n = 0
        BY <1>6 DEF AllClosed
      <4>3. Len(x.frames[u]) \in Nat
        BY <1>3, <4>1, FramesType DEF SameRanges
      <4>n. Len(w.chunks[u]) \in Nat
        BY <4>1, ChunksType
      <4>s. Samples(w, u)[Len(w.chunks[u])] \in Nat
        BY <4>1, <4>n, SamplesType
      <4>4. Samples(x, u)[Len(x.chunks[u])] \in Nat
        BY <1>3, <1>7, <4>s
      <4>5. QED
        BY <4>2, <4>3, <4>4
    <3>2. Samples(x, u)[Len(x.chunks[u])] + x.current[u].n = Len(x.frames[u])
      BY <1>8 DEF Tiled
    <3>3. QED
      BY <3>1, <3>2 DEF Placed
  <2>3. ASSUME NEW u \in Tracks, NEW k \in DOMAIN x.chunks[u]
        PROVE  Placed(x, u, x.chunks[u][k], Samples(x, u)[k - 1])
    BY <1>3, <1>7, <1>9, <2>1 DEF AllPlaced
  <2>4. QED
    BY <2>2, <2>3 DEF AllPlaced
<1>10. Tables(x)
  BY <1>6, <1>8, <1>9 DEF Tables, OneOpen, AllClosed
<1>11. off - x.total_excluded = NextPosition(x, t)
  BY <1>3, <1>5, <1>6 DEF NextPosition, AllClosed, SameRanges, SameExclusions
<1>12. QED
  BY <1>6, <1>10, <1>11 DEF Ready, AllClosed, x

LEMMA ChunkForMatchReady ==
    ASSUME NEW w \in StateType, job \in Jobs, NEW t \in Tracks, NEW off \in Nat,
           FreeEmpty(w), Book(w), w.unknown_length <= off, Behind(w, off - w.unknown_length),
           w.unknown_length > 0 => off - w.unknown_length <= Size,
           w.unknown_length > 0 => w.last_track = Free,
           Tables(w), w.last_track = t => ~Limited(job, t),
           w.last_track = t /\ ~job.dont_exclude => off - w.total_excluded = NextPosition(w, t)
    PROVE  /\ Ready(ChunkForMatch(w, t, off), t, off)
           /\ w.last_track # t /\ Told(job, t) /\ Awaits(w, t) =>
                  ~Awaits(ChunkForMatch(w, t, off), t)
<1> DEFINE chk == ChkUnknownSequenceEnded(w, off)
           right == CorrectChunkIdx(chk, t)
           ended == IF w.unknown_length > 0 THEN right ELSE w
           found == IF ended.first_chunk_found THEN ended ELSE OnFirstChunkFound(ended, t)
           new == OnNewChunkStarted(found, t)
           begun == BeginChunk(new, t, off)
           started == IF found.last_track = t THEN found ELSE begun
           x == IF job.ref[t].has_duplicates /\ ChunkReachedSampleLimit(started, t)
                THEN OnNewChunkStarted(started, t) ELSE started
<1>1. t \in AllTracks /\ t # Free /\ w.unknown_length \in Nat
  BY TracksAssumption DEF AllTracks, StateType
<1>2. chk \in StateType /\ SameTables(w, chk) /\ (w.unknown_length = 0 => chk = w)
  BY ChkUnknownSequenceEndedType, ChkEndedSame DEF ChkUnknownSequenceEnded
<1>3. Tables(chk) /\ FreeEmpty(chk)
  <2>1. Grows(w, chk, off - w.unknown_length)
    BY ChkEndedRange
  <2>2. FramesBehind(w, off - w.unknown_length) /\ off - w.unknown_length \in Int
    BY <1>1 DEF Behind
  <2>3. QED
    BY <1>2, <2>1, <2>2, ExclusionsKeepTables DEF FreeEmpty, SameTables
<1>4. ChunkForMatch(w, t, off) = x
  BY Zenon DEF ChunkForMatch
<1> HIDE DEF chk
<1>5. Untouched(chk, chk)
  BY DEF Untouched, SameTables, SameExclusions
<1>6. ended \in StateType /\ Untouched(chk, ended)
  <2>1. right \in StateType /\ Untouched(chk, right)
    BY <1>2, CorrectChunkIdxType, CorrectUntouched
  <2>2. QED
    BY <1>1, <1>2, <1>5, <2>1
<1> HIDE DEF ended
<1>7. found \in StateType /\ Untouched(chk, found)
  <2>1. OnFirstChunkFound(ended, t) \in StateType /\ Untouched(chk, OnFirstChunkFound(ended, t))
    BY <1>6, OnFirstChunkFoundType, OnFirstUntouched, UntouchedTrans
  <2>2. QED
    BY <1>6, <2>1
<1> HIDE DEF found
<1>8. Tables(found) /\ FreeEmpty(found)
  BY <1>3, <1>7, UntouchedKept DEF FreeEmpty, Untouched, SameTables
<1>9. CASE found.last_track = t
  <2>1. w.last_track = t
    BY <1>2, <1>7, <1>9 DEF Untouched, SameTables
  <2>2. chk = w
    BY <1>1, <1>2, <2>1
  <2>3. x = found
    BY <1>9, <2>1 DEF Limited, ChunkReachedSampleLimit
  <2>4. NextPosition(found, t) = NextPosition(w, t) /\ found.total_excluded = w.total_excluded
    BY <1>3, <1>7, <2>2, UntouchedKept DEF Untouched, SameExclusions
  <2>5. \A u \in Tracks \ {t} : found.current[u].n = 0
    BY <1>8, <1>9 DEF Tables, OneOpen
  <2>6. Ready(found, t, off)
    BY <1>8, <2>1, <2>4, <2>5 DEF Ready
  <2>7. QED
    BY <1>4, <2>1, <2>3, <2>6
<1>10. CASE found.last_track # t
  <2>1. /\ new \in StateType /\ Tables(new) /\ AllClosed(new)
        /\ Told(job, t) /\ Awaits(w, t) => ~Awaits(new, t)
    <3>1. new \in StateType /\ Tables(new) /\ AllClosed(new)
      BY <1>7, <1>8, OnNewChunkStartedType, OnNewTables
    <3>2. ASSUME Told(job, t), Awaits(w, t)
          PROVE  ~Awaits(new, t)
      <4>1. Awaits(chk, t)
        BY <3>2, ChkEndedNext DEF Awaits, chk
      <4>2. Awaits(ended, t)
        BY <1>2, <3>2, <4>1, CorrectAwaits DEF ended
      <4>3. Awaits(found, t)
        BY <1>6, <3>2, <4>2, OnFirstAwaits DEF found
      <4>4. QED
        BY <1>7, <3>2, <4>3, OnNewAwaits
    <3>3. QED
      BY <3>1, <3>2
  <2> HIDE DEF new
  <2>2. /\ Ready(begun, t, off) /\ begun.current[t].n = 0
        /\ begun.next_chunk = new.next_chunk
    <3>1. begun.next_chunk = new.next_chunk
      BY <2>1 DEF BeginChunk, StateType
    <3>2. QED
      BY <2>1, <3>1, BeginReady
  <2> HIDE DEF begun
  <2>3. ~ChunkReachedSampleLimit(begun, t)
    <3>1. SUFFICES ASSUME Len(job.ref[t].likely_n) = 1 PROVE job.ref[t].likely_n[1] # 0
      BY <2>2 DEF ChunkReachedSampleLimit
    <3>2. job.ref[t].likely_n \in Seq(Nat \ {0})
      BY <1>1, RefType DEF TrackInfo
    <3>3. 1 \in 1 .. Len(job.ref[t].likely_n)
      BY <3>1
    <3>4. QED
      BY <3>2, <3>3, ElementInSet
  <2>4. x = begun
    BY <1>10, <2>3
  <2>5. QED
    BY <1>4, <2>1, <2>2, <2>4 DEF Awaits
<1>11. QED
  BY <1>9, <1>10

LEMMA AddFramesExtends ==
    ASSUME NEW x \in StateType, NEW y \in StateType, NEW t \in Tracks, NEW off \in Nat,
           NEW n \in Nat, NEW s \in Nat, AddsFrames(x, y, t, off, n, s),
           Behind(x, off), SameExclusions(x, y)
    PROVE  /\ Extends(x, y)
           /\ Len(y.frames[t]) = Len(x.frames[t]) + n
           /\ \A u \in Tracks \ {t} : y.frames[u] = x.frames[u]
<1>1. \A u \in Tracks : Len(x.frames[u]) \in Nat
  BY FramesType DEF AllTracks
<1>2. \A u \in Tracks \ {t} : y.frames[u] = x.frames[u]
  BY DEF AddsFrames
<1>3. DOMAIN y.frames[t] = 1 .. Len(x.frames[t]) + n
        /\ \A i \in 1 .. Len(x.frames[t]) : y.frames[t][i] = x.frames[t][i]
  BY DEF AddsFrames
<1>4. DOMAIN y.frames[t] = 1 .. Len(y.frames[t]) /\ Len(y.frames[t]) \in Nat
  BY FramesType DEF AllTracks
<1>5. Len(y.frames[t]) = Len(x.frames[t]) + n
  <2>1. ASSUME NEW a \in Nat, NEW b \in Nat, 1 .. a = 1 .. b
        PROVE  a = b
    BY <2>1
  <2>2. Len(x.frames[t]) + n \in Nat
    BY <1>1
  <2>3. QED
    BY <1>3, <1>4, <2>1, <2>2
<1>6. Grows(x, y, off) /\ FramesBehind(x, off)
  BY GrowsNot DEF Behind
<1>7. \A u \in Tracks :
        /\ Len(x.frames[u]) <= Len(y.frames[u])
        /\ \A i \in 1 .. Len(x.frames[u]) : y.frames[u][i] = x.frames[u][i]
  <2> SUFFICES ASSUME NEW u \in Tracks
               PROVE  /\ Len(x.frames[u]) <= Len(y.frames[u])
                      /\ \A i \in 1 .. Len(x.frames[u]) : y.frames[u][i] = x.frames[u][i]
    OBVIOUS
  <2>1. CASE u = t
    BY <1>1, <1>3, <1>5, <2>1
  <2>2. CASE u # t
    BY <1>1, <1>2, <2>2
  <2>3. QED
    BY <2>1, <2>2
<1>8. QED
  BY <1>2, <1>5, <1>6, <1>7 DEF Extends

\* The place of a new frame in the repaired file.
LEMMA NewFramePositions ==
    ASSUME NEW x \in StateType, NEW y \in StateType, NEW t \in Tracks, NEW off \in Nat,
           NEW n \in Nat, NEW s \in Nat, AddsFrames(x, y, t, off, n, s),
           Counted(x), Behind(x, off), SameExclusions(x, y),
           NEW k \in 1 .. n, NEW i, i = Len(x.frames[t]) + k, NEW d \in Nat, d = (k - 1) * s
    PROVE  /\ PositionIn(y, y.frames[t][i].off) = (off + d) - x.total_excluded
           /\ y.frames[t][i].length = s
<1>1. y.frames[t][i].off = off + d /\ y.frames[t][i].length = s
  BY DEF AddsFrames
<1>2. off + d \in Int /\ off <= off + d
  OBVIOUS
<1>3. PositionIn(x, off + d) = (off + d) - x.total_excluded
  BY <1>2, PositionAtFrontier
<1>4. RangeBytes(y) = RangeBytes(x)
  BY DEF RangeBytes, SameExclusions
<1>5. PositionIn(y, off + d) = PositionIn(x, off + d)
  BY <1>4 DEF PositionIn
<1>6. QED
  BY <1>1, <1>3, <1>5

\* The chunks stored before go on to hold the frames they held.
LEMMA StoredKept ==
    ASSUME NEW x \in StateType, NEW y \in StateType, Extends(x, y), AllPlaced(x),
           y.chunks = x.chunks, NEW t \in Tracks
    PROVE  /\ \A k \in DOMAIN y.chunks[t] : Placed(y, t, y.chunks[t][k], Samples(y, t)[k - 1])
           /\ Placed(y, t, x.current[t], Samples(y, t)[Len(y.chunks[t])])
<1>1. t \in AllTracks
  BY DEF AllTracks
<1>2. /\ \A k \in DOMAIN x.chunks[t] : x.chunks[t][k] \in ChunkRecord
      /\ x.current[t] \in ChunkRecord
      /\ DOMAIN x.chunks[t] = 1 .. Len(x.chunks[t]) /\ Len(x.chunks[t]) \in Nat
  BY <1>1, ChunksType
<1>3. /\ Samples(x, t)[Len(x.chunks[t])] \in Nat
      /\ \A k \in DOMAIN x.chunks[t] : Samples(x, t)[k - 1] \in Nat
  BY <1>1, <1>2, SamplesType
<1>4. \A k \in DOMAIN x.chunks[t] : Placed(y, t, x.chunks[t][k], Samples(x, t)[k - 1])
  BY <1>2, <1>3, PlacedKept DEF AllPlaced
<1>5. Placed(y, t, x.current[t], Samples(x, t)[Len(x.chunks[t])])
  BY <1>2, <1>3, PlacedKept DEF AllPlaced
<1>6. Samples(y, t) = Samples(x, t)
  BY DEF Samples
<1>7. QED
  BY <1>4, <1>5, <1>6

\* Track t's open chunk of x is in y the chunk c, with n frames more.
Fills(x, y, t, c, n) ==
    /\ y.chunks = x.chunks /\ y.last_track = t
    /\ y.current = [x.current EXCEPT ![t] = c]
    /\ c.n = x.current[t].n + n
    /\ c.off = x.current[t].off /\ c.already_excluded = x.current[t].already_excluded
    /\ SameExclusions(x, y)

\* What is left to show of a state with frames added to the open chunk.
LEMMA FilledTables ==
    ASSUME NEW x \in StateType, NEW y \in StateType, NEW t \in Tracks, NEW off \in Nat,
           NEW n \in Nat, NEW s \in Nat, NEW c \in ChunkRecord,
           AddsFrames(x, y, t, off, n, s), Behind(x, off), Fills(x, y, t, c, n),
           Tables(x), \A u \in Tracks \ {t} : x.current[u].n = 0,
           ~job.dont_exclude => Placed(y, t, c, Samples(x, t)[Len(x.chunks[t])])
    PROVE  Tables(y)
<1>1. /\ Extends(x, y)
      /\ Len(y.frames[t]) = Len(x.frames[t]) + n
      /\ \A u \in Tracks \ {t} : y.frames[u] = x.frames[u]
  BY AddFramesExtends DEF Fills
<1>2. /\ y.chunks = x.chunks /\ y.last_track = t /\ y.current[t] = c
      /\ c.n = x.current[t].n + n
      /\ \A u \in Tracks \ {t} : y.current[u] = x.current[u]
  <2>1. x.current \in [AllTracks -> ChunkRecord] /\ t \in AllTracks
    BY DEF StateType, AllTracks
  <2>2. QED
    BY <2>1 DEF Fills, AllTracks
<1>3. \A u \in Tracks : Samples(y, u) = Samples(x, u)
  BY <1>2 DEF Samples
<1>4. OneOpen(y)
  BY <1>2 DEF OneOpen
<1>5. Tiled(y)
  <2>1. Samples(y, t)[Len(y.chunks[t])] + y.current[t].n = Len(y.frames[t])
    <3>1. Samples(x, t)[Len(x.chunks[t])] + x.current[t].n = Len(x.frames[t])
      BY DEF Tables, Tiled
    <3>2. PICK m \in Nat : m = Samples(x, t)[Len(x.chunks[t])]
      BY SamplesType, ChunksType DEF AllTracks
    <3>3. x.current[t].n \in Nat /\ y.current[t].n = x.current[t].n + n
      BY <1>2, ChunksType DEF AllTracks, ChunkRecord
    <3>4. Samples(y, t)[Len(y.chunks[t])] = m
      BY <1>2, <1>3, <3>2
    <3>5. Len(x.frames[t]) = m + x.current[t].n
      BY <3>1, <3>2
    <3>6. m + (x.current[t].n + n) = (m + x.current[t].n) + n
      BY <3>3
    <3>7. QED
      BY <1>1, <3>3, <3>4, <3>5, <3>6
  <2>2. ASSUME NEW u \in Tracks, u # t
        PROVE  Samples(y, u)[Len(y.chunks[u])] + y.current[u].n = Len(y.frames[u])
    <3>1. Samples(x, u)[Len(x.chunks[u])] + x.current[u].n = Len(x.frames[u])
      BY DEF Tables, Tiled
    <3>2. y.current[u] = x.current[u] /\ y.frames[u] = x.frames[u]
      BY <1>1, <1>2, <2>2
    <3>3. QED
      BY <1>2, <1>3, <3>1, <3>2
  <2>3. QED
    BY <2>1, <2>2 DEF Tiled
<1>6. ASSUME ~job.dont_exclude
      PROVE  AllPlaced(y)
  <2>. AllPlaced(x)
    BY <1>6 DEF Tables
  <2>1. ASSUME NEW u \in Tracks
        PROVE  /\ \A k \in DOMAIN y.chunks[u] : Placed(y, u, y.chunks[u][k], Samples(y, u)[k - 1])
               /\ Placed(y, u, x.current[u], Samples(y, u)[Len(y.chunks[u])])
    BY <1>1, <1>2, StoredKept
  <2>2. Placed(y, t, y.current[t], Samples(y, t)[Len(y.chunks[t])])
    BY <1>2, <1>3, <1>6
  <2>3. \A u \in Tracks \ {t} : Placed(y, u, y.current[u], Samples(y, u)[Len(y.chunks[u])])
    BY <1>2, <2>1
  <2>4. QED
    BY <2>1, <2>2, <2>3 DEF AllPlaced
<1>7. QED
  BY <1>4, <1>5, <1>6 DEF Tables

\* n frames of length s more, one after the other.
LEMMA FramesAdded ==
    ASSUME NEW x \in StateType, NEW y \in StateType, NEW t \in Tracks, NEW off \in Nat,
           NEW n \in Nat, NEW s \in Nat, AddsFrames(x, y, t, off, n, s),
           Counted(x), Behind(x, off), Ready(x, t, off),
           NEW c \in ChunkRecord, Fills(x, y, t, c, n)
    PROVE  /\ Tables(y)
           /\ ~job.dont_exclude => NextPosition(y, t) = (off + n * s) - x.total_excluded
<1> DEFINE b == x.current[t]
           position(i) == PositionIn(y, y.frames[t][i].off)
           length(i) == y.frames[t][i].length
<1>1. t \in AllTracks /\ SameExclusions(x, y)
  BY DEF AllTracks, Fills
<1>2. PICK l \in Nat : l = Len(x.frames[t])
  BY <1>1, FramesType
<1>3. PICK m \in Nat : m = Samples(x, t)[Len(x.chunks[t])]
  <2>1. Len(x.chunks[t]) \in 0 .. Len(x.chunks[t])
    BY <1>1, ChunksType
  <2>2. QED
    BY <1>1, <2>1, SamplesType
<1>4. PICK d \in Nat : d = b.n
  BY <1>1, ChunksType DEF ChunkRecord
<1>5. PICK total \in Int : total = x.total_excluded
  BY DEF StateType
<1>6. m + d = l
  BY <1>2, <1>3, <1>4 DEF Ready, Tables, Tiled
<1>7. /\ c.n = d + n
      /\ c.off = b.off /\ c.already_excluded = b.already_excluded
  BY <1>4 DEF Fills
<1>8. y.current[t] = c
  <2>1. x.current \in [AllTracks -> ChunkRecord]
    BY DEF StateType
  <2>2. QED
    BY <1>1, <2>1 DEF Fills
<1>9. Extends(x, y) /\ Len(y.frames[t]) = l + n
  BY <1>1, <1>2, AddFramesExtends
<1>10. \A k \in 1 .. n : position(l + k) = (off + (k - 1) * s) - total /\ length(l + k) = s
  <2>1. ASSUME NEW k \in 1 .. n
        PROVE  position(l + k) = (off + (k - 1) * s) - total /\ length(l + k) = s
    <3>1. PICK e \in Nat : e = (k - 1) * s
      <4>1. k - 1 \in Nat
        OBVIOUS
      <4>2. QED
        BY <4>1
    <3>2. l + k = Len(x.frames[t]) + k
      BY <1>2
    <3>3. PositionIn(y, y.frames[t][l + k].off) = (off + e) - x.total_excluded
          /\ y.frames[t][l + k].length = s
      BY <1>1, <3>1, <3>2, NewFramePositions
    <3>4. QED
      BY <1>5, <3>1, <3>3
  <2>2. QED
    BY <2>1
<1>11. d # 0 => position(l) + length(l) = NextPosition(x, t)
  <2>1. SUFFICES ASSUME d # 0 PROVE position(l) + length(l) = NextPosition(x, t)
    OBVIOUS
  <2>2. l \in 1 .. Len(x.frames[t])
    BY <1>2, <1>4, <2>1, OpenChunkHasFrames DEF Ready, Tables
  <2>3. /\ y.frames[t][l] = x.frames[t][l]
        /\ PositionIn(y, y.frames[t][l].off) = PositionIn(x, x.frames[t][l].off)
    BY <1>9, <2>2, FramePositionsKept
  <2>4. NextPosition(x, t) = PositionIn(x, x.frames[t][l].off) + x.frames[t][l].length
    BY <1>2, <1>4, <2>1 DEF NextPosition
  <2>5. QED
    BY <2>3, <2>4
<1>12. ~job.dont_exclude => off - total = NextPosition(x, t)
  BY <1>5 DEF Ready
<1>13. d = 0 => b.off - b.already_excluded = NextPosition(x, t)
  BY <1>4 DEF NextPosition
<1>14. /\ d + n = 0 => NextPosition(y, t) = c.off - c.already_excluded
       /\ d + n # 0 => NextPosition(y, t) = position(l + n) + length(l + n)
  BY <1>7, <1>8, <1>9 DEF NextPosition
<1>15. AllPlaced(x) =>
         /\ d > 0 => b.off - b.already_excluded = position(m + 1)
         /\ \A j \in 1 .. d - 1 : position(m + j + 1) = position(m + j) + length(m + j)
  <2>1. SUFFICES ASSUME AllPlaced(x)
                 PROVE  /\ d > 0 => b.off - b.already_excluded = position(m + 1)
                        /\ \A j \in 1 .. d - 1 :
                             position(m + j + 1) = position(m + j) + length(m + j)
    OBVIOUS
  <2>2. Samples(y, t) = Samples(x, t) /\ y.chunks = x.chunks
    BY DEF Fills, Samples
  <2>3. Placed(y, t, b, m)
    BY <1>3, <1>9, <2>1, <2>2, StoredKept
  <2>4. QED
    BY <1>4, <2>3 DEF Placed
<1>16. /\ Tables(x) /\ \A u \in Tracks \ {t} : x.current[u].n = 0
       /\ ~job.dont_exclude => AllPlaced(x)
  BY DEF Ready, Tables
<1> DEFINE begin == c.off - c.already_excluded
<1>17. begin = b.off - b.already_excluded
  BY <1>7
<1> HIDE DEF position, length, begin, b
\* The arithmetic of it.
<1>18. ASSUME NEW k \in 1 .. n
       PROVE  /\ position(l + k) + length(l + k) = (off + k * s) - total
              /\ k + 1 \in 1 .. n =>
                   position(l + (k + 1)) = position(l + k) + length(l + k)
              /\ k = 1 => position(l + k) = off - total
  <2>1. PICK e \in Nat : e = (k - 1) * s
    <3>1. k - 1 \in Nat
      OBVIOUS
    <3>2. QED
      BY <3>1
  <2>2. k * s = e + s /\ ((k + 1) - 1) * s = e + s
    BY <2>1
  <2>3. position(l + k) = (off + e) - total /\ length(l + k) = s
    BY <1>10, <2>1
  <2>4. k + 1 \in 1 .. n => position(l + (k + 1)) = (off + (e + s)) - total
    BY <1>10, <2>2
  <2>5. k = 1 => e = 0
    BY <2>1
  <2>6. QED
    BY <2>2, <2>3, <2>4, <2>5
<1>19. ASSUME ~job.dont_exclude
       PROVE  NextPosition(y, t) = (off + n * s) - total
  <2>1. CASE n = 0
    <3>1. n * s = 0
      BY <2>1
    <3>2. NextPosition(y, t) = NextPosition(x, t)
      BY <1>11, <1>13, <1>14, <1>17, <2>1 DEF begin
    <3>3. QED
      BY <1>12, <1>19, <2>1, <3>1, <3>2
  <2>2. CASE n # 0
    BY <1>14, <1>18, <2>2
  <2>3. QED
    BY <2>1, <2>2
<1>20. ASSUME ~job.dont_exclude
       PROVE  Placed(y, t, c, m)
  <2>1. off - total = NextPosition(x, t)
    BY <1>12, <1>20
  <2>2. ASSUME d + n > 0
        PROVE  begin = position(m + 1)
    <3>1. CASE d = 0
      <4>1. 1 \in 1 .. n /\ l + 1 = m + 1
        BY <1>6, <2>2, <3>1
      <4>2. position(l + 1) = off - total
        BY <1>18, <4>1
      <4>3. QED
        BY <1>13, <1>17, <2>1, <3>1, <4>1, <4>2
    <3>2. CASE d # 0
      BY <1>15, <1>16, <1>17, <1>20, <3>2
    <3>3. QED
      BY <3>1, <3>2
  <2>3. ASSUME NEW j \in 1 .. (d + n) - 1
        PROVE  position(m + j + 1) = position(m + j) + length(m + j)
    <3>1. CASE j < d
      <4>1. j \in 1 .. d - 1
        BY <3>1
      <4>2. QED
        BY <1>15, <1>16, <1>20, <4>1
    <3>2. CASE j = d
      <4>1. 1 \in 1 .. n /\ m + j + 1 = l + 1 /\ m + j = l
        BY <1>6, <3>2
      <4>2. position(l + 1) = off - total
        BY <1>18, <4>1
      <4>3. position(l) + length(l) = off - total
        BY <1>11, <2>1, <3>2
      <4>4. QED
        BY <4>1, <4>2, <4>3
    <3>3. CASE j > d
      <4>1. PICK k \in 1 .. n : j = d + k /\ k + 1 \in 1 .. n
        <5>1. j - d \in 1 .. n /\ j = d + (j - d) /\ (j - d) + 1 \in 1 .. n
          BY <3>3
        <5>2. QED
          BY <5>1
      <4>2. m + j = l + k /\ m + j + 1 = l + (k + 1)
        BY <1>6, <4>1
      <4>3. QED
        BY <1>18, <4>1, <4>2
    <3>4. QED
      BY <3>1, <3>2, <3>3
  <2>4. m + (d + n) <= l + n
    BY <1>6
  <2>5. QED
    BY <1>7, <1>9, <2>2, <2>3, <2>4 DEF Placed, begin, position, length
<1>21. Tables(y)
  <2>1. ~job.dont_exclude => Placed(y, t, c, Samples(x, t)[Len(x.chunks[t])])
    BY <1>3, <1>20
  <2>2. QED
    BY <1>16, <2>1, FilledTables
<1>22. QED
  BY <1>5, <1>19, <1>21

LEMMA AddMatchTables ==
    ASSUME NEW w \in StateType, job \in Jobs, NEW off \in Nat, NEW m,
           m.track \in Tracks, m.length \in Nat, m.pad \in Nat,
           m.pad # 0 => off + m.length <= Size,
           FreeEmpty(w), Book(w), w.unknown_length <= off, Behind(w, off - w.unknown_length),
           w.unknown_length > 0 => off - w.unknown_length <= Size,
           w.unknown_length > 0 => w.last_track = Free,
           Tables(w), w.last_track = m.track => ~Limited(job, m.track),
           w.last_track = m.track /\ ~job.dont_exclude =>
               off - w.total_excluded = NextPosition(w, m.track)
    PROVE  LET x == AddMatch(w, off, m)
               end == off + m.length + m.pad
           IN  /\ Tables(x) /\ x.last_track = m.track
               /\ w.last_track # m.track /\ Told(job, m.track) /\ Awaits(w, m.track) =>
                      ~Awaits(x, m.track)
               /\ ~job.dont_exclude /\ end < Size =>
                      end - x.total_excluded = NextPosition(x, m.track)
<1> DEFINE t == m.track
           chk == ChkUnknownSequenceEnded(w, off)
           chunk == ChunkForMatch(w, t, off)
           added == AddFrames(chunk, t, off, 1, m.length)
           counted == [added EXCEPT !.current[t].n = @ + 1]
           end == off + m.length
           padded == AddToExclude(counted, end, m.pad)
           done == [padded EXCEPT !.done_padding = TRUE]
<1>1. t \in AllTracks /\ t # Free /\ t \in Tracks
  BY TracksAssumption DEF AllTracks
<1>2. AddMatch(w, off, m) = IF m.pad = 0 THEN counted ELSE done
  BY Zenon DEF AddMatch
<1>3. chk \in StateType /\ chk.frames = w.frames
  BY ChkUnknownSequenceEndedType, ChkEndedScan
<1>4. Book(chk) /\ Behind(chk, off)
  BY ChkEndedRange
<1>5. chunk \in StateType /\ chunk.frames = w.frames /\ SameExclusions(chk, chunk)
  BY <1>1, ChunkForMatchType, ChunkForMatchBookkeeping
<1>6. /\ Ready(chunk, t, off)
      /\ w.last_track # t /\ Told(job, t) /\ Awaits(w, t) => ~Awaits(chunk, t)
  BY <1>1, ChunkForMatchReady
<1> HIDE DEF chk, chunk
<1>7. Book(chunk) /\ Behind(chunk, off)
  BY <1>3, <1>4, <1>5, SameRangesKept DEF SameRanges
<1>8. /\ end \in Nat /\ off <= end /\ off + 1 * m.length <= end /\ off + 1 * m.length = end
      /\ 1 \in Nat
  OBVIOUS
<1> HIDE DEF end
<1>9. Behind(added, end) /\ Book(added)
  BY <1>1, <1>5, <1>7, <1>8, AddFramesRange
<1>10. added \in StateType /\ AddsFrames(chunk, added, t, off, 1, m.length)
  BY <1>1, <1>5, <1>8, AddFramesType, AddFramesAdds, Zenon
<1>11. /\ added.current = chunk.current /\ added.last_track = t
       /\ SameExclusions(chunk, added) /\ added.chunks = chunk.chunks
       /\ added.next_chunk = chunk.next_chunk
  <2>1. added.chunks = chunk.chunks /\ added.next_chunk = chunk.next_chunk
    BY <1>5 DEF AddFrames, SetLastTrack, StateType
  <2>2. QED
    BY <1>1, <1>5, <2>1, AddFramesScan DEF SameExclusions
<1> HIDE DEF added, t
<1>12. PICK c \in ChunkRecord : c = [chunk.current[t] EXCEPT !.n = @ + 1]
  <2>1. chunk.current[t] \in ChunkRecord
    BY <1>1, <1>5, ChunksType
  <2>2. [chunk.current[t] EXCEPT !.n = @ + 1] \in ChunkRecord
    BY <2>1 DEF ChunkRecord
  <2>3. QED
    BY <2>2
<1>13. /\ c.n = chunk.current[t].n + 1 /\ c.off = chunk.current[t].off
       /\ c.already_excluded = chunk.current[t].already_excluded
  <2>1. chunk.current[t] \in ChunkRecord
    BY <1>1, <1>5, ChunksType
  <2>2. QED
    BY <1>12, <2>1 DEF ChunkRecord
<1>14. /\ counted \in StateType /\ SameRanges(added, counted)
       /\ counted.last_track = t /\ counted.chunks = chunk.chunks
       /\ counted.current = [chunk.current EXCEPT ![t] = c]
       /\ counted.next_chunk = chunk.next_chunk
  <2>1. added.current \in [AllTracks -> ChunkRecord]
    BY <1>10 DEF StateType
  <2>2. [added.current EXCEPT ![t].n = @ + 1] = [chunk.current EXCEPT ![t] = c]
    BY <1>1, <1>11, <1>12, <2>1
  <2>3. [chunk.current EXCEPT ![t] = c] \in [AllTracks -> ChunkRecord]
    BY <1>1, <1>11, <2>1
  <2>4. counted = [added EXCEPT !.current = [chunk.current EXCEPT ![t] = c]]
    BY <2>2
  <2>5. QED
    BY <1>10, <1>11, <2>3, <2>4 DEF StateType, SameRanges, SameExclusions
<1> HIDE DEF counted
<1>15. AddsFrames(chunk, counted, t, off, 1, m.length)
  BY <1>10, <1>14 DEF AddsFrames, SameRanges
<1>16. SameExclusions(chunk, counted)
  BY <1>11, <1>14 DEF SameExclusions, SameRanges
<1>17. Fills(chunk, counted, t, c, 1)
  BY <1>13, <1>14, <1>16 DEF Fills
<1>18. /\ Tables(counted)
       /\ ~job.dont_exclude => NextPosition(counted, t) = end - chunk.total_excluded
  <2>1. PICK n \in Nat : n = 1
    BY <1>8
  <2>2. AddsFrames(chunk, counted, t, off, n, m.length) /\ Fills(chunk, counted, t, c, n)
    BY <1>15, <1>17, <2>1
  <2>3. Counted(chunk)
    BY <1>7 DEF Book
  <2>4. /\ Tables(counted)
        /\ ~job.dont_exclude =>
             NextPosition(counted, t) = (off + n * m.length) - chunk.total_excluded
    BY <1>1, <1>5, <1>6, <1>7, <1>14, <2>2, <2>3, FramesAdded
  <2>5. n * m.length = m.length /\ off + m.length = end
    BY <2>1 DEF end
  <2>6. QED
    BY <2>4, <2>5
<1>19. counted.total_excluded = chunk.total_excluded /\ counted.total_excluded \in Int
  BY <1>14, <1>16 DEF SameExclusions, StateType
<1>20. CASE m.pad = 0
  <2>1. end = off + m.length + m.pad
    BY <1>20 DEF end
  <2>2. AddMatch(w, off, m) = counted
    BY <1>2, <1>20
  <2>3. QED
    BY <1>6, <1>14, <1>18, <1>19, <2>1, <2>2 DEF t, Awaits
<1>21. CASE m.pad # 0
  <2>1. end <= Size /\ end + m.pad = off + m.length + m.pad /\ end <= end /\ end \in Int
    BY <1>8, <1>21 DEF end
  <2>2. padded \in StateType /\ SameTables(counted, padded)
    BY <1>8, <1>14, <2>1, AddToExcludeType, AddToExcludeSame
  <2>3. Grows(counted, padded, end) /\ Behind(counted, end)
    <3>1. Book(counted) /\ Behind(counted, end)
      BY <1>8, <1>9, <1>10, <1>14, SameRangesKept
    <3>2. QED
      BY <1>8, <1>14, <2>1, <3>1, AddToExcludeRange
  <2>4. Tables(padded) /\ NextPosition(padded, t) = NextPosition(counted, t)
    BY <1>1, <1>8, <1>14, <1>18, <2>1, <2>2, <2>3, ExclusionsKeepTables DEF Behind
  <2>5. ~job.dont_exclude /\ end + m.pad < Size =>
            padded.total_excluded = counted.total_excluded + m.pad
    <3>1. end + m.pad \in Int /\ Size \in Int
      BY <1>8, SizeAssumption
    <3>2. SUFFICES ASSUME ~job.dont_exclude, ~(end + m.pad > Size)
                   PROVE  padded.total_excluded = counted.total_excluded + m.pad
      BY <3>1
    <3>3. QED
      BY <1>14, <3>2 DEF AddToExclude, Assertt, StateType
  <2>next. done.next_chunk = chunk.next_chunk
    BY <1>14 DEF AddToExclude, Assertt, StateType
  <2> HIDE DEF padded
  <2>6. done \in StateType /\ Untouched(padded, done)
    BY <2>2 DEF StateType, Untouched, SameTables, SameExclusions
  <2> HIDE DEF done
  <2>7. /\ Tables(done) /\ NextPosition(done, t) = NextPosition(counted, t)
        /\ done.total_excluded = padded.total_excluded /\ done.last_track = t
    BY <1>14, <2>2, <2>4, <2>6, UntouchedKept DEF Untouched, SameExclusions, SameTables
  <2>8. PICK total \in Int : total = counted.total_excluded
    BY <1>19
  <2>9. ~job.dont_exclude /\ end + m.pad < Size =>
            (end + m.pad) - done.total_excluded = NextPosition(done, t)
    <3>1. SUFFICES ASSUME ~job.dont_exclude, end + m.pad < Size
                   PROVE  (end + m.pad) - done.total_excluded = NextPosition(done, t)
      OBVIOUS
    <3>2. done.total_excluded = total + m.pad
      BY <2>5, <2>7, <2>8, <3>1
    <3>3. NextPosition(done, t) = end - total
      BY <1>18, <1>19, <2>7, <2>8, <3>1
    <3>4. (end + m.pad) - (total + m.pad) = end - total
      BY <1>8
    <3>5. QED
      BY <3>2, <3>3, <3>4
  <2>10. AddMatch(w, off, m) = done
    BY <1>2, <1>21
  <2>11. QED
    BY <1>6, <2>1, <2>7, <2>9, <2>10, <2>next DEF t, Awaits
<1>22. QED
  BY <1>20, <1>21

LEMMA AddPredictedTables ==
    ASSUME NEW w \in StateType, job \in Jobs, NEW off \in Nat, NEW c, GoodChunk(c, off),
           c.track # Free, FreeEmpty(w), Book(w), w.unknown_length <= off,
           Behind(w, off - w.unknown_length),
           w.unknown_length > 0 => off - w.unknown_length <= Size, Tables(w)
    PROVE  LET x == AddPredicted(w, off, c)
           IN  /\ Tables(x) /\ x.last_track = c.track
               /\ ~job.dont_exclude /\ Len(job.ref[c.track].likely_sizes) <= 1 =>
                      (off + c.size) - x.total_excluded = NextPosition(x, c.track)
<1> DEFINE t == c.track
           chk == ChkUnknownSequenceEnded(w, off)
           ended == IF w.unknown_length = 0 THEN w ELSE CorrectChunkIdx(chk, t)
           started == OnNewChunkStarted(ended, t)
           new == [off |-> off, already_excluded |-> started.total_excluded,
                   size |-> c.size, n |-> c.n]
           filled == [started EXCEPT !.current[t] = new]
           begun == BeginChunk(started, t, off)
           x == AddFrames(filled, t, off, c.n, c.sample)
           f == off - w.unknown_length
<1>1. /\ t \in AllTracks /\ t \in Tracks
      /\ c.size \in Nat /\ c.n \in Nat /\ c.sample \in Nat
  BY DEF GoodChunk, AllTracks
<1>2. f \in Nat
  BY DEF StateType
<1>3. /\ chk \in StateType /\ SameTables(w, chk) /\ chk.frames = w.frames
      /\ (w.unknown_length = 0 => chk = w)
  BY ChkUnknownSequenceEndedType, ChkEndedScan, ChkEndedSame DEF ChkUnknownSequenceEnded
<1>4. Book(chk) /\ Behind(chk, off) /\ Grows(w, chk, f)
  BY ChkEndedRange
<1>5. Tables(chk) /\ FreeEmpty(chk)
  <2>1. FramesBehind(w, f) /\ f \in Int
    BY <1>2 DEF Behind
  <2>2. QED
    BY <1>3, <1>4, <2>1, ExclusionsKeepTables DEF FreeEmpty, SameTables
<1>6. AddPredicted(w, off, c) = x
  BY Zenon DEF AddPredicted
<1> HIDE DEF chk, f
<1>7. /\ ended \in StateType /\ Untouched(chk, ended) /\ Bookkeeping(chk, ended)
  <2>1. Untouched(chk, chk) /\ Bookkeeping(chk, chk)
    BY DEF Untouched, SameTables, Bookkeeping, SameScan, SameExclusions
  <2>2. CorrectChunkIdx(chk, t) \in StateType /\ Untouched(chk, CorrectChunkIdx(chk, t))
          /\ Bookkeeping(chk, CorrectChunkIdx(chk, t))
    BY <1>3, CorrectChunkIdxType, CorrectUntouched, CorrectBookkeeping
  <2>3. QED
    BY <1>3, <2>1, <2>2
<1> HIDE DEF ended
<1>8. Tables(ended) /\ FreeEmpty(ended)
  BY <1>5, <1>7, UntouchedKept DEF FreeEmpty, Untouched, SameTables
<1>9. /\ started \in StateType /\ Tables(started) /\ AllClosed(started)
      /\ SameRanges(chk, started)
  <2>1. started \in StateType /\ Bookkeeping(ended, started)
    BY <1>7, OnNewChunkStartedType, OnNewBookkeeping
  <2>2. Tables(started) /\ AllClosed(started)
    BY <1>7, <1>8, OnNewTables
  <2>3. SameRanges(chk, started)
    BY <1>5, <1>7, <1>8, <2>1 DEF Bookkeeping, SameScan, SameRanges, SameExclusions
  <2>4. QED
    BY <2>1, <2>2, <2>3
<1> HIDE DEF started
<1>10. started.current \in [AllTracks -> ChunkRecord] /\ started.total_excluded \in Int
         /\ new \in ChunkRecord
  BY <1>1, <1>9 DEF StateType, ChunkRecord
<1>11. filled \in StateType /\ filled.frames = started.frames
         /\ SameExclusions(started, filled) /\ filled.chunks = started.chunks
         /\ filled.current = [started.current EXCEPT ![t] = new]
  BY <1>1, <1>9, <1>10 DEF StateType, SameExclusions
<1>12. /\ begun \in StateType /\ SameRanges(started, begun) /\ begun.chunks = started.chunks
       /\ begun.current = [started.current EXCEPT ![t].off = off,
                                                 ![t].already_excluded = started.total_excluded]
  <2>1. begun \in StateType
    BY <1>1, <1>9, BeginChunkType
  <2>2. QED
    BY <1>1, <1>9, <2>1 DEF BeginChunk, StateType, SameRanges, SameExclusions
<1>13. /\ Ready(begun, t, off) /\ begun.current[t].n = 0
  BY <1>1, <1>9, BeginReady
<1>14. /\ begun.current[t].off = off
       /\ begun.current[t].already_excluded = started.total_excluded
       /\ [begun.current EXCEPT ![t] = new] = [started.current EXCEPT ![t] = new]
  BY <1>1, <1>10, <1>12 DEF ChunkRecord
<1> HIDE DEF filled, begun
<1>15. /\ x \in StateType /\ AddsFrames(filled, x, t, off, c.n, c.sample)
       /\ x.current = filled.current /\ x.last_track = t /\ SameExclusions(filled, x)
       /\ x.chunks = filled.chunks
  <2>1. x.chunks = filled.chunks
    BY <1>11 DEF AddFrames, SetLastTrack, StateType
  <2>2. x \in StateType /\ AddsFrames(filled, x, t, off, c.n, c.sample)
    BY <1>1, <1>11, AddFramesType, AddFramesAdds, Zenon
  <2>3. x.current = filled.current /\ x.last_track = t
    BY <1>1, <1>11, AddFramesScan
  <2>4. SameExclusions(filled, x)
    BY <1>1, <1>11, AddFramesScan DEF SameExclusions
  <2>5. QED
    BY <2>1, <2>2, <2>3, <2>4
<1> HIDE DEF x
<1>16. AddsFrames(begun, x, t, off, c.n, c.sample)
  <2>1. filled.frames = begun.frames
    BY <1>11, <1>12 DEF SameRanges
  <2>2. QED
    BY <1>15, <2>1 DEF AddsFrames
<1>17. Fills(begun, x, t, new, c.n)
  <2>1. SameExclusions(begun, x)
    BY <1>11, <1>12, <1>15 DEF SameRanges, SameExclusions
  <2>2. /\ x.chunks = begun.chunks
        /\ x.current = [begun.current EXCEPT ![t] = new]
    BY <1>11, <1>12, <1>14, <1>15
  <2>3. new.n = begun.current[t].n + c.n
    BY <1>1, <1>13
  <2>4. QED
    BY <1>14, <1>15, <2>1, <2>2, <2>3 DEF Fills
<1> HIDE DEF new
<1>18. Counted(begun) /\ Behind(begun, off)
  <2>1. SameRanges(chk, begun)
    BY <1>9, <1>12 DEF SameRanges, SameExclusions
  <2>2. QED
    BY <1>3, <1>4, <1>12, <2>1, SameRangesKept DEF Book
<1>19. /\ Tables(x)
       /\ ~job.dont_exclude =>
            NextPosition(x, t) = (off + c.n * c.sample) - begun.total_excluded
  <2>1. PICK n \in Nat : n = c.n
    BY <1>1
  <2>2. PICK s \in Nat : s = c.sample
    BY <1>1
  <2>3. AddsFrames(begun, x, t, off, n, s) /\ Fills(begun, x, t, new, n)
    BY <1>16, <1>17, <2>1, <2>2
  <2>4. /\ Tables(x)
        /\ ~job.dont_exclude => NextPosition(x, t) = (off + n * s) - begun.total_excluded
    BY <1>1, <1>10, <1>12, <1>13, <1>15, <1>18, <2>3, FramesAdded
  <2>5. QED
    BY <2>1, <2>2, <2>4
<1>20. x.total_excluded = begun.total_excluded
  BY <1>17 DEF Fills, SameExclusions
<1>21. Len(job.ref[c.track].likely_sizes) <= 1 => c.n * c.sample = c.size
  BY DEF GoodChunk
<1>22. QED
  BY <1>6, <1>15, <1>19, <1>20, <1>21 DEF t

-----------------------------------------------------------------------------
(* The invariant holds                                                     *)

\* x is w after a prediction was, perhaps, asked for.
Asked(w, x) ==
    /\ Untouched(w, x)
    /\ x.next_chunk = w.next_chunk /\ x.unknown_length = w.unknown_length

LEMMA AskedStates ==
    ASSUME st \in StateType
    PROVE  /\ \A p : Asked(st, Predicting(st, p))
           /\ \A w \in ZeroTests \cup AfterZeros \cup BeforeMatch : Asked(st, w)
           /\ ThrowBeyondEnd => Asked(st, st')
<1>1. Asked(st, st)
  BY DEF Asked, Untouched, SameTables, SameExclusions
<1>2. ASSUME NEW p PROVE Asked(st, Predicting(st, p))
  <2>1. /\ Predicting(st, p).next_chunk = st.next_chunk
        /\ Predicting(st, p).unknown_length = st.unknown_length
    BY DEF Predicting, Assertt, StateType
  <2>2. QED
    BY <2>1, PredictingUntouched DEF Asked
<1>3. ASSUME NEW w \in ZeroTests \cup AfterZeros \cup BeforeMatch
      PROVE  w = st \/ \E p : w = Predicting(st, p)
  BY Zenon DEF ZeroTests, AfterZeros, BeforeMatch
<1>4. ThrowBeyondEnd => Asked(st, st')
  BY DEF ThrowBeyondEnd, Asked, Untouched, SameTables, SameExclusions, StateType
<1>5. QED
  BY <1>1, <1>2, <1>3, <1>4

LEMMA AskedKeep ==
    ASSUME NEW w, NEW x, Asked(w, x), Tables(w), AwaitsOther(w)
    PROVE  /\ Tables(x) /\ AwaitsOther(x) /\ x.last_track = w.last_track
           /\ \A t : NextPosition(x, t) = NextPosition(w, t)
           /\ x.total_excluded = w.total_excluded
           /\ \A f : Continues(w, f) => Continues(x, f)
<1>1. /\ Tables(x) /\ \A t : NextPosition(x, t) = NextPosition(w, t)
  BY UntouchedKept DEF Asked
<1>2. /\ x.last_track = w.last_track /\ x.next_chunk = w.next_chunk
      /\ x.total_excluded = w.total_excluded
  BY DEF Asked, Untouched, SameTables, SameExclusions
<1>3. QED
  BY <1>1, <1>2 DEF AwaitsOther, Continues

\* What each step leaves.
TablesGoOn ==
    /\ Tables(st') /\ AwaitsOther(st')
    /\ ~job.dont_exclude =>
         /\ pc' \in {"advance", "try"} /\ offset' < Size => Continues(st', offset')
         /\ pc' = "skip" /\ from' < Size => Continues(st', from')
    /\ ~job.ignore_unknown => st'.unknown_length = 0
    /\ pc' = "skip" /\ (st'.last_track # Free \/ ~job.ignore_unknown) => Behind(st', from')

LEMMA TableFacts ==
    ASSUME RangeInv, RangeInv', TableInv
    PROVE  /\ st' \in StateType /\ st \in StateType
           /\ Tables(st) /\ AwaitsOther(st)
           /\ st.last_track = Free \/ st.unknown_length = 0
           /\ ~job.ignore_unknown => st.unknown_length = 0
           /\ st.unknown_length = 0 => Reached = offset
           /\ Free \notin Tracks
<1>1. offset \in Nat /\ st.unknown_length \in Nat /\ Reached = offset - st.unknown_length
        /\ st \in StateType
  BY RangeFacts
<1>2. st' \in StateType
  BY DEF RangeInv, TypeInv, TypeOK
<1>3. QED
  BY <1>1, <1>2, TracksAssumption DEF TableInv, SkipInv, RangeInv, UnknownOnlyInFree

\* A step that only skips or excludes.
LEMMA QuietStep ==
    ASSUME RangeInv, RangeInv', Forward, TableInv, SameTables(st, st'),
           st'.next_chunk = st.next_chunk
    PROVE  /\ Tables(st') /\ AwaitsOther(st') /\ st'.last_track = st.last_track
           /\ \A t \in Tracks : NextPosition(st', t) = NextPosition(st, t)
<1>1. st' \in StateType /\ st \in StateType /\ Tables(st) /\ AwaitsOther(st)
  BY TableFacts
<1>2. PICK f \in Int : FramesBehind(st, f) /\ Grows(st, st', f)
  BY DEF Forward
<1>3. /\ Tables(st')
      /\ \A t \in Tracks : NextPosition(st', t) = NextPosition(st, t)
  BY <1>1, <1>2, ExclusionsKeepTables
<1>4. QED
  BY <1>1, <1>3 DEF AwaitsOther, SameTables

LEMMA CalcStartOffsetTables ==
    ASSUME RangeInv, RangeInv', Forward, TableInv, CalcStartOffset
    PROVE  TablesGoOn
<1>1. st \in StateType /\ pc = "start" /\ pc' = "advance" /\ st.last_track = Start
  BY TableFacts DEF CalcStartOffset, TableInv
<1>2. PICK p \in StartPoints :
        st' = IF p.off = 0 THEN st ELSE AddUnknownSequence(st, p.skipped, p.off)
  BY DEF CalcStartOffset
<1>3. SameTables(st, st') /\ st'.next_chunk = st.next_chunk
        /\ st'.unknown_length = st.unknown_length
  <2> DEFINE x == AddUnknownSequence(st, p.skipped, p.off)
  <2>1. SameTables(st, x)
    BY <1>1, AddUnknownSame
  <2>2. x.next_chunk = st.next_chunk /\ x.unknown_length = st.unknown_length
    BY <1>1 DEF AddUnknownSequence, AddToExclude, Assertt, StateType
  <2>3. SameTables(st, st)
    BY DEF SameTables
  <2> HIDE DEF x
  <2>4. st' = st \/ st' = x
    BY <1>2 DEF x
  <2>5. QED
    BY <2>1, <2>2, <2>3, <2>4
<1>4. Tables(st') /\ AwaitsOther(st') /\ st'.last_track = st.last_track
  BY <1>3, QuietStep
<1>5. Continues(st', offset')
  BY <1>1, <1>4, TracksAssumption DEF Continues
<1>6. ~job.ignore_unknown => st'.unknown_length = 0
  BY <1>3, TableFacts
<1>7. QED
  BY <1>1, <1>4, <1>5, <1>6 DEF TablesGoOn

LEMMA GetChunkPaddingTables ==
    ASSUME RangeInv, RangeInv', Forward, TableInv, GetChunkPadding
    PROVE  TablesGoOn
<1>1. /\ st \in StateType /\ offset \in Nat /\ Behind(st, Reached) /\ Reached \in Nat
  BY RangeFacts
<1>2. pc = "advance" /\ pc' = "skip" /\ from' = offset
  BY DEF GetChunkPadding
<1>3. /\ SameTables(st, st') /\ SameRanges(st, st') /\ st'.next_chunk = st.next_chunk
      /\ st'.unknown_length = st.unknown_length /\ st'.total_excluded = st.total_excluded
  BY <1>1 DEF GetChunkPadding, StateType, SameTables, SameRanges, SameExclusions
<1>4. /\ Tables(st') /\ AwaitsOther(st') /\ st'.last_track = st.last_track
      /\ \A t \in Tracks : NextPosition(st', t) = NextPosition(st, t)
  BY <1>3, QuietStep
<1>5. ~job.dont_exclude /\ from' < Size => Continues(st', from')
  BY <1>2, <1>3, <1>4 DEF TableInv, Continues
<1>6. ~job.ignore_unknown => st'.unknown_length = 0
  BY <1>3, TableFacts
<1>7. st'.last_track # Free \/ ~job.ignore_unknown => Behind(st', from')
  <2>1. SUFFICES ASSUME st'.last_track # Free \/ ~job.ignore_unknown
                 PROVE  Behind(st', from')
    OBVIOUS
  <2>2. Reached = offset
    BY <1>4, <2>1, TableFacts
  <2>3. QED
    BY <1>1, <1>2, <1>3, <2>2, SameRangesKept
<1>8. QED
  BY <1>2, <1>4, <1>5, <1>6, <1>7 DEF TablesGoOn

LEMMA SkipZerosTables ==
    ASSUME RangeInv, RangeInv', Forward, TableInv, SkipZeros
    PROVE  TablesGoOn
<1>1. /\ st \in StateType /\ Tables(st) /\ AwaitsOther(st) /\ from \in Nat
  BY TableFacts, RangeFacts
<1>2. pc = "skip" /\ pc' = "skip" /\ from' = from /\ st' \in AfterZeros
  BY DEF SkipZeros
<1>3. Asked(st, st')
  BY <1>1, <1>2, AskedStates
<1>4. /\ Tables(st') /\ AwaitsOther(st') /\ st'.last_track = st.last_track
      /\ \A f : Continues(st, f) => Continues(st', f)
  BY <1>1, <1>3, AskedKeep
<1>5. SameRanges(st, st') /\ st'.unknown_length = st.unknown_length
  BY <1>3 DEF Asked, Untouched, SameTables, SameRanges
<1>6. ~job.ignore_unknown => st'.unknown_length = 0
  BY <1>5, TableFacts
<1>7. st'.last_track # Free \/ ~job.ignore_unknown => Behind(st', from')
  BY <1>1, <1>2, <1>4, <1>5, SameRangesKept DEF TableInv, SkipInv
<1>8. QED
  BY <1>2, <1>4, <1>6, <1>7 DEF TablesGoOn, TableInv

LEMMA ThrowTables ==
    ASSUME RangeInv, RangeInv', Forward, TableInv, ThrowBeyondEnd
    PROVE  TablesGoOn
<1>1. /\ st \in StateType /\ Tables(st) /\ AwaitsOther(st) /\ from \in Nat
  BY TableFacts, RangeFacts
<1>2. pc' = pc /\ from' = from /\ offset' = offset
  BY DEF ThrowBeyondEnd
<1>3. Asked(st, st')
  BY <1>1, AskedStates
<1>4. /\ Tables(st') /\ AwaitsOther(st') /\ st'.last_track = st.last_track
      /\ \A f : Continues(st, f) => Continues(st', f)
  BY <1>1, <1>3, AskedKeep
<1>5. SameRanges(st, st') /\ st'.unknown_length = st.unknown_length
  BY <1>3 DEF Asked, Untouched, SameTables, SameRanges
<1>6. ~job.ignore_unknown => st'.unknown_length = 0
  BY <1>5, TableFacts
<1>7. pc' = "skip" /\ (st'.last_track # Free \/ ~job.ignore_unknown) => Behind(st', from')
  BY <1>1, <1>2, <1>4, <1>5, SameRangesKept DEF TableInv, SkipInv
<1>8. QED
  BY <1>2, <1>4, <1>6, <1>7 DEF TablesGoOn, TableInv

LEMMA SkipAtomTables ==
    ASSUME RangeInv, RangeInv', Forward, TableInv, SkipAtom
    PROVE  TablesGoOn
<1>1. /\ st \in StateType /\ Tables(st) /\ AwaitsOther(st) /\ from \in Nat
      /\ offset \in Nat /\ offset < Size /\ job \in Jobs
  BY TableFacts, RangeFacts DEF SkipAtom
<1>2. pc = "skip" /\ pc' = "skip" /\ from' = from
  BY DEF SkipAtom
<1>3. PICK w \in ZeroTests : st' = ChkUnknownSequenceEnded(w, offset)
  BY DEF SkipAtom
<1>4. w \in StateType /\ Asked(st, w)
  BY <1>1, <1>3, ZeroTestsType, AskedStates
<1>5. /\ SameTables(st, w) /\ SameExclusions(st, w)
      /\ w.next_chunk = st.next_chunk /\ w.unknown_length = st.unknown_length
  BY <1>4 DEF Asked, Untouched
<1>6. SameTables(st, st') /\ st'.next_chunk = st.next_chunk
  BY <1>3, <1>4, <1>5, ChkEndedSame, ChkEndedNext DEF SameTables
<1>7. /\ Tables(st') /\ AwaitsOther(st') /\ st'.last_track = st.last_track
      /\ \A t \in Tracks : NextPosition(st', t) = NextPosition(st, t)
  BY <1>6, QuietStep
<1>8. st.unknown_length = 0 => SameRanges(st, st')
  BY <1>3, <1>5 DEF ChkUnknownSequenceEnded, SameTables, SameRanges
<1>9. ~job.dont_exclude /\ from' < Size => Continues(st', from')
  <2>1. SUFFICES ASSUME ~job.dont_exclude, from < Size, NEW t \in Tracks,
                        st'.last_track = t, job.ref[t].lens # {}
                 PROVE  from - st'.total_excluded = NextPosition(st', t)
    BY <1>2 DEF Continues
  <2>2. st.unknown_length = 0
    BY <1>7, <2>1, TableFacts
  <2>3. st'.total_excluded = st.total_excluded
    BY <1>8, <2>2 DEF SameRanges, SameExclusions
  <2>4. QED
    BY <1>2, <1>7, <2>1, <2>3 DEF TableInv, Continues
<1>10. st'.unknown_length = 0
  BY <1>1, <1>3, <1>4, ChkEndedScan
<1>11. st'.last_track # Free \/ ~job.ignore_unknown => Behind(st', from')
  <2>1. SUFFICES ASSUME st'.last_track # Free \/ ~job.ignore_unknown
                 PROVE  Behind(st', from')
    OBVIOUS
  <2>2. st.unknown_length = 0
    BY <1>7, <2>1, TableFacts
  <2>3. Behind(st, from)
    BY <1>2, <1>7, <2>1 DEF TableInv, SkipInv
  <2>4. QED
    BY <1>1, <1>2, <1>8, <2>2, <2>3, SameRangesKept
<1>12. QED
  BY <1>2, <1>7, <1>9, <1>10, <1>11 DEF TablesGoOn

\* What advanceOffset skipped is excluded, so the next frame comes right behind the last.
LEMMA AfterAdvanceTotal ==
    ASSUME NEW w \in StateType, offset \in Nat, from \in Nat, from <= offset, offset < Size,
           ExclusionsApart(w), Behind(w, from), w.unknown_length = 0, ~job.dont_exclude
    PROVE  AfterAdvance(w).total_excluded = w.total_excluded + (offset - from)
<1> DEFINE ok == Assertt(w, offset >= from, "chkExcludeOverlap")
<1>1. w.total_excluded \in Int /\ Size \in Int
  BY SizeAssumption DEF StateType
<1>2. CASE offset = from
  BY <1>1, <1>2 DEF AfterAdvance
<1>3. CASE offset # from
  <2>1. ~(ExcludedEnd(w) > from)
    <3>1. ExcludedEnd(w) \in Nat /\ ExcludedEnd(w) <= from
      BY ExcludedEndRange
    <3>2. QED
      BY <3>1
  <2>2. AfterAdvance(w) = AddToExclude(ok, from, offset - from)
    BY <1>3, <2>1 DEF AfterAdvance, ExcludeSkipped
  <2>3. "chkExcludeOverlap" \in Failures
    BY DEF Failures
  <2>4. ok \in StateType /\ ok.total_excluded = w.total_excluded
    BY <2>3, FailedType DEF Assertt, StateType
  <2> HIDE DEF ok
  <2>5. ~(from + (offset - from) > Size)
    BY <1>1
  <2>6. QED
    BY <2>2, <2>4, <2>5 DEF AddToExclude, Assertt, StateType
<1>4. QED
  BY <1>2, <1>3

LEMMA AfterAdvanceNext ==
    ASSUME NEW w \in StateType
    PROVE  AfterAdvance(w).next_chunk = w.next_chunk
BY DEF AfterAdvance, ExcludeSkipped, AddToExclude, Assertt, StateType

LEMMA EndAdvanceTables ==
    ASSUME RangeInv, RangeInv', Forward, TableInv, EndAdvance
    PROVE  TablesGoOn
<1>1. /\ st \in StateType /\ Tables(st) /\ AwaitsOther(st) /\ from \in Nat
      /\ offset \in Nat /\ offset < Size /\ job \in Jobs /\ Book(st)
  BY TableFacts, RangeFacts DEF EndAdvance
<1>2. pc = "skip" /\ pc' = "try" /\ offset' = offset
  BY DEF EndAdvance
<1>3. PICK w \in ZeroTests : st' = AfterAdvance(w)
  BY DEF EndAdvance
<1>4. w \in StateType /\ Asked(st, w)
  BY <1>1, <1>3, ZeroTestsType, AskedStates
<1>5. /\ SameTables(st, w) /\ SameRanges(st, w) /\ w.total_excluded = st.total_excluded
      /\ w.next_chunk = st.next_chunk /\ w.unknown_length = st.unknown_length
  BY <1>4 DEF Asked, Untouched, SameTables, SameRanges, SameExclusions
<1>6. SameTables(st, st') /\ st'.next_chunk = st.next_chunk
  BY <1>3, <1>4, <1>5, AfterAdvanceSame, AfterAdvanceNext DEF SameTables
<1>7. /\ Tables(st') /\ AwaitsOther(st') /\ st'.last_track = st.last_track
      /\ \A t \in Tracks : NextPosition(st', t) = NextPosition(st, t)
  BY <1>6, QuietStep
<1>8. ~job.dont_exclude => Continues(st', offset')
  <2>1. SUFFICES ASSUME ~job.dont_exclude, NEW t \in Tracks,
                        st'.last_track = t, job.ref[t].lens # {}
                 PROVE  offset - st'.total_excluded = NextPosition(st', t)
    BY <1>2 DEF Continues
  <2>2. w.unknown_length = 0 /\ st.last_track # Free
    BY <1>5, <1>7, <2>1, TableFacts
  <2>3. from <= offset
    BY <1>2 DEF RangeInv, PlaceInv
  <2>4. Behind(w, from) /\ ExclusionsApart(w)
    <3>1. Behind(st, from)
      BY <1>2, <2>2 DEF TableInv, SkipInv
    <3>2. QED
      BY <1>1, <1>5, <3>1, SameRangesKept DEF Book
  <2>5. st'.total_excluded = st.total_excluded + (offset - from)
    BY <1>1, <1>3, <1>4, <1>5, <2>1, <2>2, <2>3, <2>4, AfterAdvanceTotal
  <2>6. from - st.total_excluded = NextPosition(st', t)
    <3>1. from < Size
      BY <1>1, <2>3, SizeAssumption
    <3>2. QED
      BY <1>2, <1>7, <2>1, <3>1 DEF TableInv, Continues
  <2>7. st.total_excluded \in Int
    BY <1>1 DEF StateType
  <2>8. QED
    BY <1>1, <2>5, <2>6, <2>7
<1>9. ~job.ignore_unknown => st'.unknown_length = 0
  BY <1>1, <1>3, <1>4, <1>5, TableFacts, AfterAdvanceScan DEF SameScan
<1>10. QED
  BY <1>2, <1>7, <1>8, <1>9 DEF TablesGoOn

LEMMA ReachEndTables ==
    ASSUME RangeInv, RangeInv', Forward, TableInv, ReachEnd
    PROVE  TablesGoOn
<1>1. /\ st \in StateType /\ st' \in StateType /\ Tables(st) /\ AwaitsOther(st)
      /\ from \in Nat /\ offset \in Nat /\ Book(st) /\ FreeEmpty(st)
      /\ Behind(st, Reached) /\ Reached \in Nat /\ Reached = offset - st.unknown_length
  BY TableFacts, RangeFacts
<1> DEFINE w == AfterAdvance(st)
           x == PushBackLastChunk(w)
<1>2. st' = ChkUnknownSequenceEnded(x, offset) /\ pc = "skip" /\ pc' = "done"
  BY DEF ReachEnd
<1>3. /\ offset > from => from < Size
      /\ FramesBehind(st, from)
      /\ st.unknown_length <= offset
      /\ st.unknown_length > 0 => Reached < Size
  BY <1>2 DEF RangeInv, PlaceInv, UnknownInv
<1>4. /\ w \in StateType /\ SameTables(st, w) /\ FreeEmpty(w)
      /\ w.unknown_length = st.unknown_length
  BY <1>1, AfterAdvanceType, AfterAdvanceSame, AfterAdvanceScan
  DEF FreeEmpty, SameScan
<1>5. Book(w) /\ Behind(w, Reached) /\ Grows(st, w, from)
  BY <1>1, <1>3, AfterAdvanceRange
<1>6. Tables(w)
  BY <1>1, <1>3, <1>4, <1>5, ExclusionsKeepTables
<1> HIDE DEF w
<1>7. /\ x \in StateType /\ Tables(x)
      /\ Bookkeeping(w, x)
  BY <1>4, <1>6, PushBackLastChunkType, PushBackTables, PushBackBookkeeping
<1> HIDE DEF x
<1>8. SameRanges(w, x) /\ x.unknown_length = st.unknown_length /\ x.last_track = w.last_track
  BY <1>4, <1>7 DEF Bookkeeping, SameScan, SameRanges
<1>9. Book(x) /\ Behind(x, Reached)
  BY <1>1, <1>5, <1>8, SameRangesKept
<1>10. /\ x.unknown_length <= offset /\ offset - x.unknown_length = Reached
       /\ x.unknown_length > 0 => offset - x.unknown_length <= Size
  BY <1>1, <1>3, <1>8, SizeAssumption
<1>11. Grows(x, st', Reached)
  BY <1>1, <1>2, <1>7, <1>9, <1>10, ChkEndedRange
<1>12. SameTables(x, st')
  BY <1>2, <1>7, ChkEndedSame
<1>13. Tables(st')
  BY <1>1, <1>7, <1>9, <1>11, <1>12, ExclusionsKeepTables DEF Behind
<1>14. AwaitsOther(st')
  <2>1. st'.next_chunk = st.next_chunk
    BY <1>1, <1>2, <1>4, <1>7, ChkEndedNext, PushBackNext, AfterAdvanceNext DEF w, x
  <2>2. st'.last_track = st.last_track
    BY <1>4, <1>8, <1>12 DEF SameTables
  <2>3. QED
    BY <1>1, <2>1, <2>2 DEF AwaitsOther
<1>15. st'.unknown_length = 0
  BY <1>1, <1>2, <1>7, ChkEndedScan
<1>16. QED
  BY <1>2, <1>13, <1>14, <1>15 DEF TablesGoOn

LEMMA AtIsElement ==
    ASSUME NEW X, NEW order \in Seq(X), order # <<>>, NEW i \in Nat
    PROVE  \E k \in DOMAIN order : At(order, i) = order[k]
<1>1. PICK n \in Nat \ {0} : n = Len(order)
  OBVIOUS
<1>2. i % n \in 0 .. n - 1
  BY ModRange, Zenon
<1>3. (i % n) + 1 \in DOMAIN order
  BY <1>1, <1>2
<1>4. QED
  BY <1>1, <1>3 DEF At

LEMMA MatchSource ==
    ASSUME NEW w, NEW off, NEW m \in Matches(w, off)
    PROVE  /\ m.track \in Tracks /\ job.ref[m.track].lens # {}
           /\ job.ref[m.track].has_duplicates => Expected(w, m.track)
<1>1. PICK t \in Tracks :
        /\ job.ref[t].has_duplicates => Expected(w, t)
        /\ \E len \in job.ref[t].lens :
             m = [track |-> t,
                  length |-> len + (IF job.ref[t].is_jpeg
                                    THEN StepToNextOtherChunk(t, off + len) ELSE 0),
                  pad |-> IF job.ref[t].is_jpeg THEN 0
                          ELSE (job.ref[t].pkt_sz_gcd - (len % job.ref[t].pkt_sz_gcd))
                                 % job.ref[t].pkt_sz_gcd]
  BY DEF Matches
<1>2. m.track = t /\ job.ref[t].lens # {}
  BY <1>1
<1>3. QED
  BY <1>1, <1>2

\* A match of a track whose chunks are limited comes where the order expects it.
LEMMA MatchAwaited ==
    ASSUME NEW w \in StateType, job \in Jobs, NEW off, NEW m \in Matches(w, off),
           Limited(job, m.track), Told(job, m.track)
    PROVE  Awaits(w, m.track) /\ AfterExpected(w, m.track) = w
<1>1. Expected(w, m.track)
  BY MatchSource DEF Limited
<1>2. job.simple # <<>> /\ \A i \in DOMAIN job.simple :
        job.ref[job.simple[i]].codec = job.ref[m.track].codec
  BY DEF Told
<1>3. job.simple \in Seq(Tracks) /\ w.next_chunk \in Nat
  BY JobsAssumption DEF JobType, StateType
<1>4. PICK k \in DOMAIN job.simple : At(job.simple, w.next_chunk) = job.simple[k]
  BY <1>2, <1>3, AtIsElement
<1>5. At(job.simple, w.next_chunk) = m.track
  BY <1>1, <1>2, <1>4 DEF Expected
<1>6. QED
  BY <1>5 DEF Awaits, AfterExpected

LEMMA TryMatchTables ==
    ASSUME RangeInv, RangeInv', Forward, TableInv, \A j \in Jobs : Sampled(j), TryMatch
    PROVE  TablesGoOn
<1>0. /\ job \in Jobs /\ st \in StateType /\ offset \in Nat /\ offset < Size
      /\ Reached = offset - st.unknown_length /\ Reached \in Nat /\ Size \in Nat
      /\ FreeEmpty(st) /\ Book(st) /\ Behind(st, Reached)
      /\ Tables(st) /\ AwaitsOther(st) /\ pc = "try"
  BY RangeFacts, TableFacts DEF TryMatch
<1>1. PICK asked \in BeforeMatch : \E m \in Matches(asked, offset) :
        /\ st' = AddMatch(AfterExpected(asked, m.track), offset, m)
        /\ offset' = offset + m.length + m.pad
  BY DEF TryMatch
<1>2. PICK m \in Matches(asked, offset) :
        /\ st' = AddMatch(AfterExpected(asked, m.track), offset, m)
        /\ offset' = offset + m.length + m.pad
  BY <1>1
<1>3. asked \in StateType /\ Bookkeeping(st, asked) /\ Asked(st, asked)
  BY <1>0, BeforeMatchType, BeforeMatchBookkeeping, AskedStates
<1>4. /\ m.track \in Tracks /\ m.length \in Nat /\ m.pad \in Nat
      /\ m.pad # 0 => /\ job.ref[m.track].pkt_sz_gcd # 1
                      /\ job.ref[m.track].bounded => offset + m.length <= Size
  BY <1>0, <1>3, MatchesType
<1>5. m.pad # 0 => offset + m.length <= Size
  <2>1. job.ref[m.track].bounded \/ job.ref[m.track].pkt_sz_gcd = 1
    BY <1>0, <1>4 DEF Sampled, Orderly
  <2>2. QED
    BY <1>4, <2>1
<1>6. job.ref[m.track].lens # {}
  BY MatchSource
<1> DEFINE w == AfterExpected(asked, m.track)
<1>7. /\ w \in StateType /\ Bookkeeping(st, w) /\ Untouched(st, w)
  BY <1>0, <1>3, <1>4, AfterExpectedType, AfterExpectedBookkeeping, BookkeepingTrans,
     AfterExpectedUntouched, UntouchedTrans DEF Asked
<1>8. Limited(job, m.track) =>
        /\ Told(job, m.track) /\ Awaits(w, m.track) /\ w.next_chunk = st.next_chunk
  <2>1. SUFFICES ASSUME Limited(job, m.track)
                 PROVE  /\ Told(job, m.track) /\ Awaits(w, m.track)
                        /\ w.next_chunk = st.next_chunk
    OBVIOUS
  <2>2. Told(job, m.track)
    BY <1>0, <1>4, <2>1 DEF Sampled
  <2>3. Awaits(asked, m.track) /\ w = asked
    BY <1>0, <1>3, <2>1, <2>2, MatchAwaited
  <2>4. QED
    BY <1>3, <2>2, <2>3 DEF Asked
<1>9. st' = AddMatch(w, offset, m)
  BY <1>2
<1> HIDE DEF w
<1>10. /\ FreeEmpty(w) /\ Book(w) /\ Behind(w, Reached)
       /\ w.unknown_length = st.unknown_length
  BY <1>7, BookkeptFacts
<1>11. /\ Tables(w) /\ w.last_track = st.last_track /\ w.total_excluded = st.total_excluded
       /\ NextPosition(w, m.track) = NextPosition(st, m.track)
  BY <1>0, <1>7, UntouchedKept DEF Untouched, SameTables, SameExclusions
<1>12. /\ w.unknown_length <= offset /\ offset - w.unknown_length = Reached
       /\ w.unknown_length > 0 => offset - w.unknown_length <= Size
       /\ w.unknown_length > 0 => w.last_track = Free
  <2>1. /\ st.unknown_length <= offset
        /\ st.unknown_length > 0 => Reached < Size
        /\ st.unknown_length > 0 => st.last_track = Free
    BY DEF RangeInv, UnknownInv, UnknownOnlyInFree
  <2>2. QED
    BY <1>0, <1>10, <1>11, <2>1
<1>13. w.last_track = m.track => ~Limited(job, m.track)
  BY <1>4, <1>8, <1>0, <1>11 DEF AwaitsOther, Awaits
<1>14. w.last_track = m.track /\ ~job.dont_exclude =>
         offset - w.total_excluded = NextPosition(w, m.track)
  BY <1>0, <1>4, <1>6, <1>11 DEF TableInv, Continues
<1>15. /\ Tables(st') /\ st'.last_track = m.track
       /\ w.last_track # m.track /\ Told(job, m.track) /\ Awaits(w, m.track) =>
              ~Awaits(st', m.track)
       /\ ~job.dont_exclude /\ offset' < Size =>
              offset' - st'.total_excluded = NextPosition(st', m.track)
  BY <1>0, <1>2, <1>4, <1>5, <1>7, <1>9, <1>10, <1>11, <1>12, <1>13, <1>14, AddMatchTables
<1>16. AwaitsOther(st')
  <2>1. Limited(job, m.track) => ~Awaits(st', m.track)
    BY <1>8, <1>13, <1>15
  <2>2. job' = job
    BY DEF TryMatch
  <2>3. QED
    BY <1>15, <2>1 DEF AwaitsOther, Awaits
<1>17. st'.unknown_length = 0
  BY <1>0, <1>4, <1>7, <1>9, AddMatchUnknown
<1>18. ~job.dont_exclude /\ offset' < Size => Continues(st', offset')
  BY <1>15 DEF TryMatch, Continues
<1>19. pc' = "advance"
  BY DEF TryMatch
<1>20. QED
  BY <1>15, <1>16, <1>17, <1>18, <1>19 DEF TablesGoOn

LEMMA TryChunkPredictionTables ==
    ASSUME RangeInv, RangeInv', Forward, TableInv, \A j \in Jobs : Sampled(j),
           TryChunkPrediction
    PROVE  TablesGoOn
<1>0. /\ job \in Jobs /\ st \in StateType /\ offset \in Nat /\ offset < Size
      /\ Reached = offset - st.unknown_length /\ Reached \in Nat /\ Size \in Nat
      /\ FreeEmpty(st) /\ Book(st) /\ Behind(st, Reached)
      /\ Tables(st) /\ pc' = "advance"
  BY RangeFacts, TableFacts DEF TryChunkPrediction
<1>1. PICK p \in Predictions(st, offset, FALSE) :
        /\ p.chunk # Nothing
        /\ st' = AddPredicted(Predicting(st, p), offset, p.chunk)
        /\ offset' = offset + p.chunk.size
  BY DEF TryChunkPrediction
<1>2. p.ignored \in BOOLEAN /\ GoodChunk(p.chunk, offset)
  <2>1. offset <= Size
    BY <1>0
  <2>2. QED
    BY <1>0, <1>1, <2>1, PredictionsGood, Zenon
<1>3. p.chunk.track \in Tracks /\ p.chunk.track # Free
  <2>1. p.chunk.track # Free
    BY <1>0, <1>2 DEF GoodChunk, MayPredict, Sampled, Orderly
  <2>2. QED
    BY <1>2, <2>1 DEF GoodChunk, AllTracks
<1> DEFINE w == Predicting(st, p)
<1>4. w \in StateType /\ Bookkeeping(st, w) /\ Asked(st, w)
  BY <1>0, <1>2, PredictingType, PredictingBookkeeping, AskedStates
<1>5. st' = AddPredicted(w, offset, p.chunk)
  BY <1>1
<1> HIDE DEF w
<1>6. /\ FreeEmpty(w) /\ Book(w) /\ Behind(w, Reached)
      /\ w.unknown_length = st.unknown_length
  BY <1>4, BookkeptFacts
<1>7. Tables(w)
  BY <1>0, <1>4, UntouchedKept DEF Asked
<1>8. /\ w.unknown_length <= offset /\ offset - w.unknown_length = Reached
      /\ w.unknown_length > 0 => offset - w.unknown_length <= Size
  <2>1. /\ st.unknown_length <= offset
        /\ st.unknown_length > 0 => Reached < Size
    BY DEF RangeInv, UnknownInv
  <2>2. QED
    BY <1>0, <1>6, <2>1
<1>9. /\ Tables(st') /\ st'.last_track = p.chunk.track
      /\ ~job.dont_exclude /\ Len(job.ref[p.chunk.track].likely_sizes) <= 1 =>
             offset' - st'.total_excluded = NextPosition(st', p.chunk.track)
  BY <1>0, <1>1, <1>2, <1>3, <1>4, <1>5, <1>6, <1>7, <1>8, AddPredictedTables
<1>10. AwaitsOther(st')
  <2>1. ~Limited(job, p.chunk.track)
    BY <1>0, <1>2, <1>3 DEF GoodChunk, MayPredict, Sampled, Told
  <2>2. QED
    BY <1>9, <2>1 DEF AwaitsOther
<1>11. ~job.dont_exclude => Continues(st', offset')
  BY <1>0, <1>3, <1>9 DEF Continues, Sampled
<1>12. st'.unknown_length = 0
  BY <1>0, <1>2, <1>3, <1>4, <1>5, <1>6, <1>8, AddPredictedRange
<1>13. QED
  BY <1>0, <1>9, <1>10, <1>11, <1>12 DEF TablesGoOn

\* A free sequence begins with every track's chunk stored.
LEMMA EnterUnknownTables ==
    ASSUME TypeInv, UnknownOnlyInFree, pc = "try", NEW p \in Misses(st, offset, FALSE),
           FreeEmpty(st), Tables(st)
    PROVE  Tables(EnterUnknown(IF job.use_chunk_stats THEN Predicting(st, p) ELSE st))
<1> DEFINE x == IF job.use_chunk_stats THEN Predicting(st, p) ELSE st
           y == PushBackLastChunk(x)
<1>1. st \in StateType /\ offset \in Nat /\ offset <= Size /\ job \in Jobs
  BY SizeAssumption DEF TypeInv, TypeOK
<1>2. p.ignored \in BOOLEAN
  BY <1>1, MissesType, Zenon
<1>3. x \in StateType /\ Untouched(st, x) /\ Bookkeeping(st, x)
  <2>1. Untouched(st, st) /\ Bookkeeping(st, st)
    BY DEF Untouched, SameTables, SameExclusions, Bookkeeping, SameScan
  <2>2. QED
    BY <1>1, <1>2, <2>1, PredictingType, PredictingUntouched, PredictingBookkeeping
<1> HIDE DEF x
<1>4. Tables(x) /\ FreeEmpty(x)
  BY <1>3, UntouchedKept DEF Bookkeeping
<1>5. Tables(y) /\ AllClosed(y) /\ y \in StateType
  BY <1>3, <1>4, PushBackTables, PushBackLastChunkType
<1> HIDE DEF y
<1>6. Tables(SetLastTrack(y, Free))
  <2> DEFINE z == SetLastTrack(y, Free)
  <2>1. /\ z.chunks = y.chunks /\ z.current = y.current /\ z.frames = y.frames
        /\ z.excluded = y.excluded /\ z.total_excluded = y.total_excluded
    BY <1>5 DEF SetLastTrack, StateType
  <2> HIDE DEF z
  <2>2. SameRanges(y, z)
    BY <2>1 DEF SameRanges, SameExclusions
  <2>3. \A t : Samples(z, t) = Samples(y, t)
    BY <2>1 DEF Samples
  <2>4. OneOpen(z) /\ Tiled(z)
    BY <1>5, <2>1, <2>3 DEF OneOpen, AllClosed, Tables, Tiled
  <2>5. AllPlaced(y) => AllPlaced(z)
    BY <2>1, <2>2, <2>3, SamePositions DEF AllPlaced
  <2>6. QED
    BY <1>5, <2>4, <2>5 DEF Tables, z
<1>7. QED
  BY <1>4, <1>6 DEF EnterUnknown, x, y

LEMMA StepThroughUnknownTables ==
    ASSUME RangeInv, RangeInv', Forward, TableInv, StepThroughUnknown
    PROVE  TablesGoOn
<1>1. /\ TypeInv /\ UnknownOnlyInFree /\ FreeEmpty(st) /\ Tables(st)
  BY TableFacts DEF RangeInv
<1>2. pc = "try" /\ pc' = "advance" /\ job.ignore_unknown
  BY DEF StepThroughUnknown
<1>3. PICK p \in Misses(st, offset, FALSE) :
        LET w == EnterUnknown(IF job.use_chunk_stats THEN Predicting(st, p) ELSE st)
        IN  st' = [w EXCEPT !.unknown_length = @ + CalcStep(w, offset)]
  BY DEF StepThroughUnknown
<1> DEFINE w == EnterUnknown(IF job.use_chunk_stats THEN Predicting(st, p) ELSE st)
<1>4. w \in StateType /\ w.last_track = Free /\ Tables(w)
  BY <1>1, <1>2, UnknownStepStart, EnterUnknownTables
<1>5. st' = [w EXCEPT !.unknown_length = @ + CalcStep(w, offset)]
  BY <1>3
<1> HIDE DEF w
<1>6. Untouched(w, st') /\ st'.last_track = Free
  BY <1>4, <1>5 DEF Untouched, SameTables, SameExclusions, StateType
<1>7. Tables(st')
  BY <1>4, <1>6, UntouchedKept
<1>8. AwaitsOther(st') /\ Continues(st', offset')
  BY <1>6, TracksAssumption DEF AwaitsOther, Continues
<1>9. QED
  BY <1>2, <1>7, <1>8 DEF TablesGoOn

LEMMA PrematureEndTables ==
    ASSUME RangeInv, RangeInv', Forward, TableInv, PrematureEnd
    PROVE  TablesGoOn
<1>1. /\ TypeInv /\ UnknownOnlyInFree /\ FreeEmpty(st) /\ Tables(st)
      /\ st.unknown_length = 0
  BY TableFacts DEF RangeInv, PrematureEnd
<1>2. pc = "try" /\ pc' = "done"
  BY DEF PrematureEnd
<1>3. PICK p \in Misses(st, offset, FALSE) :
        LET w == EnterUnknown(IF job.use_chunk_stats THEN Predicting(st, p) ELSE st)
        IN  st' = [w EXCEPT !.content_size = offset]
  BY DEF PrematureEnd
<1> DEFINE w == EnterUnknown(IF job.use_chunk_stats THEN Predicting(st, p) ELSE st)
<1>4. w \in StateType /\ w.last_track = Free /\ w.unknown_length = 0 /\ Tables(w)
  BY <1>1, <1>2, UnknownStepStart, EnterUnknownTables
<1>5. st' = [w EXCEPT !.content_size = offset]
  BY <1>3
<1> HIDE DEF w
<1>6. Untouched(w, st') /\ st'.last_track = Free /\ st'.unknown_length = 0
  BY <1>4, <1>5 DEF Untouched, SameTables, SameExclusions, StateType
<1>7. Tables(st')
  BY <1>4, <1>6, UntouchedKept
<1>8. AwaitsOther(st')
  BY <1>6, TracksAssumption DEF AwaitsOther
<1>9. QED
  BY <1>2, <1>6, <1>7, <1>8 DEF TablesGoOn

LEMMA TableInit ==
    ASSUME Init
    PROVE  TableInv
<1>1. /\ pc = "start" /\ st.last_track = Start /\ st.unknown_length = 0
      /\ \A t \in Tracks : /\ st.chunks[t] = <<>> /\ st.frames[t] = <<>>
                           /\ st.current[t] = NoChunk /\ t # Start
  BY TracksAssumption DEF Init, InitState, AllTracks
<1>2. AwaitsOther(st) /\ SkipInv
  BY <1>1 DEF AwaitsOther, SkipInv
<1>3. ASSUME NEW t \in Tracks PROVE Samples(st, t)[Len(st.chunks[t])] = 0
  <2>1. st \in StateType
    BY RangeInit DEF RangeInv, TypeInv, TypeOK
  <2>2. Counts(st.chunks[t]) \in Seq(Nat)
    BY <2>1, ChunksType, CountsType DEF AllTracks
  <2>3. Len(st.chunks[t]) = 0
    BY <1>1
  <2>4. QED
    BY <2>2, <2>3, SumDefined DEF Samples
<1>4. OneOpen(st) /\ Tiled(st)
  BY <1>1, <1>3 DEF OneOpen, Tiled, NoChunk
<1>5. AllPlaced(st)
  <2>1. ASSUME NEW t \in Tracks PROVE Placed(st, t, st.current[t], 0)
    <3>1. st.current[t].n = 0 /\ Len(st.frames[t]) = 0
      BY <1>1 DEF NoChunk
    <3>2. QED
      BY <3>1 DEF Placed
  <2>2. QED
    BY <1>1, <1>3, <2>1 DEF AllPlaced
<1>6. QED
  BY <1>1, <1>2, <1>4, <1>5 DEF TableInv, Tables

LEMMA TableNext ==
    ASSUME RangeInv, TableInv, \A j \in Jobs : Sampled(j), [Next]_vars
    PROVE  TableInv'
<1>1. job' = job
  BY DEF vars, Next, CalcStartOffset, GetChunkPadding, SkipZeros, SkipAtom, EndAdvance,
     ReachEnd, TryMatch, TryChunkPrediction, StepThroughUnknown, PrematureEnd, ThrowBeyondEnd
<1>2. Tables(st)' = Tables(st') /\ AwaitsOther(st)' = AwaitsOther(st')
  BY <1>1 DEF Tables, OneOpen, Tiled, AllPlaced, Placed, Samples, PositionIn, RangeBytes,
     AwaitsOther, Limited
<1>3. /\ Continues(st, offset)' = Continues(st', offset')
      /\ Continues(st, from)' = Continues(st', from')
  BY <1>1 DEF Continues, NextPosition, PositionIn, RangeBytes
<1>4. Behind(st, from)' = Behind(st', from')
  BY DEF Behind, FramesBehind
<1>5. CASE UNCHANGED vars
  <2>1. st' = st /\ pc' = pc /\ offset' = offset /\ from' = from
    BY <1>5 DEF vars
  <2>2. /\ Tables(st') /\ AwaitsOther(st')
        /\ Continues(st', offset') = Continues(st, offset)
        /\ Continues(st', from') = Continues(st, from)
        /\ Behind(st', from') = Behind(st, from)
    BY <2>1 DEF TableInv
  <2>3. QED
    BY <1>1, <1>2, <1>3, <1>4, <2>1, <2>2 DEF TableInv, SkipInv
<1>6. CASE Next
  <2>1. RangeInv' /\ Forward
    BY RangeNext DEF Sampled
  <2>2. TablesGoOn
    BY <1>6, <2>1, CalcStartOffsetTables, GetChunkPaddingTables, SkipZerosTables,
       SkipAtomTables, EndAdvanceTables, ReachEndTables, TryMatchTables,
       TryChunkPredictionTables, StepThroughUnknownTables, PrematureEndTables, ThrowTables
    DEF Next
  <2>3. pc' # "start"
    BY <1>6 DEF Next, CalcStartOffset, GetChunkPadding, SkipZeros, SkipAtom, EndAdvance,
       ReachEnd, TryMatch, TryChunkPrediction, StepThroughUnknown, PrematureEnd, ThrowBeyondEnd
  <2>4. QED
    BY <1>1, <1>2, <1>3, <1>4, <2>2, <2>3 DEF TablesGoOn, TableInv, SkipInv
<1>7. QED
  BY <1>5, <1>6

LEMMA TableInvariant ==
    ASSUME \A j \in Jobs : Sampled(j)
    PROVE  Spec => [](RangeInv /\ TableInv)
<1>1. \A j \in Jobs : Orderly(j)
  BY DEF Sampled
<1>2. Init => RangeInv /\ TableInv
  BY RangeInit, TableInit
<1>3. RangeInv /\ TableInv /\ [Next]_vars => (RangeInv /\ TableInv)'
  BY <1>1, RangeNext, TableNext
<1>4. QED
  BY <1>2, <1>3, PTL DEF Spec

-----------------------------------------------------------------------------
(* The tables                                                              *)

LEMMA StoredTables ==
    ASSUME st \in StateType, Tables(st), NEW t \in Tracks
    PROVE  /\ StoredChunks(t) \in Seq(ChunkRecord)
           /\ SamplesBefore(t, Len(StoredChunks(t)) + 1) = Len(st.frames[t])
           /\ ~job.dont_exclude =>
                \A k \in DOMAIN StoredChunks(t) :
                    Placed(st, t, StoredChunks(t)[k], SamplesBefore(t, k))
<1> DEFINE chunks == st.chunks[t]
           c == st.current[t]
           n == Len(chunks)
           sum == SumUpTo(Counts(chunks))
<1>1. /\ chunks \in Seq(ChunkRecord) /\ c \in ChunkRecord /\ n \in Nat /\ c.n \in Nat
      /\ DOMAIN chunks = 1 .. n /\ sum[n] \in Nat
  <2>1. t \in AllTracks
    BY DEF AllTracks
  <2>2. chunks \in Seq(ChunkRecord) /\ c \in ChunkRecord /\ n \in Nat /\ DOMAIN chunks = 1 .. n
    BY <2>1, ChunksType
  <2>3. sum[n] \in Nat
    BY <2>2, CountsType
  <2>4. c.n \in Nat
    BY <2>2 DEF ChunkRecord
  <2>5. QED
    BY <2>2, <2>3, <2>4
<1>2. sum[n] + c.n = Len(st.frames[t]) /\ Samples(st, t) = sum
  <2>1. Samples(st, t) = sum
    BY DEF Samples
  <2>2. Tiled(st)
    BY DEF Tables
  <2>3. Samples(st, t)[Len(st.chunks[t])] + st.current[t].n = Len(st.frames[t])
    BY <2>2 DEF Tiled
  <2>4. QED
    BY <2>1, <2>3
<1>3. ~job.dont_exclude =>
        /\ \A k \in DOMAIN chunks : Placed(st, t, chunks[k], sum[k - 1])
        /\ Placed(st, t, c, sum[n])
  BY DEF Tables, AllPlaced, Samples
<1>4. c.n > 0 => st.last_track = t
  BY <1>1 DEF Tables, OneOpen
<1>5. CASE c.n > 0
  <2> DEFINE more == SumUpTo(Counts(Append(chunks, c)))
             all == Append(chunks, c)
  <2>1. StoredChunks(t) = all
    BY <1>4, <1>5 DEF StoredChunks
  <2>2. all \in Seq(ChunkRecord) /\ Len(all) = n + 1 /\ DOMAIN all = 1 .. n + 1
        /\ all[n + 1] = c /\ \A k \in 1 .. n : all[k] = chunks[k]
    BY <1>1
  <2>3. (\A k \in 0 .. n : more[k] = sum[k]) /\ more[n + 1] = sum[n] + c.n
    BY <1>1, SamplesAppend
  <2>4. \A k : SamplesBefore(t, k) = more[k - 1]
    BY <2>1 DEF SamplesBefore
  <2> HIDE DEF all, more, chunks, c, n, sum
  <2>5. SamplesBefore(t, Len(all) + 1) = Len(st.frames[t])
    <3>1. (Len(all) + 1) - 1 = n + 1
      BY <1>1, <2>2
    <3>2. QED
      BY <1>2, <2>3, <2>4, <3>1
  <2>6. ASSUME ~job.dont_exclude, NEW k \in 1 .. n + 1
        PROVE  Placed(st, t, all[k], SamplesBefore(t, k))
    <3>1. k - 1 \in 0 .. n /\ SamplesBefore(t, k) = sum[k - 1]
      BY <1>1, <2>3, <2>4
    <3>2. CASE k = n + 1
      <4>1. k - 1 = n
        BY <1>1, <3>2
      <4>2. QED
        BY <1>3, <2>2, <2>6, <3>1, <3>2, <4>1
    <3>3. CASE k # n + 1
      <4>1. k \in 1 .. n
        BY <1>1, <3>3
      <4>2. QED
        BY <1>1, <1>3, <2>2, <2>6, <3>1, <4>1
    <3>4. QED
      BY <3>2, <3>3
  <2>7. QED
    BY <2>1, <2>2, <2>5, <2>6
<1>6. CASE ~(c.n > 0)
  <2>1. StoredChunks(t) = chunks
    BY <1>6 DEF StoredChunks
  <2>2. \A k : SamplesBefore(t, k) = sum[k - 1]
    BY <2>1 DEF SamplesBefore
  <2> HIDE DEF chunks, c, n, sum
  <2>3. c.n = 0 /\ (n + 1) - 1 = n /\ n = Len(chunks)
    BY <1>1, <1>6 DEF n
  <2>4. SamplesBefore(t, Len(chunks) + 1) = Len(st.frames[t])
    BY <1>1, <1>2, <2>2, <2>3
  <2>5. QED
    BY <1>1, <1>3, <2>1, <2>2, <2>4
<1>7. QED
  BY <1>5, <1>6

\* Within a chunk the sizes lead from each sample to the next.
LEMMA PlacedSamples ==
    ASSUME st \in StateType, NEW t \in Tracks, NEW c \in ChunkRecord, NEW m \in Nat,
           Placed(st, t, c, m), NEW j \in 1 .. c.n
    PROVE  LET sizes == SumUpTo(Lengths(st.frames[t]))
           IN  c.off - c.already_excluded + (sizes[m + j - 1] - sizes[m]) =
                   PositionIn(st, st.frames[t][m + j].off)
<1> DEFINE frames == st.frames[t]
           lengths == Lengths(frames)
           sizes == SumUpTo(lengths)
           Pos(i) == PositionIn(st, frames[i].off)
           n == c.n
<1>1. PICK a \in Int : a = c.off - c.already_excluded
  BY DEF ChunkRecord
<1>2. PICK k \in Nat : k = Len(frames)
  BY FramesType DEF AllTracks
<1>3. /\ lengths \in Seq(Nat) /\ Len(lengths) = k /\ frames \in Seq([off : Nat, length : Nat])
      /\ \A i \in 1 .. k : lengths[i] = frames[i].length
  <2> DEFINE value(i) == frames[i].length
  <2>1. frames \in Seq([off : Nat, length : Nat]) /\ DOMAIN frames = 1 .. k
          /\ \A i \in 1 .. k : value(i) \in Nat
    BY <1>2, FramesType DEF AllTracks
  <2>2. lengths = [i \in 1 .. k |-> value(i)]
    BY <2>1 DEF Lengths
  <2> HIDE DEF frames, lengths, value
  <2>3. [i \in 1 .. k |-> value(i)] \in Seq(Nat) /\ Len([i \in 1 .. k |-> value(i)]) = k
    BY <2>1
  <2>4. \A i \in 1 .. k : lengths[i] = value(i)
    BY <2>2
  <2>5. QED
    BY <2>1, <2>2, <2>3, <2>4 DEF value
<1>4. /\ \A i \in 1 .. k : sizes[i] = sizes[i - 1] + lengths[i]
      /\ \A i \in 0 .. k : sizes[i] \in Nat
  <2> HIDE DEF lengths
  <2>1. QED
    BY <1>3, SumDefined, SumType
<1>5. /\ n \in Nat /\ m + n <= k
      /\ n > 0 => a = Pos(m + 1)
      /\ \A i \in 1 .. n - 1 : Pos(m + i + 1) = Pos(m + i) + frames[m + i].length
  <2>1. n \in Nat
    BY DEF ChunkRecord
  <2>2. m + n <= k /\ (n > 0 => a = Pos(m + 1))
    BY <1>1, <1>2 DEF Placed
  <2>3. \A i \in 1 .. n - 1 : Pos(m + i + 1) = Pos(m + i) + frames[m + i].length
    BY DEF Placed
  <2> HIDE DEF frames, Pos, n
  <2>4. QED
    BY <2>1, <2>2, <2>3
<1>6. \A i \in 1 .. k : frames[i].length \in Nat
  <2> HIDE DEF frames, lengths
  <2>1. \A i \in 1 .. k : lengths[i] \in Nat
    BY <1>3
  <2>2. QED
    BY <1>3, <2>1
<1> DEFINE S == {i \in Nat : Pos(m + i + 1) = a + (sizes[m + i] - sizes[m])}
<1> HIDE DEF frames, lengths, sizes, Pos, n
<1>7. n > 0 /\ j - 1 \in 0 .. n - 1 /\ n - 1 \in Nat
  <2>1. n \in Nat /\ j \in 1 .. n
    BY <1>5 DEF n
  <2>2. QED
    BY <2>1
<1>8. 0 \in S
  BY <1>1, <1>2, <1>4, <1>5, <1>7
<1>9. ASSUME NEW i \in 0 .. (n - 1) - 1, i \in S
      PROVE  i + 1 \in S
  <2>1. /\ i + 1 \in 1 .. n - 1 /\ m + (i + 1) \in 1 .. k /\ m + i \in 0 .. k /\ m \in 0 .. k
        /\ (m + (i + 1)) - 1 = m + i /\ m + i + 1 = m + (i + 1)
    BY <1>2, <1>5, <1>7
  <2>2. Pos(m + (i + 1) + 1) = Pos(m + (i + 1)) + frames[m + (i + 1)].length
    BY <1>5, <2>1
  <2>3. sizes[m + (i + 1)] = sizes[m + i] + frames[m + (i + 1)].length
    BY <1>3, <1>4, <2>1
  <2>4. Pos(m + (i + 1)) = a + (sizes[m + i] - sizes[m])
    BY <1>9, <2>1
  <2>5. /\ sizes[m + i] \in Nat /\ sizes[m] \in Nat /\ frames[m + (i + 1)].length \in Nat
    BY <1>4, <1>6, <2>1
  <2>6. Pos(m + (i + 1) + 1) = a + (sizes[m + (i + 1)] - sizes[m])
    BY <1>1, <2>2, <2>3, <2>4, <2>5
  <2>7. i + 1 \in Nat
    BY <2>1
  <2>8. QED
    BY <2>6, <2>7
<1> HIDE DEF S
<1>10. j - 1 \in S
  <2>1. 0 .. n - 1 \subseteq S
    BY <1>7, <1>8, <1>9, InductionTo
  <2>2. QED
    BY <1>7, <2>1
<1>11. m + (j - 1) + 1 = m + j /\ m + (j - 1) = (m + j) - 1
  BY <1>5, <1>7
<1>12. QED
  BY <1>1, <1>10, <1>11 DEF S, frames, lengths, sizes, Pos

LEMMA TablesExact ==
    ASSUME st \in StateType, Tables(st)
    PROVE  SampleTableExact
<1>1. EverySampleHasAChunk
  BY StoredTables DEF EverySampleHasAChunk
<1>2. ASSUME ~job.dont_exclude, NEW t \in Tracks, NEW k \in DOMAIN StoredChunks(t),
             NEW j \in 1 .. StoredChunks(t)[k].n
      PROVE  TablePosition(t, k, j) = NewPosition(st.frames[t][SamplesBefore(t, k) + j].off)
  <2> DEFINE c == StoredChunks(t)[k]
             m == SamplesBefore(t, k)
  <2>1. StoredChunks(t) \in Seq(ChunkRecord) /\ Placed(st, t, c, m)
    BY <1>2, StoredTables
  <2>2. c \in ChunkRecord
    BY <2>1
  <2>3. m \in Nat
    <3>1. k - 1 \in 0 .. Len(StoredChunks(t))
      BY <2>1
    <3>2. QED
      BY <2>1, <3>1, CountsType DEF SamplesBefore
  <2>4. \A b : PositionIn(st, b) = NewPosition(b)
    BY DEF PositionIn, NewPosition, RangeBytes, ExcludedBytes
  <2>5. TablePosition(t, k, j) =
          LET sizes == SumUpTo(Lengths(st.frames[t]))
          IN  c.off - c.already_excluded + (sizes[m + j - 1] - sizes[m])
    BY DEF TablePosition
  <2> HIDE DEF c, m
  <2>6. TablePosition(t, k, j) = PositionIn(st, st.frames[t][m + j].off)
    <3>1. j \in 1 .. c.n
      BY DEF c
    <3>2. QED
      BY <2>1, <2>2, <2>3, <2>5, <3>1, PlacedSamples
  <2>7. QED
    BY <2>4, <2>6 DEF m
<1>3. QED
  BY <1>1, <1>2 DEF SampleTableExact

\* The chunk offsets saved by applyExcludedToOffs, with the sizes of the samples before,
\* lead to each sample's own bytes in the repaired mdat, and stsc and stsz agree, however
\* the repair's loop goes.
THEOREM TablesAreExact ==
    ASSUME \A j \in Jobs : Sampled(j)
    PROVE  Spec => []SampleTableExact
<1>1. RangeInv /\ TableInv => SampleTableExact
  BY TablesExact DEF RangeInv, TypeInv, TypeOK, TableInv
<1>2. QED
  BY <1>1, TableInvariant, PTL
=============================================================================
