--------------------------- MODULE NalScanProofs ---------------------------
(***************************************************************************)
(* For every stream of units the walk stays in the content and marks the   *)
(* samples that have a key slice; and where two access units follow one    *)
(* another as the standards lay them out, it finds the first of them.      *)
(***************************************************************************)
EXTENDS NalScan, TLAPS, SequenceTheorems, WellFoundedInduction

-----------------------------------------------------------------------------
(* Where the units end                                                     *)

\* The naturals are well ordered: an induction is a least counterexample.
LEMMA LeastNat ==
    ASSUME NEW S, S \subseteq Nat, S # {}
    PROVE  \E x \in S : \A y \in S : x <= y
<1>1. PICK x \in S : \A y \in S : ~(<<y, x>> \in OpToRel(<, Nat))
  BY NatLessThanWellFounded, WFMin
<1>2. ASSUME NEW y \in S PROVE x <= y
  <2>1. ~(y < x) /\ x \in Nat /\ y \in Nat
    BY <1>1 DEF OpToRel
  <2>2. QED
    BY <2>1
<1>3. QED
  BY <1>2

LEMMA GreatestNat ==
    ASSUME NEW n \in Nat, NEW S \in SUBSET (1 .. n), S # {}
    PROVE  \E x \in S : \A y \in S : x >= y
<1> DEFINE Bounds == {b \in 0 .. n : \A y \in S : b >= y}
<1>1. n \in Bounds /\ Bounds \subseteq Nat
  OBVIOUS
<1>2. PICK b \in Bounds : \A c \in Bounds : b <= c
  <2> HIDE DEF Bounds
  <2>1. QED
    BY <1>1, LeastNat
<1>3. b \in S
  <2>1. SUFFICES ASSUME b \notin S PROVE FALSE
    OBVIOUS
  <2>2. b # 0
    <3>1. PICK y \in S : TRUE
      OBVIOUS
    <3>2. y >= 1 /\ b >= y /\ b \in Nat
      BY <1>2
    <3>3. QED
      BY <3>2
  <2>3. b - 1 \in Bounds
    BY <1>2, <2>1, <2>2
  <2>4. QED
    BY <1>2, <2>3
<1>4. QED
  BY <1>2, <1>3

\* The function that Ends defines exists, for every part of the units.
LEMMA EndsExist ==
    ASSUME NEW s \in Seq(Unit), NEW n \in 0 .. Len(s)
    PROVE  \E g : g = [i \in 0 .. n |-> IF i = 0 THEN 0 ELSE g[i - 1] + s[i].length]
<1> DEFINE IsEnds(m, g) == g = [i \in 0 .. m |-> IF i = 0 THEN 0 ELSE g[i - 1] + s[i].length]
           Without == {m \in 0 .. Len(s) : ~ \E g : IsEnds(m, g)}
<1>1. SUFFICES ASSUME Without # {} PROVE FALSE
  OBVIOUS
<1>2. Without \subseteq Nat
  OBVIOUS
<1>3. PICK m \in Without : \A y \in Without : m <= y
  BY <1>1, <1>2, LeastNat
<1>4. CASE m = 0
  <2> DEFINE h == [i \in 0 .. 0 |-> 0]
  <2>1. IsEnds(0, h)
    OBVIOUS
  <2>2. QED
    BY <1>3, <1>4, <2>1
<1>5. CASE m # 0
  <2>1. m \in Nat /\ m \in 0 .. Len(s) /\ m - 1 \in 0 .. Len(s)
    <3>1. m \in 0 .. Len(s) /\ Len(s) \in Nat
      BY <1>3
    <3>2. QED
      BY <1>5, <3>1
  <2>2. m - 1 \notin Without
    <3> HIDE DEF Without
    <3>1. QED
      BY <1>3, <2>1
  <2>3. PICK g : IsEnds(m - 1, g)
    BY <2>1, <2>2
  <2>4. \A i \in 0 .. m - 1 : g[i] = IF i = 0 THEN 0 ELSE g[i - 1] + s[i].length
    BY <2>3
  <2> DEFINE h == [i \in 0 .. m |-> IF i < m THEN g[i] ELSE g[m - 1] + s[m].length]
  <2>5. ASSUME NEW i \in 0 .. m
        PROVE  h[i] = IF i = 0 THEN 0 ELSE h[i - 1] + s[i].length
    <3>1. CASE i = 0
      BY <1>5, <2>1, <2>4, <3>1
    <3>2. CASE i # 0
      <4>1. i - 1 \in 0 .. m /\ i - 1 < m /\ h[i - 1] = g[i - 1]
        BY <2>1, <3>2
      <4>2. CASE i < m
        <5>1. h[i] = g[i] /\ g[i] = g[i - 1] + s[i].length
          BY <2>1, <2>4, <3>2, <4>2
        <5>2. QED
          BY <3>2, <4>1, <5>1
      <4>3. CASE ~(i < m)
        <5>1. i = m /\ h[i] = g[m - 1] + s[m].length
          BY <2>1, <4>3
        <5>2. QED
          BY <3>2, <4>1, <5>1
      <4>4. QED
        BY <4>2, <4>3
    <3>3. QED
      BY <3>1, <3>2
  <2>6. h = [i \in 0 .. m |-> h[i]]
    OBVIOUS
  <2> HIDE DEF h
  <2>7. IsEnds(m, h)
    BY <2>5, <2>6
  <2>8. QED
    BY <1>3, <2>7
<1>6. QED
  BY <1>4, <1>5

LEMMA EndsDef ==
    ASSUME NEW s \in Seq(Unit)
    PROVE  /\ Ends(s)[0] = 0
           /\ \A i \in 1 .. Len(s) : Ends(s)[i] = Ends(s)[i - 1] + s[i].length
<1> DEFINE IsEnds(g) == g = [i \in 0 .. Len(s) |-> IF i = 0 THEN 0 ELSE g[i - 1] + s[i].length]
           e == Ends(s)
<1>1. Len(s) \in Nat /\ Len(s) \in 0 .. Len(s)
  OBVIOUS
<1>2. \E g : IsEnds(g)
  BY <1>1, EndsExist
<1>3. e = CHOOSE g : IsEnds(g)
  BY DEF Ends
<1>4. IsEnds(e)
  BY <1>2, <1>3
<1> HIDE DEF e
<1>5. \A i \in 0 .. Len(s) : e[i] = IF i = 0 THEN 0 ELSE e[i - 1] + s[i].length
  BY <1>4
<1>6. QED
  BY <1>1, <1>5 DEF e

LEMMA UnitLength ==
    ASSUME NEW s \in Seq(Unit), NEW i \in 1 .. Len(s)
    PROVE  s[i] \in Unit /\ s[i].length \in Nat /\ s[i].length > 0
<1>1. s[i] \in Unit
  OBVIOUS
<1>2. s[i].length \in Nat \ {0}
  BY <1>1 DEF Unit
<1>3. QED
  BY <1>1, <1>2

LEMMA EndsType ==
    ASSUME NEW s \in Seq(Unit), NEW n \in 0 .. Len(s)
    PROVE  Ends(s)[n] \in Nat
<1> DEFINE e == Ends(s)
           Odd == {m \in 0 .. Len(s) : e[m] \notin Nat}
<1>1. SUFFICES ASSUME Odd # {} PROVE FALSE
  OBVIOUS
<1>2. PICK m \in Odd : \A y \in Odd : m <= y
  <2>1. Odd \subseteq Nat
    OBVIOUS
  <2>2. QED
    BY <1>1, <2>1, LeastNat
<1> HIDE DEF e
<1>3. CASE m = 0
  BY <1>2, <1>3, EndsDef DEF e
<1>4. CASE m # 0
  <2>1. m \in 1 .. Len(s) /\ m - 1 \in 0 .. Len(s) /\ m - 1 \notin Odd
    BY <1>2, <1>4
  <2>2. e[m - 1] \in Nat /\ e[m] = e[m - 1] + s[m].length
    BY <2>1, EndsDef DEF e
  <2>3. s[m].length \in Nat
    BY <2>1, UnitLength
  <2>4. QED
    BY <1>2, <2>2, <2>3
<1>5. QED
  BY <1>3, <1>4

\* One unit further is its length further.
LEMMA EndsStep ==
    ASSUME NEW s \in Seq(Unit), NEW n \in 1 .. Len(s)
    PROVE  /\ Ends(s)[n - 1] \in Nat /\ Ends(s)[n] \in Nat
           /\ Ends(s)[n] = Ends(s)[n - 1] + s[n].length
           /\ Ends(s)[n - 1] < Ends(s)[n]
<1>1. n - 1 \in 0 .. Len(s) /\ n \in 0 .. Len(s)
  OBVIOUS
<1> DEFINE e == Ends(s)
<1>2. e[n] = e[n - 1] + s[n].length
  BY EndsDef
<1>3. e[n - 1] \in Nat /\ e[n] \in Nat
  BY <1>1, EndsType
<1>4. s[n].length \in Nat /\ s[n].length > 0
  BY UnitLength
<1> HIDE DEF e
<1>5. e[n - 1] < e[n]
  BY <1>2, <1>3, <1>4
<1>6. QED
  BY <1>2, <1>3, <1>5 DEF e

\* Units behind one another end behind one another.
LEMMA EndsIncrease ==
    ASSUME NEW s \in Seq(Unit), NEW n \in 0 .. Len(s), NEW m \in 0 .. Len(s), n < m
    PROVE  Ends(s)[n] < Ends(s)[m]
<1> DEFINE e == Ends(s)
           Odd == {k \in 0 .. Len(s) : n < k /\ ~(e[n] < e[k])}
<1>1. SUFFICES ASSUME Odd # {} PROVE FALSE
  OBVIOUS
<1>2. PICK k \in Odd : \A y \in Odd : k <= y
  <2>1. Odd \subseteq Nat
    OBVIOUS
  <2>2. QED
    BY <1>1, <2>1, LeastNat
<1>3. k \in 1 .. Len(s) /\ k - 1 \in 0 .. Len(s) /\ n < k /\ k - 1 \notin Odd
  BY <1>2
<1>4. e[k - 1] \in Nat /\ e[k] \in Nat /\ e[k - 1] < e[k]
  BY <1>3, EndsStep
<1>5. e[n] \in Nat
  BY EndsType
<1> HIDE DEF e
<1>6. CASE n = k - 1
  BY <1>2, <1>4, <1>6
<1>7. CASE n < k - 1
  <2>1. e[n] < e[k - 1]
    BY <1>3, <1>7
  <2>2. QED
    BY <1>2, <1>4, <1>5, <2>1
<1>8. QED
  BY <1>3, <1>6, <1>7

LEMMA EndsMonotone ==
    ASSUME NEW s \in Seq(Unit), NEW n \in 0 .. Len(s), NEW m \in 0 .. Len(s), n <= m
    PROVE  Ends(s)[n] <= Ends(s)[m]
<1>1. CASE n = m
  <2>1. Ends(s)[n] \in Nat
    BY EndsType
  <2>2. QED
    BY <1>1, <2>1
<1>2. CASE n < m
  <2>1. Ends(s)[n] < Ends(s)[m] /\ Ends(s)[n] \in Nat /\ Ends(s)[m] \in Nat
    BY <1>2, EndsIncrease, EndsType
  <2>2. QED
    BY <2>1
<1>3. QED
  BY <1>1, <1>2

-----------------------------------------------------------------------------
(***************************************************************************)
(* The inductive invariant.  While it walks, the code stands where the     *)
(* unit before ends, and has seen a slice as soon as it is behind the      *)
(* first one of an access unit; it leaves the walk at the access unit's    *)
(* end only.                                                               *)
(***************************************************************************)
End(n) == Ends(Nals)[n]

WalkInv ==
    /\ job \in Jobs
    /\ pc \in {"walk", "choose", "done"}
    /\ nth \in 1 .. Len(Nals) + 1
    /\ length \in 0 .. job.maxlength
    /\ length <= End(nth - 1)
    /\ pc # "done" => length = End(nth - 1)
    /\ pc = "walk" => length < job.maxlength
    /\ seen_slice \in BOOLEAN
    /\ was_keyframe \in BOOLEAN
    /\ previous_nal # <<>> => \E k \in 1 .. nth : previous_nal = <<Nals[k]>>
    /\ alternatives \in Seq(Nat)
    /\ alternatives # <<>> \/ pc = "choose" => job.codec = "hvc1"
    /\ \A i \in 1 .. Len(alternatives) : alternatives[i] \in 1 .. job.maxlength /\ alternatives[i] <= End(nth - 1)

MarkInv == \A k \in 1 .. nth - 1 : IsKeyframe(Nals[k]) => was_keyframe

\* What the code has seen of an access unit, or of what follows.
SeenInv ==
    IsAccessUnit /\ pc = "walk" =>
        /\ seen_slice <=> nth > SliceNth
        /\ job.codec = "avc1" => previous_nal = IF nth > SliceNth THEN <<FirstSlice>> ELSE <<>>
        /\ job.codec = "hvc1" => previous_nal = IF nth > 1 THEN <<Nals[nth - 1]>> ELSE <<>>

OnlyKeyInv == job.codec = "avc1" /\ IsAccessUnit /\ SizeIsUsual /\ was_keyframe => IsKeyUpTo(length)

UnitInv ==
    IsAccessUnit /\ SizeIsUsual /\ NextIsTold /\ ContinuesRightly =>
        /\ pc = "walk" => nth <= SampleUnits + 1
        /\ pc = "walk" /\ was_keyframe => SampleIsKey /\ nth > SliceNth
        /\ pc # "walk" => length = SampleLength

IInv == WalkInv /\ MarkInv /\ SeenInv /\ OnlyKeyInv /\ UnitInv

-----------------------------------------------------------------------------
(* The stream and its access unit                                          *)

LEMMA JobFacts ==
    ASSUME job \in Jobs
    PROVE  /\ job.codec \in {"avc1", "hvc1"}
           /\ Own \in Seq(Unit) /\ job.units[2] \in Seq(Unit) /\ Nals \in Seq(Unit)
           /\ Len(Own) \in Nat /\ Len(Nals) \in Nat /\ Len(Own) <= Len(Nals)
           /\ \A i \in 1 .. Len(Own) : Nals[i] = Own[i] /\ i \in 1 .. Len(Nals)
           /\ job.units[2] # <<>> => Len(Own) + 1 \in 1 .. Len(Nals) /\ Nals[Len(Own) + 1] = Following
           /\ job.maxlength \in Nat /\ job.maxlength >= 1 /\ job.maxlength <= End(Len(Nals))
           /\ job.content \in Nat /\ job.content >= job.maxlength
           /\ \A is_keyframe \in BOOLEAN : /\ EffectiveStat(is_keyframe).lower_bound \in Nat
                                           /\ EffectiveStat(is_keyframe).upper_bound \in Nat
<1>1. IsJob(job)
  BY JobsAssumption
<1>2. Own \in Seq(Unit) /\ job.units[2] \in Seq(Unit)
  BY <1>1 DEF IsJob, Own
<1>3. Nals = Own \o job.units[2]
  BY DEF Nals, Content, Own
<1>4. /\ Nals \in Seq(Unit) /\ Len(Nals) = Len(Own) + Len(job.units[2])
      /\ Len(Own) \in Nat /\ Len(job.units[2]) \in Nat
  BY <1>2, <1>3, ConcatProperties, LenProperties
<1>5. ASSUME NEW i \in 1 .. Len(Own)
      PROVE  Nals[i] = Own[i] /\ i \in 1 .. Len(Nals)
  BY <1>2, <1>3, <1>4, ConcatProperties
<1>6. ASSUME job.units[2] # <<>>
      PROVE  Len(Own) + 1 \in 1 .. Len(Nals) /\ Nals[Len(Own) + 1] = Following
  <2>1. Len(job.units[2]) >= 1
    BY <1>2, <1>4, <1>6, EmptySeq
  <2>2. Nals[Len(Own) + 1] = job.units[2][Len(Own) + 1 - Len(Own)]
    BY <1>2, <1>3, <1>4, <2>1, ConcatProperties
  <2>3. Len(Own) + 1 - Len(Own) = 1
    BY <1>4
  <2>4. QED
    BY <1>4, <2>1, <2>2, <2>3 DEF Following
<1>7. End(Len(Nals)) \in Nat
  BY <1>4, EndsType DEF End
<1>8. job.maxlength \in 1 .. End(Len(Nals))
  BY <1>1 DEF IsJob, Nals, LengthOf, End
<1>9. ASSUME NEW is_keyframe \in BOOLEAN
      PROVE  /\ EffectiveStat(is_keyframe).lower_bound \in Nat
             /\ EffectiveStat(is_keyframe).upper_bound \in Nat
  BY <1>1 DEF IsJob, EffectiveStat, Stat
<1>10. QED
  BY <1>1, <1>2, <1>4, <1>5, <1>6, <1>7, <1>8, <1>9 DEF IsJob

\* The first unit ends in the stream where it ends by itself.
LEMMA OwnLength ==
    ASSUME job \in Jobs
    PROVE  End(Len(Own)) = LengthOf(Own)
<1>1. /\ Own \in Seq(Unit) /\ Nals \in Seq(Unit) /\ Len(Own) \in Nat /\ Len(Own) <= Len(Nals) /\ Len(Nals) \in Nat
      /\ \A i \in 1 .. Len(Own) : Nals[i] = Own[i] /\ i \in 1 .. Len(Nals)
  BY JobFacts
<1> DEFINE a == Ends(Nals)
           b == Ends(Own)
           Odd == {m \in 0 .. Len(Own) : a[m] # b[m]}
<1>2. SUFFICES Odd = {}
  <2>1. Len(Own) \in 0 .. Len(Own)
    BY <1>1
  <2>2. QED
    BY <1>2, <2>1 DEF End, LengthOf
<1>3. SUFFICES ASSUME Odd # {} PROVE FALSE
  OBVIOUS
<1>4. PICK m \in Odd : \A y \in Odd : m <= y
  <2>1. Odd \subseteq Nat
    BY <1>1
  <2>2. QED
    BY <1>3, <2>1, LeastNat
<1>5. CASE m = 0
  BY <1>1, <1>4, <1>5, EndsDef
<1>6. CASE m # 0
  <2>1. m \in 1 .. Len(Own) /\ m \in 1 .. Len(Nals) /\ m - 1 \in 0 .. Len(Own) /\ m - 1 \notin Odd
    BY <1>1, <1>4, <1>6
  <2>2. a[m] = a[m - 1] + Nals[m].length /\ b[m] = b[m - 1] + Own[m].length
    BY <1>1, <2>1, EndsDef
  <2>3. a[m - 1] = b[m - 1] /\ Nals[m] = Own[m]
    BY <1>1, <2>1
  <2>4. QED
    BY <1>4, <2>2, <2>3
<1>7. QED
  BY <1>5, <1>6

LEMMA NalFacts ==
    ASSUME job \in Jobs, NEW n \in 1 .. Len(Nals)
    PROVE  /\ Nals[n] \in Unit
           /\ Nals[n].length \in Nat /\ Nals[n].length > 0
           /\ End(n - 1) \in Nat /\ End(n) \in Nat
           /\ End(n) = End(n - 1) + Nals[n].length
<1>1. Nals \in Seq(Unit)
  BY JobFacts
<1>2. QED
  BY <1>1, UnitLength, EndsStep DEF End

LEMMA EndFacts ==
    ASSUME job \in Jobs, NEW n \in 0 .. Len(Nals)
    PROVE  /\ End(n) \in Nat
           /\ \A m \in 0 .. Len(Nals) : n <= m => End(n) <= End(m)
           /\ \A m \in 0 .. Len(Nals) : n < m => End(n) < End(m)
<1>1. Nals \in Seq(Unit)
  BY JobFacts
<1>2. End(n) \in Nat
  BY <1>1, EndsType DEF End
<1>3. ASSUME NEW m \in 0 .. Len(Nals), n <= m PROVE End(n) <= End(m)
  BY <1>1, <1>3, EndsMonotone DEF End
<1>4. ASSUME NEW m \in 0 .. Len(Nals), n < m PROVE End(n) < End(m)
  BY <1>1, <1>4, EndsIncrease DEF End
<1>5. QED
  BY <1>2, <1>3, <1>4

LEMMA SliceFacts ==
    ASSUME job \in Jobs, Slices # {}
    PROVE  /\ SliceNth \in 1 .. Len(Own)
           /\ IsSlice(Own[SliceNth]) /\ FirstSlice = Own[SliceNth] /\ FirstSlice = Nals[SliceNth]
           /\ \A i \in 1 .. Len(Own) : IsSlice(Own[i]) => SliceNth <= i
<1>1. Own \in Seq(Unit) /\ Len(Own) \in Nat
  BY JobFacts
<1>2. Slices = {i \in 1 .. Len(Own) : IsSlice(Own[i])}
  BY <1>1 DEF Slices
<1>3. Slices \subseteq Nat
  BY <1>1, <1>2
<1>4. \E x \in Slices : \A y \in Slices : x <= y
  BY <1>3, LeastNat
<1>5. SliceNth \in Slices /\ \A y \in Slices : SliceNth <= y
  BY <1>4 DEF SliceNth, Min
<1>6. QED
  BY <1>1, <1>2, <1>5, JobFacts DEF FirstSlice

\* The sample's units are all of the access unit, or those before the filler data that are skipped.
LEMMA SampleUnitsFacts ==
    ASSUME job \in Jobs, IsAccessUnit
    PROVE  /\ SampleUnits \in SliceNth .. Len(Own)
           /\ SampleUnits < Len(Own) => /\ job.codec = "avc1" /\ job.skip_filler
                                        /\ Own[SampleUnits + 1].type = "FILLER"
           /\ \A i \in 1 .. SampleUnits : ~(job.codec = "avc1" /\ job.skip_filler /\ Own[i].type = "FILLER")
<1>1. Own \in Seq(Unit) /\ Len(Own) \in Nat
  BY JobFacts
<1>2. /\ SliceNth \in 1 .. Len(Own) /\ IsSlice(Own[SliceNth])
  BY SliceFacts DEF IsAccessUnit
<1>3. CASE Skipped = {}
  <2>1. SampleUnits = Len(Own)
    BY <1>3 DEF SampleUnits
  <2>2. \A i \in 1 .. Len(Own) : ~(job.codec = "avc1" /\ job.skip_filler /\ Own[i].type = "FILLER")
    BY <1>1, <1>3 DEF Skipped
  <2>3. QED
    BY <1>1, <1>2, <2>1, <2>2
<1>4. CASE Skipped # {}
  <2>1. Skipped = {i \in 1 .. Len(Own) : job.codec = "avc1" /\ job.skip_filler /\ Own[i].type = "FILLER"}
    BY <1>1 DEF Skipped
  <2>2. Skipped \subseteq Nat
    BY <1>1, <2>1
  <2>3. \E x \in Skipped : \A y \in Skipped : x <= y
    BY <1>4, <2>2, LeastNat
  <2> DEFINE m == Min(Skipped)
  <2>4. m \in Skipped /\ \A y \in Skipped : m <= y
    BY <2>3 DEF Min
  <2>5. SampleUnits = m - 1
    BY <1>4 DEF SampleUnits
  <2> HIDE DEF m
  <2>6. m \in 1 .. Len(Own) /\ job.codec = "avc1" /\ job.skip_filler /\ Own[m].type = "FILLER"
    BY <2>1, <2>4
  <2>7. OneAvc1Picture
    BY <2>6 DEF IsAccessUnit
  <2>8. SliceNth < m
    <3>1. ~(m < SliceNth)
      BY <1>1, <2>6, <2>7 DEF OneAvc1Picture
    <3>2. Own[SliceNth].type # "FILLER"
      BY <1>2 DEF IsSlice
    <3>3. QED
      BY <1>2, <2>6, <3>1, <3>2
  <2>9. ASSUME NEW i \in 1 .. SampleUnits
        PROVE  ~(job.codec = "avc1" /\ job.skip_filler /\ Own[i].type = "FILLER")
    <3>1. i \in 1 .. Len(Own) /\ ~(m <= i)
      BY <1>1, <2>5, <2>6
    <3>2. QED
      BY <2>1, <2>4, <3>1
  <2>10. QED
    BY <1>1, <1>2, <2>5, <2>6, <2>8, <2>9
<1>5. QED
  BY <1>3, <1>4

\* The sample's length is where the last of its units ends that is there as a whole.
LEMMA SampleLengthIs ==
    ASSUME job \in Jobs, IsAccessUnit,
           NEW n \in 0 .. SampleUnits, End(n) <= job.maxlength,
           n = SampleUnits \/ End(n + 1) > job.maxlength
    PROVE  SampleLength = End(n)
<1>1. SampleUnits \in Nat /\ SampleUnits <= Len(Nals) /\ Len(Nals) \in Nat
  BY SampleUnitsFacts, SliceFacts, JobFacts DEF IsAccessUnit
<1> DEFINE there == {End(m) : m \in {k \in 0 .. SampleUnits : End(k) <= job.maxlength}}
<1>2. SampleLength = CHOOSE x \in there : \A y \in there : x >= y
  BY DEF SampleLength, Max, End
<1>3. End(n) \in there
  OBVIOUS
<1>4. ASSUME NEW m \in 0 .. SampleUnits, End(m) <= job.maxlength
      PROVE  End(n) >= End(m)
  <2>1. n \in 0 .. Len(Nals) /\ m \in 0 .. Len(Nals)
    BY <1>1
  <2>2. CASE m <= n
    BY <2>1, <2>2, EndFacts
  <2>3. CASE n < m
    <3>1. n + 1 \in 0 .. Len(Nals) /\ n + 1 <= m /\ n # SampleUnits
      BY <1>1, <2>1, <2>3
    <3>2. End(n + 1) <= End(m) /\ End(n + 1) \in Nat /\ End(m) \in Nat
      BY <2>1, <3>1, EndFacts
    <3>3. job.maxlength \in Nat
      BY JobFacts
    <3>4. QED
      BY <1>4, <3>1, <3>2, <3>3
  <2>4. QED
    BY <1>1, <2>2, <2>3
<1>5. \A y \in there : End(n) >= y
  BY <1>4
<1>6. \A y \in there : y \in Nat
  <2>1. ASSUME NEW m \in 0 .. SampleUnits PROVE End(m) \in Nat
    <3>1. m \in 0 .. Len(Nals)
      BY <1>1
    <3>2. QED
      BY <3>1, EndFacts
  <2>2. QED
    BY <2>1
<1> HIDE DEF there
<1>7. SampleLength \in there /\ \A y \in there : SampleLength >= y
  BY <1>2, <1>3, <1>5
<1>8. SampleLength >= End(n) /\ End(n) >= SampleLength
  BY <1>3, <1>5, <1>7
<1>9. QED
  BY <1>3, <1>6, <1>7, <1>8

\* A step leaves the stream as it is, and what is said of it.
LEMMA JobStays ==
    ASSUME job' = job
    PROVE  /\ Nals' = Nals /\ Own' = Own /\ Following' = Following
           /\ (\A n : End(n)' = End(n))
           /\ SliceNth' = SliceNth /\ FirstSlice' = FirstSlice /\ SampleIsKey' = SampleIsKey
           /\ SampleUnits' = SampleUnits /\ SampleLength' = SampleLength
           /\ IsAccessUnit' <=> IsAccessUnit
           /\ SizeIsUsual' <=> SizeIsUsual
           /\ NextIsTold' <=> NextIsTold
           /\ ContinuesRightly' <=> ContinuesRightly
           /\ (\A n : IsKeyUpTo(n)' <=> IsKeyUpTo(n))
<1>1. Nals' = Nals /\ Own' = Own /\ Following' = Following
  BY DEF Nals, Own, Following
<1>2. \A n : End(n)' = End(n)
  BY <1>1 DEF End
<1>3. Slices' = Slices
  BY <1>1 DEF Slices
<1>4. SliceNth' = SliceNth
  BY <1>3 DEF SliceNth
<1>5. FirstSlice' = FirstSlice
  BY <1>1, <1>4 DEF FirstSlice
<1>6. SampleIsKey' = SampleIsKey
  BY <1>5 DEF SampleIsKey
<1>7. Skipped' = Skipped
  BY <1>1 DEF Skipped
<1>8. SampleUnits' = SampleUnits
  BY <1>1, <1>7 DEF SampleUnits
<1>9. SampleLength' = SampleLength
  BY <1>1, <1>8 DEF SampleLength
<1>10. OneAvc1Picture' <=> OneAvc1Picture
  BY <1>1, <1>4, <1>5 DEF OneAvc1Picture
<1>11. OneHvc1Picture' <=> OneHvc1Picture
  BY <1>1, <1>4, <1>5 DEF OneHvc1Picture
<1>12. IsAccessUnit' <=> IsAccessUnit
  BY <1>1, <1>3, <1>10, <1>11 DEF IsAccessUnit
<1>13. SizeIsUsual' <=> SizeIsUsual
  BY <1>1, <1>4, <1>6, <1>8 DEF SizeIsUsual, Allows, EffectiveStat
<1>14. NextIsTold' <=> NextIsTold
  BY <1>1, <1>5, <1>9 DEF NextIsTold, TellsAvc1, TellsHvc1
<1>15. ContinuesRightly' <=> ContinuesRightly
  BY <1>1, <1>9 DEF ContinuesRightly
<1>16. \A n : IsKeyUpTo(n)' <=> IsKeyUpTo(n)
  BY <1>1 DEF IsKeyUpTo
<1>17. QED
  BY <1>1, <1>2, <1>4, <1>5, <1>6, <1>8, <1>9, <1>12, <1>13, <1>14, <1>15, <1>16

-----------------------------------------------------------------------------
(* The invariant holds at the begin                                        *)

LEMMA InitInv == Init => IInv
<1> SUFFICES ASSUME Init PROVE IInv
  OBVIOUS
<1>1. job \in Jobs /\ pc = "walk" /\ nth = 1 /\ length = 0 /\ seen_slice = FALSE /\ was_keyframe = FALSE
      /\ previous_nal = <<>> /\ alternatives = <<>>
  BY DEF Init
<1>2. Nals \in Seq(Unit) /\ Len(Nals) \in Nat /\ job.maxlength \in Nat /\ job.maxlength >= 1
  BY <1>1, JobFacts
<1>3. End(0) = 0
  BY <1>2, EndsDef DEF End
<1>4. nth - 1 = 0 /\ Len(alternatives) = 0 /\ alternatives \in Seq(Nat)
  BY <1>1
<1>5. WalkInv
  <2>1. nth \in 1 .. Len(Nals) + 1 /\ length \in 0 .. job.maxlength
    BY <1>1, <1>2
  <2>2. length = End(nth - 1) /\ length <= End(nth - 1) /\ length < job.maxlength
    BY <1>1, <1>2, <1>3, <1>4
  <2>3. \A i \in 1 .. Len(alternatives) : alternatives[i] \in 1 .. job.maxlength /\ alternatives[i] <= End(nth - 1)
    BY <1>4
  <2>4. QED
    BY <1>1, <1>4, <2>1, <2>2, <2>3 DEF WalkInv
<1>6. MarkInv
  BY <1>1 DEF MarkInv
<1>7. SeenInv
  <2>1. IsAccessUnit => SliceNth \in 1 .. Len(Own) /\ Len(Own) \in Nat
    BY <1>1, SliceFacts, JobFacts DEF IsAccessUnit
  <2>2. IsAccessUnit => ~(nth > SliceNth) /\ ~(nth > 1)
    BY <1>1, <2>1
  <2>3. QED
    BY <1>1, <2>2 DEF SeenInv
<1>8. OnlyKeyInv
  BY <1>1 DEF OnlyKeyInv
<1>9. UnitInv
  <2>1. IsAccessUnit => SampleUnits \in Nat /\ SliceNth \in Nat
    BY <1>1, SampleUnitsFacts, SliceFacts, JobFacts DEF IsAccessUnit
  <2>2. QED
    BY <1>1, <2>1 DEF UnitInv
<1>10. QED
  BY <1>5, <1>6, <1>7, <1>8, <1>9 DEF IInv

-----------------------------------------------------------------------------
(* The steps                                                               *)

\* While it walks there is a unit at pos.
LEMMA NalIsThere ==
    ASSUME WalkInv, pc = "walk"
    PROVE  /\ nth \in 1 .. Len(Nals) /\ Len(Nals) \in Nat
           /\ Nal = Nals[nth] /\ Nal \in Unit
           /\ Nal.length \in Nat /\ Nal.length > 0
           /\ End(nth - 1) \in Nat /\ End(nth) \in Nat
           /\ length = End(nth - 1) /\ length + Nal.length = End(nth)
           /\ length \in Nat /\ job.maxlength \in Nat /\ length < job.maxlength
<1>1. job \in Jobs /\ nth \in 1 .. Len(Nals) + 1 /\ length = End(nth - 1) /\ length < job.maxlength /\ length \in 0 .. job.maxlength
  BY DEF WalkInv
<1>2. Len(Nals) \in Nat /\ job.maxlength \in Nat /\ job.maxlength <= End(Len(Nals))
  BY <1>1, JobFacts
<1>3. nth # Len(Nals) + 1
  <2>1. SUFFICES ASSUME nth = Len(Nals) + 1 PROVE FALSE
    OBVIOUS
  <2>2. nth - 1 = Len(Nals)
    BY <1>2, <2>1
  <2>3. End(Len(Nals)) \in Nat
    BY <1>1, <1>2, EndFacts
  <2>4. QED
    BY <1>1, <1>2, <2>2, <2>3
<1>4. nth \in 1 .. Len(Nals)
  BY <1>1, <1>2, <1>3
<1>5. /\ Nal = Nals[nth] /\ Nal \in Unit /\ Nal.length \in Nat /\ Nal.length > 0
      /\ End(nth - 1) \in Nat /\ End(nth) \in Nat /\ End(nth) = End(nth - 1) + Nal.length
  BY <1>1, <1>4, NalFacts DEF Nal
<1>6. QED
  BY <1>1, <1>2, <1>4, <1>5

\* The walk ends at the unit it stands at.
LEMMA ReturnWalk ==
    ASSUME WalkInv, pc = "walk", job' = job, nth' = nth, length' = length, alternatives' = alternatives,
           Return(alternatives),
           was_keyframe' \in BOOLEAN, seen_slice' \in BOOLEAN,
           previous_nal' = previous_nal \/ previous_nal' = <<Nal>>
    PROVE  WalkInv' /\ pc' # "walk"
<1>1. Nals' = Nals /\ \A n : End(n)' = End(n)
  BY JobStays
<1>2. pc' \in {"choose", "done"} /\ (pc' = "choose" => alternatives # <<>>)
  BY DEF Return
<1>3. job \in Jobs /\ nth \in 1 .. Len(Nals) + 1 /\ length \in 0 .. job.maxlength /\ length <= End(nth - 1)
      /\ length = End(nth - 1)
  BY DEF WalkInv
<1>4. alternatives \in Seq(Nat) /\ (alternatives # <<>> => job.codec = "hvc1")
      /\ \A i \in 1 .. Len(alternatives) : alternatives[i] \in 1 .. job.maxlength /\ alternatives[i] <= End(nth - 1)
  BY DEF WalkInv
<1>5. previous_nal' # <<>> => \E k \in 1 .. nth : previous_nal' = <<Nals[k]>>
  <2>1. previous_nal # <<>> => \E k \in 1 .. nth : previous_nal = <<Nals[k]>>
    BY DEF WalkInv
  <2>2. nth \in 1 .. nth /\ Nal = Nals[nth]
    BY NalIsThere DEF Nal
  <2>3. QED
    BY <2>1, <2>2
<1>6. length' <= End(nth - 1)' /\ length' = End(nth - 1)'
  BY <1>1, <1>3
<1>7. \A i \in 1 .. Len(alternatives') : alternatives'[i] \in 1 .. job'.maxlength /\ alternatives'[i] <= End(nth - 1)'
  BY <1>1, <1>4
<1>8. WalkInv'
  BY <1>1, <1>2, <1>3, <1>4, <1>5, <1>6, <1>7 DEF WalkInv
<1>9. QED
  BY <1>2, <1>8

\* The walk takes the unit it stands at, and may have noted the length before it.
LEMMA AdvanceWalk ==
    ASSUME WalkInv, pc = "walk", job' = job, Nal.length <= MaxLength,
           Advance(alternatives'),
           \/ alternatives' = alternatives
           \/ alternatives' = Append(alternatives, length) /\ length > 0 /\ job.codec = "hvc1",
           was_keyframe' \in BOOLEAN, seen_slice' \in BOOLEAN,
           previous_nal' = previous_nal \/ previous_nal' = <<Nal>>
    PROVE  /\ WalkInv'
           /\ nth' = nth + 1 /\ length' = End(nth)
           /\ IF length' = job.maxlength THEN pc' # "walk" ELSE pc' = "walk"
<1>1. Nals' = Nals /\ \A n : End(n)' = End(n)
  BY JobStays
<1>2. /\ nth \in 1 .. Len(Nals) /\ Len(Nals) \in Nat
      /\ Nal = Nals[nth] /\ Nal.length \in Nat /\ Nal.length > 0
      /\ End(nth - 1) \in Nat /\ End(nth) \in Nat
      /\ length = End(nth - 1) /\ length + Nal.length = End(nth)
      /\ length \in Nat /\ job.maxlength \in Nat /\ length < job.maxlength
  BY NalIsThere
<1>3. nth' = nth + 1 /\ length' = End(nth)
  BY <1>2 DEF Advance
<1>4. length' <= job.maxlength
  <2>1. Nal.length <= job.maxlength - length
    BY DEF MaxLength
  <2>2. QED
    BY <1>2, <1>3, <2>1
<1>5. nth' - 1 = nth /\ nth' \in 1 .. Len(Nals) + 1
  BY <1>2, <1>3
<1>6. End(nth - 1)' = End(nth)
  BY <1>1, <1>5
<1>7. /\ IF length' = job.maxlength THEN pc' \in {"choose", "done"} ELSE pc' = "walk"
      /\ pc' = "choose" => alternatives' # <<>>
  BY DEF Advance, Return
<1>8. /\ alternatives \in Seq(Nat) /\ (alternatives # <<>> => job.codec = "hvc1")
      /\ \A i \in 1 .. Len(alternatives) : alternatives[i] \in 1 .. job.maxlength /\ alternatives[i] <= End(nth - 1)
  BY DEF WalkInv
<1>9. /\ alternatives' \in Seq(Nat) /\ (alternatives' # <<>> => job.codec = "hvc1")
      /\ \A i \in 1 .. Len(alternatives') : alternatives'[i] \in 1 .. job.maxlength /\ alternatives'[i] <= End(nth)
  <2>1. CASE alternatives' = alternatives
    <3>1. ASSUME NEW i \in 1 .. Len(alternatives)
          PROVE  alternatives[i] \in 1 .. job.maxlength /\ alternatives[i] <= End(nth)
      <4>1. alternatives[i] \in 1 .. job.maxlength /\ alternatives[i] <= End(nth - 1)
        BY <1>8
      <4>2. QED
        BY <1>2, <4>1
    <3>2. QED
      BY <1>8, <2>1, <3>1
  <2>2. CASE alternatives' = Append(alternatives, length) /\ length > 0 /\ job.codec = "hvc1"
    <3>1. alternatives' \in Seq(Nat) /\ Len(alternatives') = Len(alternatives) + 1 /\ Len(alternatives) \in Nat
      BY <1>2, <1>8, <2>2, AppendProperties, LenProperties
    <3>2. ASSUME NEW i \in 1 .. Len(alternatives')
          PROVE  alternatives'[i] \in 1 .. job.maxlength /\ alternatives'[i] <= End(nth)
      <4>1. CASE i \in 1 .. Len(alternatives)
        <5>1. alternatives'[i] = alternatives[i]
          BY <1>2, <1>8, <2>2, <4>1, AppendProperties
        <5>2. alternatives[i] \in 1 .. job.maxlength /\ alternatives[i] <= End(nth - 1)
          BY <1>8, <4>1
        <5>3. QED
          BY <1>2, <5>1, <5>2
      <4>2. CASE i = Len(alternatives) + 1
        <5>1. alternatives'[i] = length
          BY <1>2, <1>8, <2>2, <4>2, AppendProperties
        <5>2. QED
          BY <1>2, <2>2, <5>1
      <4>3. QED
        BY <3>1, <4>1, <4>2
    <3>3. QED
      BY <2>2, <3>1, <3>2
  <2>3. QED
    BY <2>1, <2>2
<1>10. previous_nal' # <<>> => \E k \in 1 .. nth' : previous_nal' = <<Nals[k]>>
  <2>1. previous_nal # <<>> => \E k \in 1 .. nth : previous_nal = <<Nals[k]>>
    BY DEF WalkInv
  <2>2. nth \in 1 .. nth' /\ \A k \in 1 .. nth : k \in 1 .. nth'
    BY <1>2, <1>3
  <2>3. QED
    BY <1>2, <2>1, <2>2
<1>11. /\ length' \in 0 .. job.maxlength /\ length' <= End(nth - 1)' /\ length' = End(nth - 1)'
       /\ pc' = "walk" => length' < job.maxlength
  <2>1. length' \in 0 .. job.maxlength
    BY <1>2, <1>3, <1>4
  <2>2. length' = End(nth - 1)' /\ length' <= End(nth - 1)'
    BY <1>2, <1>3, <1>6
  <2>3. ASSUME pc' = "walk" PROVE length' < job.maxlength
    <3>1. length' # job.maxlength
      BY <1>7, <2>3
    <3>2. QED
      BY <1>2, <2>1, <3>1
  <2>4. QED
    BY <2>1, <2>2, <2>3
<1>12. \A i \in 1 .. Len(alternatives') : alternatives'[i] \in 1 .. job'.maxlength /\ alternatives'[i] <= End(nth - 1)'
  BY <1>6, <1>9
<1>13. job' \in Jobs /\ pc' \in {"walk", "choose", "done"} /\ nth' \in (1 .. Len(Nals) + 1)'
  BY <1>1, <1>5, <1>7 DEF WalkInv
<1>14. WalkInv'
  BY <1>1, <1>7, <1>9, <1>10, <1>11, <1>12, <1>13 DEF WalkInv
<1>15. QED
  BY <1>3, <1>7, <1>14

\* The choice is among the lengths noted and the one the walk came to.
LEMMA ChosenLength ==
    ASSUME WalkInv, Choose
    PROVE  /\ length' \in 0 .. job.maxlength /\ length' <= End(nth - 1)
           /\ length = End(nth - 1) /\ length \in Nat
<1> DEFINE sizes == Append(alternatives, length)
           matching == {i \in DOMAIN sizes : MatchesAt(sizes[i])}
<1>1. /\ pc = "choose" /\ length' = FindSizeWithContinuation(sizes)
  BY DEF Choose
<1>2. /\ alternatives \in Seq(Nat) /\ length \in 0 .. job.maxlength /\ length = End(nth - 1) /\ job.maxlength \in Nat
      /\ \A i \in 1 .. Len(alternatives) : alternatives[i] \in 1 .. job.maxlength /\ alternatives[i] <= End(nth - 1)
  BY <1>1, JobFacts DEF WalkInv
<1>3. length \in Nat
  BY <1>2
<1>4. sizes \in Seq(Nat) /\ Len(sizes) = Len(alternatives) + 1 /\ Len(alternatives) \in Nat
  BY <1>2, <1>3, AppendProperties, LenProperties
<1>5. ASSUME NEW i \in 1 .. Len(sizes)
      PROVE  sizes[i] \in 0 .. job.maxlength /\ sizes[i] <= length
  <2>1. CASE i \in 1 .. Len(alternatives)
    <3>1. sizes[i] = alternatives[i]
      BY <1>2, <1>3, <2>1, AppendProperties
    <3>2. alternatives[i] \in 1 .. job.maxlength /\ alternatives[i] <= length
      BY <1>2, <2>1
    <3>3. QED
      BY <1>2, <3>1, <3>2
  <2>2. CASE i = Len(alternatives) + 1
    <3>1. sizes[i] = length
      BY <1>2, <1>3, <2>2, AppendProperties
    <3>2. QED
      BY <1>2, <1>3, <3>1
  <2>3. QED
    BY <1>4, <2>1, <2>2
<1>6. \E i \in 1 .. Len(sizes) : length' = sizes[i]
  <2> HIDE DEF sizes
  <2>1. DOMAIN sizes = 1 .. Len(sizes) /\ Len(sizes) \in 1 .. Len(sizes)
    BY <1>4
  <2>2. CASE job.continues /\ matching # {}
    <3>1. length' = sizes[Max(matching)]
      BY <1>1, <2>2 DEF FindSizeWithContinuation
    <3>2. matching \subseteq 1 .. Len(sizes) /\ Len(sizes) \in Nat
      BY <1>4, <2>1
    <3> HIDE DEF matching
    <3>3. \E x \in matching : \A y \in matching : x >= y
      BY <2>2, <3>2, GreatestNat
    <3>4. Max(matching) \in matching
      BY <3>3 DEF Max
    <3>5. QED
      BY <3>1, <3>2, <3>4
  <2>3. CASE ~(job.continues /\ matching # {})
    <3>1. length' = Last(sizes)
      BY <1>1, <2>3 DEF FindSizeWithContinuation
    <3>2. QED
      BY <2>1, <3>1 DEF Last
  <2>4. QED
    BY <2>2, <2>3
<1>7. QED
  BY <1>2, <1>3, <1>5, <1>6

LEMMA MarkIsBoolean ==
    ASSUME WalkInv
    PROVE  MarkKeyframe(Nal) \in BOOLEAN
BY DEF WalkInv, MarkKeyframe, IsKeyframe

\* What TakeAvc1 and TakeHvc1 do, as far as one of the two lemmas above applies.
LEMMA TakeAvc1Facts ==
    ASSUME WalkInv, TakeAvc1
    PROVE  /\ pc = "walk" /\ job' = job /\ job.codec = "avc1" /\ alternatives' = alternatives
           /\ Parses(Nal) /\ Nal.length <= MaxLength /\ ~ EndsAvc1(Nal)
           /\ was_keyframe' = MarkKeyframe(Nal) /\ was_keyframe' \in BOOLEAN /\ seen_slice' \in BOOLEAN
           /\ IF IsSlice(Nal) /\ ~ seen_slice
              THEN seen_slice' = Nal.decodes /\ previous_nal' = <<Nal>>
              ELSE seen_slice' = seen_slice /\ previous_nal' = previous_nal
           /\ WalkInv'
           /\ \/ WouldExceed(Nal.length, was_keyframe') /\ nth' = nth /\ length' = length /\ pc' # "walk"
              \/ /\ ~ WouldExceed(Nal.length, was_keyframe') /\ nth' = nth + 1 /\ length' = End(nth)
                 /\ IF length' = job.maxlength THEN pc' # "walk" ELSE pc' = "walk"
<1>1. pc = "walk" /\ job' = job /\ job.codec = "avc1" /\ alternatives' = alternatives
  BY DEF TakeAvc1, Reads
<1>2. Parses(Nal) /\ Nal.length <= MaxLength /\ ~ EndsAvc1(Nal)
  BY DEF TakeAvc1, Reads, Parses
<1>3. was_keyframe' = MarkKeyframe(Nal) /\ was_keyframe' \in BOOLEAN
  BY MarkIsBoolean DEF TakeAvc1
<1>4. IF IsSlice(Nal) /\ ~ seen_slice
      THEN seen_slice' = Nal.decodes /\ previous_nal' = <<Nal>>
      ELSE seen_slice' = seen_slice /\ previous_nal' = previous_nal
  BY DEF TakeAvc1
<1>5. seen_slice' \in BOOLEAN
  <2>1. Nal.decodes \in BOOLEAN
    BY <1>1, NalIsThere DEF Unit
  <2>2. seen_slice \in BOOLEAN
    BY DEF WalkInv
  <2>3. QED
    BY <1>4, <2>1, <2>2
<1>6. previous_nal' = previous_nal \/ previous_nal' = <<Nal>>
  BY <1>4
<1>7. CASE WouldExceed(Nal.length, was_keyframe')
  <2>1. Return(alternatives) /\ nth' = nth /\ length' = length
    BY <1>7 DEF TakeAvc1
  <2>2. WalkInv' /\ pc' # "walk"
    BY <1>1, <1>3, <1>5, <1>6, <2>1, ReturnWalk
  <2>3. QED
    BY <1>1, <1>2, <1>3, <1>4, <1>5, <1>6, <1>7, <2>1, <2>2
<1>8. CASE ~ WouldExceed(Nal.length, was_keyframe')
  <2>1. Advance(alternatives')
    BY <1>1, <1>8 DEF TakeAvc1
  <2>2. /\ WalkInv' /\ nth' = nth + 1 /\ length' = End(nth)
        /\ IF length' = job.maxlength THEN pc' # "walk" ELSE pc' = "walk"
    BY <1>1, <1>2, <1>3, <1>5, <1>6, <2>1, AdvanceWalk
  <2>3. QED
    BY <1>1, <1>2, <1>3, <1>4, <1>5, <1>6, <1>8, <2>2
<1>9. QED
  BY <1>7, <1>8

LEMMA TakeHvc1Facts ==
    ASSUME WalkInv, TakeHvc1
    PROVE  /\ pc = "walk" /\ job' = job /\ job.codec = "hvc1"
           /\ Parses(Nal) /\ Nal.length <= MaxLength /\ ~ EndsHvc1(Nal)
           /\ was_keyframe' = MarkKeyframe(Nal) /\ was_keyframe' \in BOOLEAN
           /\ seen_slice' = (seen_slice \/ IsSlice(Nal)) /\ seen_slice' \in BOOLEAN
           /\ WalkInv'
           /\ \/ /\ WouldExceed(Nal.length, job.allow_large \/ was_keyframe')
                 /\ nth' = nth /\ length' = length /\ pc' # "walk"
              \/ /\ ~ WouldExceed(Nal.length, job.allow_large \/ was_keyframe')
                 /\ nth' = nth + 1 /\ length' = End(nth) /\ previous_nal' = <<Nal>>
                 /\ IF length' = job.maxlength THEN pc' # "walk" ELSE pc' = "walk"
<1>1. pc = "walk" /\ job' = job /\ job.codec = "hvc1"
  BY DEF TakeHvc1, Reads
<1>2. Parses(Nal) /\ Nal.length <= MaxLength /\ ~ EndsHvc1(Nal)
  BY DEF TakeHvc1, Reads, Parses
<1>3. was_keyframe' = MarkKeyframe(Nal) /\ was_keyframe' \in BOOLEAN
  BY MarkIsBoolean DEF TakeHvc1
<1>4. seen_slice' = (seen_slice \/ IsSlice(Nal)) /\ seen_slice' \in BOOLEAN
  BY DEF TakeHvc1, WalkInv, IsSlice
<1>5. CASE WouldExceed(Nal.length, job.allow_large \/ was_keyframe')
  <2>1. Return(alternatives) /\ nth' = nth /\ length' = length /\ previous_nal' = previous_nal /\ alternatives' = alternatives
    BY <1>5 DEF TakeHvc1
  <2>2. WalkInv' /\ pc' # "walk"
    BY <1>1, <1>3, <1>4, <2>1, ReturnWalk
  <2>3. QED
    BY <1>1, <1>2, <1>3, <1>4, <1>5, <2>1, <2>2
<1>6. CASE ~ WouldExceed(Nal.length, job.allow_large \/ was_keyframe')
  <2>1. /\ Advance(alternatives') /\ previous_nal' = <<Nal>>
        /\ alternatives' = IF IsBigEnough(was_keyframe') THEN Append(alternatives, length) ELSE alternatives
    BY <1>6 DEF TakeHvc1
  <2>2. IsBigEnough(was_keyframe') => length > 0
    <3>1. EffectiveStat(was_keyframe').lower_bound \in Nat
      BY <1>3, JobFacts DEF WalkInv
    <3>2. length \in Nat
      BY <1>1, NalIsThere
    <3>3. QED
      BY <3>1, <3>2 DEF IsBigEnough
  <2>3. \/ alternatives' = alternatives
        \/ alternatives' = Append(alternatives, length) /\ length > 0 /\ job.codec = "hvc1"
    BY <1>1, <2>1, <2>2
  <2>4. /\ WalkInv' /\ nth' = nth + 1 /\ length' = End(nth)
        /\ IF length' = job.maxlength THEN pc' # "walk" ELSE pc' = "walk"
    BY <1>1, <1>2, <1>3, <1>4, <2>1, <2>3, AdvanceWalk
  <2>5. QED
    BY <1>1, <1>2, <1>3, <1>4, <1>6, <2>1, <2>4
<1>7. QED
  BY <1>5, <1>6

\* The three steps that end the walk at the unit it stands at.
EndsWalk == NoNal \/ EndAvc1 \/ EndHvc1

LEMMA EndsWalkFacts ==
    ASSUME WalkInv, EndsWalk
    PROVE  /\ pc = "walk" /\ job' = job /\ nth' = nth /\ length' = length /\ pc' # "walk"
           /\ (was_keyframe' = was_keyframe \/ (was_keyframe' = MarkKeyframe(Nal) /\ job.codec = "hvc1"))
           /\ WalkInv'
<1>1. /\ pc = "walk" /\ job' = job /\ nth' = nth /\ length' = length /\ alternatives' = alternatives
      /\ seen_slice' = seen_slice /\ previous_nal' = previous_nal /\ Return(alternatives)
  BY DEF EndsWalk, NoNal, EndAvc1, EndHvc1, Reads
<1>2. (was_keyframe' = was_keyframe \/ (was_keyframe' = MarkKeyframe(Nal) /\ job.codec = "hvc1"))
  BY DEF EndsWalk, NoNal, EndAvc1, EndHvc1, Reads
<1>3. was_keyframe' \in BOOLEAN /\ seen_slice' \in BOOLEAN
  <2>1. was_keyframe \in BOOLEAN /\ seen_slice \in BOOLEAN
    BY DEF WalkInv
  <2>2. QED
    BY <1>1, <1>2, <2>1, MarkIsBoolean
<1>4. WalkInv' /\ pc' # "walk"
  BY <1>1, <1>3, ReturnWalk
<1>5. QED
  BY <1>1, <1>2, <1>4

LEMMA ChooseFacts ==
    ASSUME WalkInv, Choose
    PROVE  /\ pc = "choose" /\ pc' = "done" /\ job' = job /\ nth' = nth /\ was_keyframe' = was_keyframe
           /\ length' \in Nat /\ length \in Nat /\ length' <= length
           /\ WalkInv'
<1>1. /\ pc = "choose" /\ pc' = "done" /\ job' = job /\ nth' = nth /\ was_keyframe' = was_keyframe
      /\ seen_slice' = seen_slice /\ previous_nal' = previous_nal /\ alternatives' = alternatives
  BY DEF Choose
<1>2. Nals' = Nals /\ \A n : End(n)' = End(n)
  BY <1>1, JobStays
<1>3. /\ length' \in 0 .. job.maxlength /\ length' <= End(nth - 1)
      /\ length = End(nth - 1) /\ length \in Nat
  BY ChosenLength
<1>4. job.maxlength \in Nat
  BY JobFacts DEF WalkInv
<1>5. End(nth - 1)' = End(nth - 1)
  BY <1>1, <1>2
<1>6. \A i \in 1 .. Len(alternatives') : alternatives'[i] \in 1 .. job'.maxlength /\ alternatives'[i] <= End(nth - 1)'
  BY <1>1, <1>5 DEF WalkInv
<1>7. previous_nal' # <<>> => \E k \in 1 .. nth' : previous_nal' = <<Nals'[k]>>
  BY <1>1, <1>2 DEF WalkInv
<1>8. WalkInv'
  BY <1>1, <1>2, <1>3, <1>5, <1>6, <1>7 DEF WalkInv
<1>9. QED
  BY <1>1, <1>3, <1>4, <1>8

\* Of one step: what moves, for the invariants that follow.
LEMMA StepWalk ==
    ASSUME WalkInv, [Next]_vars
    PROVE  WalkInv' /\ job' = job
<1>1. CASE EndsWalk
  BY <1>1, EndsWalkFacts
<1>2. CASE TakeAvc1
  BY <1>2, TakeAvc1Facts
<1>3. CASE TakeHvc1
  BY <1>3, TakeHvc1Facts
<1>4. CASE Choose
  BY <1>4, ChooseFacts
<1>5. CASE UNCHANGED vars
  <2>1. job' = job /\ Nals' = Nals /\ \A n : End(n)' = End(n)
    BY <1>5, JobStays DEF vars
  <2>2. /\ pc' = pc /\ nth' = nth /\ length' = length /\ seen_slice' = seen_slice /\ was_keyframe' = was_keyframe
        /\ previous_nal' = previous_nal /\ alternatives' = alternatives
    BY <1>5 DEF vars
  <2>3. End(nth - 1)' = End(nth - 1)
    BY <2>1, <2>2
  <2>4. QED
    BY <2>1, <2>2, <2>3 DEF WalkInv
<1>6. QED
  BY <1>1, <1>2, <1>3, <1>4, <1>5 DEF Next, EndsWalk

-----------------------------------------------------------------------------
(* Marking                                                                 *)

\* A mark stays, and a unit taken has left its own.
LEMMA StepMark ==
    ASSUME WalkInv, MarkInv, [Next]_vars
    PROVE  MarkInv'
<1>1. WalkInv' /\ job' = job /\ Nals' = Nals
  BY StepWalk, JobStays
<1>2. nth \in Nat
  BY JobFacts DEF WalkInv
<1>3. (was_keyframe => was_keyframe') /\ (nth' = nth \/ (pc = "walk" /\ nth' = nth + 1 /\ was_keyframe' = MarkKeyframe(Nal)))
  <2>1. CASE EndsWalk
    <3>1. nth' = nth /\ (was_keyframe' = was_keyframe \/ was_keyframe' = MarkKeyframe(Nal))
      BY <2>1, EndsWalkFacts
    <3>2. was_keyframe => MarkKeyframe(Nal)
      BY DEF MarkKeyframe
    <3>3. was_keyframe => was_keyframe'
      BY <3>1, <3>2, Zenon
    <3>4. QED
      BY <3>1, <3>3
  <2>2. CASE TakeAvc1 \/ TakeHvc1
    <3>1. pc = "walk" /\ nth' \in {nth, nth + 1} /\ was_keyframe' = MarkKeyframe(Nal)
      BY <2>2, TakeAvc1Facts, TakeHvc1Facts
    <3>2. QED
      BY <3>1 DEF MarkKeyframe
  <2>3. CASE Choose \/ UNCHANGED vars
    <3>1. nth' = nth /\ was_keyframe' = was_keyframe
      BY <2>3, ChooseFacts DEF vars
    <3>2. QED
      BY <3>1
  <2>4. QED
    BY <2>1, <2>2, <2>3 DEF EndsWalk, Next
<1>4. ASSUME NEW k \in 1 .. nth' - 1, IsKeyframe(Nals[k])
      PROVE  was_keyframe'
  <2>1. CASE k \in 1 .. nth - 1
    BY <1>3, <1>4, <2>1 DEF MarkInv
  <2>2. CASE k \notin 1 .. nth - 1
    <3>1. pc = "walk" /\ nth' = nth + 1 /\ was_keyframe' = MarkKeyframe(Nal)
      BY <1>3, <2>2
    <3>2. k = nth
      BY <1>2, <2>2, <3>1
    <3>3. IsKeyframe(Nal)
      BY <1>4, <3>2 DEF Nal
    <3>4. QED
      BY <3>1, <3>3 DEF MarkKeyframe
  <2>3. QED
    BY <2>1, <2>2
<1>5. QED
  BY <1>1, <1>4 DEF MarkInv

-----------------------------------------------------------------------------
(* What has been seen of an access unit                                    *)

LEMMA AccessUnitFacts ==
    ASSUME job \in Jobs, IsAccessUnit
    PROVE  /\ SliceNth \in Nat /\ SliceNth >= 1 /\ SliceNth <= SampleUnits /\ SampleUnits <= Len(Own)
           /\ SampleUnits \in Nat /\ Len(Own) \in Nat /\ Len(Own) <= Len(Nals) /\ Len(Nals) \in Nat
           /\ FirstSlice = Nals[SliceNth] /\ FirstSlice = Own[SliceNth] /\ IsSlice(FirstSlice)
           /\ \A i \in 1 .. Len(Own) : Nals[i] = Own[i] /\ i \in DOMAIN Own
           /\ \A i \in 1 .. Len(Own) : IsSlice(Nals[i]) => SliceNth <= i
           /\ \A i \in 1 .. Len(Own) : Nals[i].type # "none" /\ ~ Nals[i].forbidden
<1>1. Slices # {}
  BY DEF IsAccessUnit
<1>2. Own \in Seq(Unit) /\ DOMAIN Own = 1 .. Len(Own)
  BY JobFacts
<1>3. \A i \in 1 .. Len(Own) : Own[i].type # "none" /\ ~ Own[i].forbidden
  BY <1>2 DEF IsAccessUnit
<1>4. QED
  BY <1>1, <1>2, <1>3, SliceFacts, SampleUnitsFacts, JobFacts

LEMMA StepSeen ==
    ASSUME WalkInv, SeenInv, [Next]_vars
    PROVE  SeenInv'
<1>1. /\ WalkInv' /\ job' = job /\ Nals' = Nals /\ FirstSlice' = FirstSlice /\ SliceNth' = SliceNth
      /\ IsAccessUnit' <=> IsAccessUnit
  BY StepWalk, JobStays
<1>2. SUFFICES ASSUME IsAccessUnit, pc' = "walk"
               PROVE  /\ seen_slice' <=> nth' > SliceNth
                      /\ job.codec = "avc1" => previous_nal' = IF nth' > SliceNth THEN <<FirstSlice>> ELSE <<>>
                      /\ job.codec = "hvc1" => previous_nal' = IF nth' > 1 THEN <<Nals[nth' - 1]>> ELSE <<>>
  BY <1>1 DEF SeenInv
<1>3. job \in Jobs /\ nth \in Nat /\ nth >= 1
  BY JobFacts DEF WalkInv
<1>4. SliceNth \in Nat /\ SliceNth >= 1
  BY <1>2, <1>3, AccessUnitFacts
<1>5. CASE EndsWalk \/ Choose
  BY <1>2, <1>5, EndsWalkFacts, ChooseFacts
<1>6. CASE TakeAvc1 \/ TakeHvc1
  <2>1. pc = "walk"
    BY <1>6, TakeAvc1Facts, TakeHvc1Facts
  <2>2. nth' = nth + 1
    BY <1>2, <1>6, TakeAvc1Facts, TakeHvc1Facts
  <2>3. /\ seen_slice <=> nth > SliceNth
        /\ job.codec = "avc1" => previous_nal = IF nth > SliceNth THEN <<FirstSlice>> ELSE <<>>
    BY <1>2, <2>1 DEF SeenInv
  <2>4. ASSUME nth <= SliceNth
        PROVE  IsSlice(Nal) <=> nth = SliceNth
    <3>1. nth \in 1 .. Len(Own)
      BY <1>2, <1>3, <2>4, AccessUnitFacts
    <3>2. CASE nth = SliceNth
      BY <1>2, <1>3, <3>2, AccessUnitFacts DEF Nal
    <3>3. CASE nth # SliceNth
      <4>1. ~(SliceNth <= nth)
        BY <1>3, <1>4, <2>4, <3>3
      <4>2. QED
        BY <1>2, <1>3, <3>1, <3>3, <4>1, AccessUnitFacts DEF Nal
    <3>4. QED
      BY <3>2, <3>3
  <2>5. CASE TakeAvc1
    <3>1. /\ job.codec = "avc1"
          /\ IF IsSlice(Nal) /\ ~ seen_slice
             THEN seen_slice' = Nal.decodes /\ previous_nal' = <<Nal>>
             ELSE seen_slice' = seen_slice /\ previous_nal' = previous_nal
      BY <2>5, TakeAvc1Facts
    <3>2. FirstSlice.decodes
      BY <1>2, <3>1 DEF IsAccessUnit, OneAvc1Picture
    <3>3. CASE nth > SliceNth
      <4>1. seen_slice /\ previous_nal = <<FirstSlice>> /\ nth' > SliceNth
        BY <1>3, <1>4, <2>2, <2>3, <3>1, <3>3
      <4>2. QED
        BY <3>1, <4>1
    <3>4. CASE nth = SliceNth
      <4>1. ~ seen_slice /\ IsSlice(Nal) /\ Nal = FirstSlice /\ nth' > SliceNth
        BY <1>2, <1>3, <1>4, <2>2, <2>3, <2>4, <3>4, AccessUnitFacts DEF Nal
      <4>2. QED
        BY <3>1, <3>2, <4>1
    <3>5. CASE nth < SliceNth
      <4>1. ~ seen_slice /\ ~ IsSlice(Nal) /\ ~(nth' > SliceNth) /\ previous_nal = <<>>
        BY <1>3, <1>4, <2>2, <2>3, <2>4, <3>1, <3>5
      <4>2. QED
        BY <3>1, <4>1
    <3>6. QED
      BY <1>3, <1>4, <3>3, <3>4, <3>5
  <2>6. CASE TakeHvc1
    <3>1. /\ job.codec = "hvc1" /\ previous_nal' = <<Nal>>
          /\ seen_slice' = (seen_slice \/ IsSlice(Nal))
      BY <1>2, <2>6, TakeHvc1Facts
    <3>2. nth' > 1 /\ nth' - 1 = nth
      BY <1>3, <2>2
    <3>3. seen_slice' <=> nth' > SliceNth
      <4>1. CASE nth > SliceNth
        <5>1. nth' > SliceNth
          BY <1>3, <1>4, <2>2, <4>1
        <5>2. QED
          BY <2>3, <3>1, <4>1, <5>1
      <4>2. CASE nth = SliceNth
        <5>1. nth' > SliceNth /\ nth <= SliceNth
          BY <1>3, <1>4, <2>2, <4>2
        <5>2. QED
          BY <2>4, <3>1, <4>2, <5>1
      <4>3. CASE nth < SliceNth
        <5>1. ~(nth' > SliceNth) /\ ~(nth > SliceNth) /\ nth <= SliceNth /\ nth # SliceNth
          BY <1>3, <1>4, <2>2, <4>3
        <5>2. QED
          BY <2>3, <2>4, <3>1, <5>1
      <4>4. QED
        BY <1>3, <1>4, <4>1, <4>2, <4>3
    <3>4. QED
      BY <3>1, <3>2, <3>3 DEF Nal
  <2>7. QED
    BY <1>6, <2>5, <2>6
<1>7. CASE UNCHANGED vars
  <2>1. pc = "walk" /\ seen_slice' = seen_slice /\ nth' = nth /\ previous_nal' = previous_nal
    BY <1>2, <1>7 DEF vars
  <2>2. QED
    BY <1>2, <2>1 DEF SeenInv
<1>8. QED
  BY <1>5, <1>6, <1>7 DEF Next, EndsWalk

\* A unit of a sample of usual size does not exceed the limit: is_keyframe is what the mark is by then.
LEMMA SizeSuffices ==
    ASSUME WalkInv, pc = "walk", IsAccessUnit, SizeIsUsual, nth <= SampleUnits,
           NEW is_keyframe \in BOOLEAN, is_keyframe <=> SampleIsKey /\ nth >= SliceNth,
           NEW large \in BOOLEAN, large <=> is_keyframe \/ (job.codec = "hvc1" /\ job.allow_large)
    PROVE  ~ WouldExceed(Nal.length, large)
<1> DEFINE n == IF nth >= SliceNth THEN SampleUnits ELSE SliceNth - 1
           limit == EffectiveStat(large).upper_bound
<1>1. /\ job \in Jobs
      /\ nth \in Nat /\ nth >= 1 /\ length + Nal.length = End(nth) /\ nth \in 0 .. Len(Nals)
      /\ End(nth) \in Nat
  BY NalIsThere DEF WalkInv
<1>2. SliceNth \in Nat /\ SliceNth >= 1 /\ SliceNth <= SampleUnits /\ SampleUnits \in Nat /\ SampleUnits <= Len(Nals)
      /\ Len(Nals) \in Nat
  BY <1>1, AccessUnitFacts
<1>3. n \in 0 .. Len(Nals) /\ nth <= n
  BY <1>1, <1>2
<1>4. End(nth) <= End(n) /\ End(n) \in Nat
  BY <1>1, <1>3, EndFacts
<1>5. Allows(is_keyframe, End(n))
  <2>1. CASE nth >= SliceNth
    <3>1. n = SampleUnits /\ (is_keyframe <=> SampleIsKey)
      BY <2>1
    <3>2. Allows(SampleIsKey, End(SampleUnits))
      BY DEF SizeIsUsual, End
    <3>3. QED
      BY <3>1, <3>2 DEF Allows, EffectiveStat
  <2>2. CASE ~(nth >= SliceNth)
    <3>1. n = SliceNth - 1 /\ is_keyframe = FALSE
      BY <2>2
    <3>2. Allows(FALSE, End(SliceNth - 1))
      BY DEF SizeIsUsual, End
    <3>3. QED
      BY <3>1, <3>2
  <2>3. QED
    BY <2>1, <2>2
<1> HIDE DEF n
<1>6. limit = 0 \/ End(n) <= limit
  BY <1>5 DEF Allows, EffectiveStat
<1>7. limit \in Nat
  BY <1>1, JobFacts
<1>8. limit = 0 \/ End(nth) <= limit
  BY <1>1, <1>4, <1>6, <1>7
<1> HIDE DEF limit
<1>9. ~(limit # 0 /\ length + Nal.length > limit)
  BY <1>1, <1>7, <1>8
<1>10. QED
  BY <1>9 DEF WouldExceed, limit

LEMMA StepOnlyKey ==
    ASSUME WalkInv, MarkInv, SeenInv, OnlyKeyInv, [Next]_vars
    PROVE  OnlyKeyInv'
<1>1. /\ WalkInv' /\ job' = job /\ (IsAccessUnit' <=> IsAccessUnit) /\ (SizeIsUsual' <=> SizeIsUsual)
      /\ (\A n : IsKeyUpTo(n)' <=> IsKeyUpTo(n))
  BY StepWalk, JobStays
<1>2. SUFFICES ASSUME job.codec = "avc1", IsAccessUnit, SizeIsUsual, was_keyframe'
               PROVE  IsKeyUpTo(length')
  <2>1. IsKeyUpTo(length)' <=> IsKeyUpTo(length')
    BY <1>1 DEF IsKeyUpTo, Nals, Content
  <2>2. QED
    BY <1>1, <2>1 DEF OnlyKeyInv
<1>3. /\ job \in Jobs /\ nth \in Nat /\ nth >= 1 /\ Len(Nals) \in Nat
      /\ was_keyframe => IsKeyUpTo(length)
  BY <1>2, JobFacts DEF WalkInv, OnlyKeyInv
<1>4. CASE EndsWalk
  BY <1>2, <1>3, <1>4, EndsWalkFacts
<1>5. CASE TakeAvc1
  <2>1. pc = "walk" /\ was_keyframe' = MarkKeyframe(Nal) /\ ~ EndsAvc1(Nal)
    BY <1>5, TakeAvc1Facts
  <2>2. /\ nth \in 1 .. Len(Nals) /\ Nal = Nals[nth] /\ length \in Nat /\ End(nth) \in Nat
        /\ length + Nal.length = End(nth) /\ Nal.length \in Nat
    BY <2>1, NalIsThere
  <2>3. length' = length \/ length' = End(nth)
    BY <1>5, TakeAvc1Facts
  <2>4. CASE was_keyframe
    <3>1. PICK k \in DOMAIN Nals : IsKeyframe(Nals[k]) /\ End(k) <= length
      BY <1>3, <2>4 DEF IsKeyUpTo, End
    <3>2. k \in 0 .. Len(Nals)
      BY <1>3, <3>1, JobFacts
    <3>3. End(k) \in Nat
      BY <1>3, <3>2, EndFacts
    <3>4. End(k) <= length'
      BY <2>2, <2>3, <3>1, <3>3
    <3>5. QED
      BY <3>1, <3>4 DEF IsKeyUpTo, End
  <2>5. CASE ~ was_keyframe
    <3>1. IsKeyframe(Nal) /\ IsSlice(Nal)
      BY <1>2, <2>1, <2>5 DEF MarkKeyframe, IsKeyframe, IsSlice
    <3>2. /\ SliceNth \in Nat /\ SliceNth >= 1 /\ SliceNth <= SampleUnits /\ SampleUnits \in Nat
          /\ SampleUnits <= Len(Own) /\ Len(Own) \in Nat
          /\ FirstSlice = Nals[SliceNth] /\ IsSlice(FirstSlice)
          /\ \A i \in 1 .. Len(Own) : IsSlice(Nals[i]) => SliceNth <= i
      BY <1>2, <1>3, AccessUnitFacts
    <3>3. ~(nth < SliceNth)
      <4>1. SUFFICES ASSUME nth < SliceNth PROVE FALSE
        OBVIOUS
      <4>2. nth \in 1 .. Len(Own)
        BY <1>3, <3>2, <4>1
      <4>3. SliceNth <= nth
        BY <2>2, <3>1, <3>2, <4>2
      <4>4. QED
        BY <1>3, <3>2, <4>1, <4>3
    <3>4. ~(nth > SliceNth)
      <4>1. SUFFICES ASSUME nth > SliceNth PROVE FALSE
        OBVIOUS
      <4>2. seen_slice /\ previous_nal = <<FirstSlice>>
        BY <1>2, <2>1, <4>1 DEF SeenInv
      <4>3. previous_nal[1] = FirstSlice
        BY <4>2
      <4>4. ~ IsInNewFrame(Nal, FirstSlice)
        BY <2>1, <3>1, <4>2, <4>3 DEF EndsAvc1
      <4>5. Nal.type = FirstSlice.type
        BY <4>4 DEF IsInNewFrame
      <4>6. IsKeyframe(Nals[SliceNth]) /\ SliceNth \in 1 .. nth - 1
        BY <1>3, <3>1, <3>2, <4>1, <4>5 DEF IsKeyframe
      <4>7. QED
        BY <2>5, <4>6 DEF MarkInv
    <3>5. nth = SliceNth
      BY <1>3, <3>2, <3>3, <3>4
    <3>6. SampleIsKey /\ nth >= SliceNth /\ nth <= SampleUnits
      BY <1>3, <2>2, <3>1, <3>2, <3>5 DEF SampleIsKey
    <3>7. ~ WouldExceed(Nal.length, TRUE)
      BY <1>2, <2>1, <3>6, SizeSuffices
    <3>8. was_keyframe' = TRUE
      BY <1>1, <1>2 DEF WalkInv
    <3>9. length' = End(nth)
      BY <1>5, <3>7, <3>8, TakeAvc1Facts
    <3>10. nth \in DOMAIN Nals
      BY <1>3, <2>2, JobFacts
    <3>11. End(nth) <= length'
      BY <2>2, <3>9
    <3>12. QED
      BY <2>2, <3>1, <3>10, <3>11 DEF IsKeyUpTo, End
  <2>6. QED
    BY <2>4, <2>5
<1>6. CASE TakeHvc1
  BY <1>2, <1>6, TakeHvc1Facts
<1>7. CASE Choose
  <2>1. pc = "choose"
    BY <1>7, ChooseFacts
  <2>2. QED
    BY <1>2, <2>1 DEF WalkInv
<1>8. CASE UNCHANGED vars
  BY <1>2, <1>3, <1>8 DEF vars
<1>9. QED
  BY <1>4, <1>5, <1>6, <1>7, <1>8 DEF Next, EndsWalk

-----------------------------------------------------------------------------
(* The sample is the access unit                                           *)

LEMMA SamePicture ==
    ASSUME NEW s \in Unit, NEW t \in Unit, FullId(s) = FullId(t)
    PROVE  ~ IsInNewFrame(s, t) /\ ~ OnlyOneIsReference(s, t)
<1>1. s.ref_idc \in Nat /\ t.ref_idc \in Nat
  BY DEF Unit
<1>2. /\ s.type = t.type /\ s.field = t.field /\ s.frame_num = t.frame_num /\ s.pps_id = t.pps_id
      /\ (IF s.ref_idc = 0 THEN 0 ELSE 1) = (IF t.ref_idc = 0 THEN 0 ELSE 1)
      /\ s.poc_lsb = t.poc_lsb
      /\ (IF IsKeyframe(s) THEN s.idr_pic_id ELSE 0) = (IF IsKeyframe(t) THEN t.idr_pic_id ELSE 0)
  BY DEF FullId, PictureId
<1>3. IsKeyframe(s) <=> IsKeyframe(t)
  BY <1>2 DEF IsKeyframe
<1>4. IsKeyframe(s) => s.idr_pic_id = t.idr_pic_id
  BY <1>2, <1>3
<1>5. ~ IsInNewFrame(s, t)
  BY <1>2, <1>4 DEF IsInNewFrame
<1>6. s.ref_idc = 0 <=> t.ref_idc = 0
  BY <1>1, <1>2
<1>7. QED
  BY <1>5, <1>6 DEF OnlyOneIsReference

LEMMA OtherPicture ==
    ASSUME NEW s \in Unit, NEW t \in Unit,
           PictureId(s) # PictureId(t) \/ (job.strict /\ FullId(s) # FullId(t))
    PROVE  IsInNewFrame(s, t) \/ OnlyOneIsReference(s, t)
<1> SUFFICES ASSUME ~ IsInNewFrame(s, t), ~ OnlyOneIsReference(s, t) PROVE FALSE
  OBVIOUS
<1>1. s.frame_num = t.frame_num /\ s.pps_id = t.pps_id /\ s.type = t.type /\ s.field = t.field
  BY DEF IsInNewFrame
<1>2. (IF s.ref_idc = 0 THEN 0 ELSE 1) = (IF t.ref_idc = 0 THEN 0 ELSE 1)
  BY DEF OnlyOneIsReference
<1>3. PictureId(s) = PictureId(t)
  BY <1>1, <1>2 DEF PictureId
<1>4. job.strict => s.poc_lsb = t.poc_lsb /\ (IsKeyframe(s) => s.idr_pic_id = t.idr_pic_id)
  BY DEF IsInNewFrame
<1>5. IsKeyframe(s) <=> IsKeyframe(t)
  BY <1>1 DEF IsKeyframe
<1>6. job.strict => FullId(s) = FullId(t)
  BY <1>3, <1>4, <1>5 DEF FullId
<1>7. QED
  BY <1>3, <1>6

\* A unit of the sample that is there as a whole does not end it.
LEMMA OwnUnitIsTaken ==
    ASSUME WalkInv, SeenInv, pc = "walk", IsAccessUnit, nth <= SampleUnits, End(nth) <= job.maxlength
    PROVE  ~ EndsWalk
<1>1. /\ job \in Jobs
      /\ nth \in Nat /\ nth >= 1 /\ Nal = Nals[nth] /\ Nal \in Unit /\ Nal.length \in Nat
      /\ length + Nal.length = End(nth) /\ length \in Nat /\ job.maxlength \in Nat
  BY NalIsThere DEF WalkInv
<1>2. /\ SliceNth \in Nat /\ SliceNth >= 1 /\ SliceNth <= SampleUnits /\ SampleUnits \in Nat
      /\ SampleUnits <= Len(Own) /\ Len(Own) \in Nat
      /\ FirstSlice = Nals[SliceNth] /\ IsSlice(FirstSlice) /\ FirstSlice = Own[SliceNth]
      /\ \A i \in 1 .. Len(Own) : Nals[i] = Own[i] /\ i \in DOMAIN Own
      /\ \A i \in 1 .. Len(Own) : IsSlice(Nals[i]) => SliceNth <= i
      /\ \A i \in 1 .. Len(Own) : Nals[i].type # "none" /\ ~ Nals[i].forbidden
  BY <1>1, AccessUnitFacts
<1>3. nth \in 1 .. Len(Own) /\ nth \in DOMAIN Own /\ Nal = Own[nth]
  BY <1>1, <1>2
<1>4. Nal.type # "none" /\ ~ Nal.forbidden /\ Nal.length <= MaxLength
  <2>1. Nal.type # "none" /\ ~ Nal.forbidden
    BY <1>1, <1>2, <1>3
  <2>2. Nal.length <= job.maxlength - length
    BY <1>1
  <2>3. QED
    BY <2>1, <2>2 DEF MaxLength
<1>5. seen_slice <=> nth > SliceNth
  BY DEF SeenInv
<1>6. CASE job.codec = "avc1"
  <2>1. /\ ~ Nal.twos
        /\ IF nth < SliceNth THEN Nal.type # "FILLER"
           ELSE Nal.type # "FILLER" => IsSlice(Nal) /\ FullId(Nal) = FullId(FirstSlice)
    BY <1>3, <1>6 DEF IsAccessUnit, OneAvc1Picture
  <2>2. Parses(Nal) /\ ~ LooksLikeTwos
    BY <1>4, <1>6, <2>1 DEF Parses, LooksLikeTwos
  <2>3. ~ EndsAvc1(Nal)
    <3>1. CASE IsSlice(Nal)
      <4>1. CASE seen_slice
        <5>1. nth > SliceNth /\ previous_nal = <<FirstSlice>>
          BY <1>5, <1>6, <4>1 DEF SeenInv
        <5>2. FullId(Nal) = FullId(FirstSlice)
          BY <1>1, <1>2, <2>1, <3>1, <5>1 DEF IsSlice
        <5>3. FirstSlice \in Unit
          <6>1. SliceNth \in 1 .. Len(Nals)
            BY <1>1, <1>2, AccessUnitFacts
          <6>2. QED
            BY <1>1, <1>2, <6>1, NalFacts
        <5>4. ~ IsInNewFrame(Nal, FirstSlice) /\ ~ OnlyOneIsReference(Nal, FirstSlice)
          BY <1>1, <5>2, <5>3, SamePicture
        <5>5. previous_nal[1] = FirstSlice
          BY <5>1
        <5>6. QED
          BY <3>1, <5>4, <5>5 DEF EndsAvc1
      <4>2. CASE ~ seen_slice
        BY <3>1, <4>2 DEF EndsAvc1
      <4>3. QED
        BY <4>1, <4>2
    <3>2. CASE ~ IsSlice(Nal) /\ Nal.type = "FILLER"
      <4>1. ~ job.skip_filler
        <5>1. nth \in 1 .. SampleUnits
          BY <1>1, <1>2
        <5>2. QED
          BY <1>1, <1>3, <1>6, <3>2, <5>1, SampleUnitsFacts
      <4>2. QED
        BY <3>2, <4>1 DEF EndsAvc1
    <3>3. CASE ~ IsSlice(Nal) /\ Nal.type # "FILLER"
      <4>1. nth < SliceNth
        BY <2>1, <3>3
      <4>2. ~ seen_slice
        BY <1>1, <1>2, <1>5, <4>1
      <4>3. QED
        BY <3>3, <4>2 DEF EndsAvc1
    <3>4. QED
      BY <3>1, <3>2, <3>3
  <2>4. QED
    BY <1>6, <2>2, <2>3 DEF EndsWalk, NoNal, EndAvc1, EndHvc1, Reads
<1>7. CASE job.codec = "hvc1"
  <2>1. /\ Nal.type = "AUD" => nth = 1
        /\ Nal.type \in {"VPS", "SPS", "PPS"} => nth < SliceNth
        /\ IsSlice(Nal) => (Nal.first_slice => nth = SliceNth)
        /\ Nal.nuh_layer_id = FirstSlice.nuh_layer_id
        /\ Nal.temporal_id_plus1 = FirstSlice.temporal_id_plus1
        /\ Nal.temporal_id_plus1 # 0
    BY <1>3, <1>7 DEF IsAccessUnit, OneHvc1Picture
  <2>2. Parses(Nal) /\ ~ LooksLikeTwos
    BY <1>4, <1>7, <2>1 DEF Parses, LooksLikeTwos
  <2>3. /\ previous_nal = IF nth > 1 THEN <<Nals[nth - 1]>> ELSE <<>>
    BY <1>7 DEF SeenInv
  <2>4. ~ EndsHvc1(Nal)
    <3>1. CASE IsSlice(Nal)
      <4>1. ~(seen_slice /\ Nal.first_slice)
        BY <1>1, <1>2, <1>5, <2>1, <3>1
      <4>2. CASE nth > 1
        <5>1. nth - 1 \in DOMAIN Own /\ Nals[nth - 1] = Own[nth - 1]
          <6>1. nth - 1 \in 1 .. Len(Own)
            BY <1>3, <4>2
          <6>2. QED
            BY <1>2, <6>1
        <5>2. /\ Nals[nth - 1].nuh_layer_id = FirstSlice.nuh_layer_id
              /\ Nals[nth - 1].temporal_id_plus1 = FirstSlice.temporal_id_plus1
          BY <1>7, <5>1 DEF IsAccessUnit, OneHvc1Picture
        <5>3. previous_nal[1] = Nals[nth - 1]
          BY <2>3, <4>2
        <5>4. QED
          BY <2>1, <3>1, <4>1, <5>2, <5>3 DEF EndsHvc1
      <4>3. CASE ~(nth > 1)
        BY <2>3, <3>1, <4>3 DEF EndsHvc1
      <4>4. QED
        BY <4>2, <4>3
    <3>2. CASE ~ IsSlice(Nal)
      <4>1. ~(Nal.type = "AUD" /\ previous_nal # <<>>)
        BY <2>1, <2>3
      <4>2. ~(Nal.type \in {"VPS", "SPS", "PPS"} /\ seen_slice)
        BY <1>1, <1>2, <1>5, <2>1
      <4>3. QED
        BY <1>4, <3>2, <4>1, <4>2 DEF EndsHvc1
    <3>3. QED
      BY <3>1, <3>2
  <2>5. QED
    BY <1>7, <2>2, <2>4 DEF EndsWalk, NoNal, EndAvc1, EndHvc1, Reads
<1>8. QED
  BY <1>1, <1>6, <1>7, JobFacts

\* What stands behind the sample is not taken for a unit of it.
LEMMA NextUnitEnds ==
    ASSUME WalkInv, SeenInv, pc = "walk", IsAccessUnit, NextIsTold,
           nth = SampleUnits + 1, length = SampleLength
    PROVE  ~ TakeAvc1 /\ ~ TakeHvc1
<1> SUFFICES ASSUME TakeAvc1 \/ TakeHvc1 PROVE FALSE
  OBVIOUS
<1>1. /\ job \in Jobs
      /\ nth \in Nat /\ nth >= 1 /\ Nal = Nals[nth] /\ Nal \in Unit /\ Nal.length \in Nat
      /\ length \in Nat /\ job.maxlength \in Nat
  BY NalIsThere DEF WalkInv
<1>2. /\ SliceNth \in Nat /\ SliceNth >= 1 /\ SliceNth <= SampleUnits /\ SampleUnits \in Nat
      /\ SampleUnits <= Len(Own) /\ Len(Own) \in Nat
      /\ FirstSlice = Nals[SliceNth] /\ FirstSlice = Own[SliceNth]
      /\ \A i \in 1 .. Len(Own) : Nals[i] = Own[i] /\ i \in DOMAIN Own
  BY <1>1, AccessUnitFacts
<1>3. Parses(Nal) /\ ~ LooksLikeTwos
  BY TakeAvc1Facts, TakeHvc1Facts DEF TakeAvc1, TakeHvc1, Reads
<1>4. Nal.type # "none" /\ (Nal.forbidden => job.ignore_forbidden) /\ Nal.length <= job.maxlength - length
  BY <1>3 DEF Parses, MaxLength
<1>5. nth > SliceNth /\ seen_slice /\ nth > 1
  <2>1. nth > SliceNth /\ nth > 1
    BY <1>1, <1>2
  <2>2. QED
    BY <2>1 DEF SeenInv
<1>6. CASE SampleUnits < Len(Own)
  <2>1. nth \in 1 .. Len(Own)
    BY <1>1, <1>2, <1>6
  <2>2. job.codec = "avc1" /\ job.skip_filler /\ Nal.type = "FILLER"
    BY <1>1, <1>2, <1>6, <2>1, SampleUnitsFacts
  <2>3. EndsAvc1(Nal)
    BY <2>2 DEF EndsAvc1, IsSlice
  <2>4. QED
    BY <2>2, <2>3, TakeAvc1Facts, TakeHvc1Facts
<1>7. CASE SampleUnits = Len(Own)
  <2>1. Nal = Following
    BY <1>1, <1>7, JobFacts DEF NextIsTold
  <2>2. ~(length + Nal.length > job.maxlength)
    BY <1>1, <1>4
  <2>3. IF job.codec = "avc1" THEN TellsAvc1(Nal) ELSE TellsHvc1(Nal)
    BY <1>4, <2>1, <2>2 DEF NextIsTold
  <2>4. CASE job.codec = "avc1"
    <3>1. TakeAvc1 /\ ~ EndsAvc1(Nal) /\ TellsAvc1(Nal)
      BY <2>3, <2>4, TakeAvc1Facts, TakeHvc1Facts
    <3>2. previous_nal = <<FirstSlice>> /\ previous_nal[1] = FirstSlice
      BY <1>5, <2>4 DEF SeenInv
    <3>3. FirstSlice \in Unit
      <4>1. SliceNth \in 1 .. Len(Nals)
        BY <1>1, <1>2, AccessUnitFacts
      <4>2. QED
        BY <1>1, <1>2, <4>1, NalFacts
    <3>4. CASE IsSlice(Nal)
      <4>1. PictureId(Nal) # PictureId(FirstSlice) \/ (job.strict /\ FullId(Nal) # FullId(FirstSlice))
        BY <1>3, <2>4, <3>1, <3>4 DEF TellsAvc1, LooksLikeTwos
      <4>2. IsInNewFrame(Nal, FirstSlice) \/ OnlyOneIsReference(Nal, FirstSlice)
        BY <1>1, <3>3, <4>1, OtherPicture
      <4>3. QED
        BY <1>5, <3>1, <3>2, <3>4, <4>2 DEF EndsAvc1
    <3>5. CASE ~ IsSlice(Nal)
      <4>1. Nal.type # "FILLER"
        BY <1>3, <2>4, <3>1, <3>5 DEF TellsAvc1, LooksLikeTwos
      <4>2. QED
        BY <1>5, <3>1, <3>5, <4>1 DEF EndsAvc1
    <3>6. QED
      BY <3>4, <3>5
  <2>5. CASE job.codec = "hvc1"
    <3>1. TakeHvc1 /\ ~ EndsHvc1(Nal) /\ TellsHvc1(Nal)
      BY <2>3, <2>5, TakeAvc1Facts, TakeHvc1Facts
    <3>2. previous_nal = <<Nals[nth - 1]>> /\ previous_nal[1] = Nals[nth - 1] /\ previous_nal # <<>>
      <4>1. previous_nal = <<Nals[nth - 1]>>
        BY <1>5, <2>5 DEF SeenInv
      <4>2. QED
        BY <4>1
    <3>3. nth - 1 = Len(Own) /\ nth - 1 \in DOMAIN Own /\ Nals[nth - 1] = Own[nth - 1]
      <4>1. nth - 1 = Len(Own) /\ nth - 1 \in 1 .. Len(Own)
        BY <1>1, <1>2, <1>7
      <4>2. QED
        BY <1>2, <4>1
    <3>4. /\ Nals[nth - 1].nuh_layer_id = FirstSlice.nuh_layer_id
          /\ Nals[nth - 1].temporal_id_plus1 = FirstSlice.temporal_id_plus1
      BY <2>5, <3>3 DEF IsAccessUnit, OneHvc1Picture
    <3>5. CASE IsSlice(Nal)
      <4>1. \/ Nal.first_slice
            \/ Nal.nuh_layer_id # FirstSlice.nuh_layer_id
            \/ Nal.temporal_id_plus1 # FirstSlice.temporal_id_plus1
        BY <1>3, <2>5, <3>1, <3>5 DEF TellsHvc1, Parses, IsSlice
      <4>2. QED
        BY <1>5, <3>1, <3>2, <3>4, <3>5, <4>1 DEF EndsHvc1
    <3>6. CASE ~ IsSlice(Nal)
      <4>1. \/ Nal.type \in {"AUD", "VPS", "SPS", "PPS"}
            \/ Nal.type \in {"SEI", "SUFFIX_SEI"} /\ Nal.forbidden
        BY <1>3, <2>5, <3>1, <3>6 DEF TellsHvc1, Parses
      <4>2. QED
        BY <1>5, <3>1, <3>2, <3>6, <4>1 DEF EndsHvc1
    <3>7. QED
      BY <3>5, <3>6
  <2>6. QED
    BY <1>1, <2>4, <2>5, JobFacts
<1>8. QED
  BY <1>2, <1>6, <1>7

\* Of the lengths noted the last is chosen, because another sample begins behind it.
LEMMA ChooseKeeps ==
    ASSUME WalkInv, Choose, IsAccessUnit, NextIsTold, ContinuesRightly, length = SampleLength
    PROVE  length' = length
<1> DEFINE sizes == Append(alternatives, length)
           matching == {i \in DOMAIN sizes : MatchesAt(sizes[i])}
<1>1. length' = FindSizeWithContinuation(sizes)
  BY DEF Choose
<1>2. alternatives \in Seq(Nat) /\ job \in Jobs /\ length \in Nat
  BY ChosenLength DEF WalkInv
<1>3. sizes \in Seq(Nat) /\ Len(sizes) = Len(alternatives) + 1 /\ Len(alternatives) \in Nat
      /\ sizes[Len(alternatives) + 1] = length
  BY <1>2, AppendProperties, LenProperties
<1> HIDE DEF sizes
<1>4. Last(sizes) = length
  BY <1>3 DEF Last
<1>5. CASE job.continues
  <2>1. /\ Following.type # "none" /\ Following.nuh_layer_id = 0 /\ Following.temporal_id_plus1 = 1
        /\ length = LengthOf(Own) /\ length + Lookahead <= job.content
    BY <1>5 DEF ContinuesRightly
  <2>2. length = Ends(Nals)[Len(Own)]
    BY <1>2, <2>1, OwnLength DEF End
  <2>3. Len(Own) + 1 \in 1 .. Len(Nals) /\ Nals[Len(Own) + 1] = Following /\ Len(Own) \in Nat /\ Nals \in Seq(Unit)
    BY <1>2, JobFacts DEF NextIsTold
  <2>4. Len(Own) + 1 \in DOMAIN Nals /\ (Len(Own) + 1) - 1 = Len(Own)
    BY <2>3
  <2>5. MatchesAt(length)
    BY <2>1, <2>2, <2>3, <2>4 DEF MatchesAt
  <2>6. DOMAIN sizes = 1 .. Len(sizes) /\ Len(sizes) \in Nat /\ Len(sizes) \in 1 .. Len(sizes)
    BY <1>3
  <2>7. Len(sizes) \in matching /\ \A i \in matching : Len(sizes) >= i /\ i \in Nat
    BY <1>3, <2>5, <2>6
  <2> HIDE DEF matching
  <2>8. Max(matching) \in matching /\ \A i \in matching : Max(matching) >= i
    <3>1. \E x \in matching : \A y \in matching : x >= y
      BY <2>7
    <3>2. QED
      BY <3>1 DEF Max
  <2>9. Max(matching) = Len(sizes)
    <3>1. Max(matching) >= Len(sizes) /\ Len(sizes) >= Max(matching) /\ Max(matching) \in Nat
      BY <2>7, <2>8
    <3>2. QED
      BY <2>6, <3>1
  <2>10. FindSizeWithContinuation(sizes) = sizes[Max(matching)]
    BY <1>5, <2>7 DEF FindSizeWithContinuation, matching
  <2>11. QED
    BY <1>1, <1>3, <2>9, <2>10
<1>6. CASE ~ job.continues
  BY <1>1, <1>4, <1>6 DEF FindSizeWithContinuation
<1>7. QED
  BY <1>5, <1>6

LEMMA StepUnit ==
    ASSUME WalkInv, MarkInv, SeenInv, UnitInv, [Next]_vars
    PROVE  UnitInv'
<1>1. /\ WalkInv' /\ job' = job /\ SampleUnits' = SampleUnits /\ SampleIsKey' = SampleIsKey /\ SliceNth' = SliceNth
      /\ SampleLength' = SampleLength
      /\ (IsAccessUnit' <=> IsAccessUnit) /\ (SizeIsUsual' <=> SizeIsUsual) /\ (NextIsTold' <=> NextIsTold)
      /\ (ContinuesRightly' <=> ContinuesRightly)
  BY StepWalk, JobStays
<1>2. SUFFICES ASSUME IsAccessUnit, SizeIsUsual, NextIsTold, ContinuesRightly
               PROVE  /\ pc' = "walk" => nth' <= SampleUnits + 1
                      /\ pc' = "walk" /\ was_keyframe' => SampleIsKey /\ nth' > SliceNth
                      /\ pc' # "walk" => length' = SampleLength
  BY <1>1 DEF UnitInv
<1>3. /\ pc = "walk" => nth <= SampleUnits + 1
      /\ pc = "walk" /\ was_keyframe => SampleIsKey /\ nth > SliceNth
      /\ pc # "walk" => length = SampleLength
  BY <1>2 DEF UnitInv
<1>4. job \in Jobs
  BY DEF WalkInv
<1>5. /\ SliceNth \in Nat /\ SliceNth >= 1 /\ SliceNth <= SampleUnits /\ SampleUnits \in Nat
      /\ SampleUnits <= Len(Own) /\ Len(Own) \in Nat /\ Len(Own) <= Len(Nals) /\ Len(Nals) \in Nat
      /\ FirstSlice = Nals[SliceNth] /\ FirstSlice = Own[SliceNth] /\ IsSlice(FirstSlice)
      /\ \A i \in 1 .. Len(Own) : Nals[i] = Own[i] /\ i \in DOMAIN Own
      /\ \A i \in 1 .. Len(Own) : IsSlice(Nals[i]) => SliceNth <= i
  BY <1>2, <1>4, AccessUnitFacts
<1>6. ASSUME pc = "walk"
      PROVE  /\ nth \in Nat /\ nth >= 1 /\ nth \in 1 .. Len(Nals) /\ Nal = Nals[nth] /\ Nal.length \in Nat
             /\ length = End(nth - 1) /\ End(nth - 1) \in Nat /\ End(nth) \in Nat /\ length + Nal.length = End(nth)
             /\ length <= job.maxlength /\ job.maxlength \in Nat
  BY <1>6, NalIsThere DEF WalkInv
<1>7. ASSUME pc = "walk", nth = SampleUnits + 1
      PROVE  length = SampleLength
  <2>1. nth - 1 = SampleUnits /\ SampleUnits \in 0 .. SampleUnits
    BY <1>5, <1>6, <1>7
  <2>2. End(SampleUnits) <= job.maxlength /\ length = End(SampleUnits)
    BY <1>6, <1>7, <2>1
  <2>3. QED
    BY <1>2, <1>4, <2>1, <2>2, SampleLengthIs
<1>8. CASE EndsWalk
  <2>1. pc = "walk" /\ pc' # "walk" /\ length' = length
    BY <1>8, EndsWalkFacts
  <2>2. CASE nth = SampleUnits + 1
    BY <1>7, <2>1, <2>2
  <2>3. CASE nth # SampleUnits + 1
    <3>1. nth <= SampleUnits /\ nth - 1 \in 0 .. SampleUnits /\ (nth - 1) + 1 = nth
      <4>1. nth \in Nat /\ nth >= 1 /\ SampleUnits \in Nat /\ nth <= SampleUnits + 1
        BY <1>3, <1>5, <1>6, <2>1
      <4>2. QED
        BY <2>3, <4>1
    <3>2. End(nth) > job.maxlength
      <4>1. ~(End(nth) <= job.maxlength)
        BY <1>2, <1>8, <2>1, <3>1, OwnUnitIsTaken
      <4>2. QED
        BY <1>6, <2>1, <4>1
    <3>3. End(nth - 1) <= job.maxlength
      BY <1>6, <2>1
    <3>4. SampleLength = End(nth - 1)
      BY <1>2, <1>4, <3>1, <3>2, <3>3, SampleLengthIs
    <3>5. QED
      BY <1>6, <2>1, <3>4
  <2>4. QED
    BY <2>2, <2>3
<1>9. CASE TakeAvc1 \/ TakeHvc1
  <2>1. pc = "walk" /\ was_keyframe' = MarkKeyframe(Nal) /\ was_keyframe' \in BOOLEAN /\ Nal.length <= job.maxlength - length
    BY <1>9, TakeAvc1Facts, TakeHvc1Facts DEF MaxLength
  <2>2. nth <= SampleUnits
    <3>1. nth # SampleUnits + 1
      BY <1>2, <1>7, <1>9, <2>1, NextUnitEnds
    <3>2. QED
      BY <1>3, <1>5, <1>6, <2>1, <3>1
  <2>3. End(nth) <= job.maxlength
    BY <1>6, <2>1
  <2>4. nth \in 1 .. Len(Own) /\ Nal = Own[nth] /\ nth \in DOMAIN Own
    BY <1>5, <1>6, <2>1, <2>2
  <2>5. IsKeyframe(Nal) => SampleIsKey /\ nth >= SliceNth
    <3>1. SUFFICES ASSUME IsKeyframe(Nal) PROVE SampleIsKey /\ nth >= SliceNth
      OBVIOUS
    <3>2. IsSlice(Nal)
      BY <3>1 DEF IsKeyframe, IsSlice
    <3>3. nth >= SliceNth
      BY <1>5, <1>6, <2>1, <2>4, <3>2
    <3>4. Nal.type = FirstSlice.type
      <4>1. CASE job.codec = "avc1"
        <5>1. FullId(Nal) = FullId(FirstSlice)
          BY <1>2, <1>5, <1>6, <2>1, <2>4, <3>2, <3>3, <4>1 DEF IsAccessUnit, OneAvc1Picture, IsSlice
        <5>2. QED
          BY <5>1 DEF FullId, PictureId
      <4>2. CASE job.codec = "hvc1"
        BY <1>2, <2>4, <3>2, <4>2 DEF IsAccessUnit, OneHvc1Picture
      <4>3. QED
        BY <1>4, <4>1, <4>2, JobFacts
    <3>5. QED
      BY <3>1, <3>3, <3>4 DEF SampleIsKey, IsKeyframe
  <2>6. SampleIsKey /\ nth > SliceNth => was_keyframe
    <3>1. SUFFICES ASSUME SampleIsKey, nth > SliceNth PROVE was_keyframe
      OBVIOUS
    <3>2. SliceNth \in 1 .. nth - 1 /\ IsKeyframe(Nals[SliceNth])
      BY <1>5, <1>6, <2>1, <3>1 DEF SampleIsKey
    <3>3. QED
      BY <3>2 DEF MarkInv
  <2>7. nth = SliceNth => (IsKeyframe(Nal) <=> SampleIsKey)
    BY <1>5, <1>6, <2>1 DEF SampleIsKey
  <2>8. was_keyframe' <=> SampleIsKey /\ nth >= SliceNth
    <3>1. was_keyframe' <=> was_keyframe \/ IsKeyframe(Nal)
      BY <2>1 DEF MarkKeyframe
    <3>2. was_keyframe => SampleIsKey /\ nth >= SliceNth
      BY <1>3, <1>5, <1>6, <2>1
    <3>3. SampleIsKey /\ nth >= SliceNth => was_keyframe \/ IsKeyframe(Nal)
      <4>1. nth >= SliceNth => nth > SliceNth \/ nth = SliceNth
        BY <1>5, <1>6, <2>1
      <4>2. QED
        BY <2>6, <2>7, <4>1
    <3>4. QED
      BY <2>5, <3>1, <3>2, <3>3
  <2>9. /\ nth' = nth + 1 /\ length' = End(nth)
        /\ IF length' = job.maxlength THEN pc' # "walk" ELSE pc' = "walk"
    <3>1. CASE TakeAvc1
      <4>1. job.codec = "avc1"
        BY <3>1, TakeAvc1Facts
      <4>2. ~ WouldExceed(Nal.length, was_keyframe')
        BY <1>2, <2>1, <2>2, <2>8, <4>1, SizeSuffices
      <4>3. QED
        BY <3>1, <4>2, TakeAvc1Facts
    <3>2. CASE TakeHvc1
      <4>1. job.codec = "hvc1" /\ job.allow_large \in BOOLEAN
        BY <1>4, <3>2, TakeHvc1Facts, JobsAssumption DEF IsJob
      <4>2. ~ WouldExceed(Nal.length, job.allow_large \/ was_keyframe')
        <5> DEFINE large == job.allow_large \/ was_keyframe'
        <5>1. large \in BOOLEAN /\ (large <=> was_keyframe' \/ (job.codec = "hvc1" /\ job.allow_large))
          BY <2>1, <4>1
        <5> HIDE DEF large
        <5>2. ~ WouldExceed(Nal.length, large)
          BY <1>2, <2>1, <2>2, <2>8, <5>1, SizeSuffices
        <5>3. QED
          BY <5>2 DEF large
      <4>3. QED
        BY <3>2, <4>2, TakeHvc1Facts
    <3>3. QED
      BY <1>9, <3>1, <3>2
  <2>10. CASE pc' = "walk"
    <3>1. nth' <= SampleUnits + 1
      BY <1>5, <1>6, <2>1, <2>2, <2>9
    <3>2. was_keyframe' => SampleIsKey /\ nth' > SliceNth
      <4>1. nth >= SliceNth => nth' > SliceNth
        BY <1>5, <1>6, <2>1, <2>9
      <4>2. QED
        BY <2>8, <4>1
    <3>3. QED
      BY <2>10, <3>1, <3>2
  <2>11. CASE pc' # "walk"
    <3>1. length' = job.maxlength /\ End(nth) = job.maxlength
      BY <2>9, <2>11
    <3>2. nth \in 0 .. SampleUnits
      BY <1>5, <1>6, <2>1, <2>2
    <3>3. nth = SampleUnits \/ End(nth + 1) > job.maxlength
      <4>1. SUFFICES ASSUME nth # SampleUnits PROVE End(nth + 1) > job.maxlength
        OBVIOUS
      <4>2. nth \in 0 .. Len(Nals) /\ nth + 1 \in 0 .. Len(Nals) /\ nth < nth + 1
        <5>1. nth \in Nat /\ SampleUnits \in Nat /\ SampleUnits <= Len(Nals) /\ Len(Nals) \in Nat
          BY <1>5, <1>6, <2>1
        <5>2. QED
          BY <2>2, <4>1, <5>1
      <4>3. End(nth) < End(nth + 1) /\ End(nth + 1) \in Nat
        BY <1>4, <4>2, EndFacts
      <4>4. QED
        BY <1>6, <2>1, <3>1, <4>3
    <3>4. End(nth) <= job.maxlength
      BY <1>6, <2>1, <3>1
    <3>5. SampleLength = End(nth)
      BY <1>2, <1>4, <3>2, <3>3, <3>4, SampleLengthIs
    <3>6. QED
      BY <2>9, <2>11, <3>5
  <2>12. QED
    BY <2>10, <2>11
<1>10. CASE Choose
  <2>1. pc = "choose" /\ pc' = "done"
    BY <1>10, ChooseFacts
  <2>2. length = SampleLength
    BY <1>3, <2>1
  <2>3. length' = length
    BY <1>2, <1>10, <2>2, ChooseKeeps
  <2>4. QED
    BY <2>1, <2>2, <2>3
<1>11. CASE UNCHANGED vars
  BY <1>3, <1>11 DEF vars
<1>12. QED
  BY <1>8, <1>9, <1>10, <1>11 DEF Next, EndsWalk

-----------------------------------------------------------------------------
(* The theorems                                                            *)

LEMMA Invariance == Spec => []IInv
<1>1. Init => IInv
  BY InitInv
<1>2. IInv /\ [Next]_vars => IInv'
  BY StepWalk, StepMark, StepSeen, StepOnlyKey, StepUnit DEF IInv
<1>3. QED
  BY <1>1, <1>2, PTL DEF Spec

\* A walk keeps its types, and its sample stays in the content, for every stream of units
\* and every statistics (getSizeAvc1, getSizeHvc1).
THEOREM WalkTypes == Spec => []TypeOK
<1>1. IInv => TypeOK
  <2> SUFFICES ASSUME IInv PROVE TypeOK
    OBVIOUS
  <2>1. WalkInv
    BY DEF IInv
  <2>2. IsJob(job)
    BY <2>1, JobsAssumption DEF WalkInv
  <2>3. Len(previous_nal) <= 1
    <3>1. CASE previous_nal = <<>>
      BY <3>1
    <3>2. CASE previous_nal # <<>>
      <4>1. PICK k \in 1 .. nth : previous_nal = <<Nals[k]>>
        BY <2>1, <3>2 DEF WalkInv
      <4>2. Len(<<Nals[k]>>) = 1
        OBVIOUS
      <4>3. QED
        BY <4>1, <4>2
    <3>3. QED
      BY <3>1, <3>2
  <2>4. \A i \in DOMAIN alternatives : alternatives[i] \in 1 .. job.maxlength
    BY <2>1 DEF WalkInv
  <2>5. QED
    BY <2>1, <2>2, <2>3, <2>4 DEF TypeOK, WalkInv
<1>2. QED
  BY <1>1, Invariance, PTL

\* A sample with a key slice is marked a key frame, in every stream; and no H.264 sample
\* without one, if it begins an access unit of usual size (was_keyframe_).
THEOREM KeyframesAreMarked == Spec => []MarksKeyframes
<1>1. IInv => MarksKeyframes
  <2> SUFFICES ASSUME IInv, pc = "done"
               PROVE  /\ IsKeyUpTo(length) => was_keyframe
                      /\ job.codec = "avc1" /\ IsAccessUnit /\ SizeIsUsual /\ was_keyframe => IsKeyUpTo(length)
    BY DEF MarksKeyframes
  <2>1. WalkInv /\ MarkInv /\ OnlyKeyInv
    BY DEF IInv
  <2>2. ASSUME IsKeyUpTo(length) PROVE was_keyframe
    <3>1. PICK k \in DOMAIN Nals : IsKeyframe(Nals[k]) /\ End(k) <= length
      BY <2>2 DEF IsKeyUpTo, End
    <3>2. /\ job \in Jobs /\ Nals \in Seq(Unit) /\ Len(Nals) \in Nat
          /\ nth \in 1 .. Len(Nals) + 1 /\ length <= End(nth - 1) /\ length \in 0 .. job.maxlength /\ job.maxlength \in Nat
      BY <2>1, JobFacts DEF WalkInv
    <3>3. k \in 0 .. Len(Nals) /\ k >= 1 /\ nth - 1 \in 0 .. Len(Nals)
      BY <3>1, <3>2
    <3>4. End(k) \in Nat /\ End(nth - 1) \in Nat
      BY <3>2, <3>3, EndFacts
    <3>5. ~(nth - 1 < k)
      <4>1. nth - 1 < k => End(nth - 1) < End(k)
        BY <3>2, <3>3, EndFacts
      <4>2. End(k) <= End(nth - 1)
        BY <3>1, <3>2, <3>4
      <4>3. QED
        BY <3>4, <4>1, <4>2
    <3>6. k \in 1 .. nth - 1
      BY <3>2, <3>3, <3>5
    <3>7. QED
      BY <2>1, <3>1, <3>6 DEF MarkInv
  <2>3. QED
    BY <2>1, <2>2 DEF OnlyKeyInv
<1>2. QED
  BY <1>1, Invariance, PTL

\* Where two access units follow one another the sample found is the first, as far as it is there
\* (getSizeAvc1, getSizeHvc1 and findSizeWithContinuation).
THEOREM SampleIsAccessUnit == Spec => []EndsWithAccessUnit
<1>1. IInv => EndsWithAccessUnit
  BY DEF IInv, UnitInv, EndsWithAccessUnit
<1>2. QED
  BY <1>1, Invariance, PTL
=============================================================================
