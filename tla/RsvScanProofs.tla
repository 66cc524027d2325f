---------------------------- MODULE RsvScanProofs ----------------------------
(***************************************************************************)
(* What the walk over the groups of a Sony recording saves, for a file of  *)
(* any content: no byte is in two chunks, and with an audio track nothing  *)
(* is lost but what lies between a packet and a group's first unit.  For a *)
(* recording as a camera wrote it, cut anywhere: the lengths it was        *)
(* written with are detected, and each whole group is recovered as it was. *)
(***************************************************************************)
EXTENDS RsvScan, SequenceTheorems, FiniteSetTheorems, NaturalsInduction, WellFoundedInduction, TLAPS

-----------------------------------------------------------------------------
(* Numbers                                                                 *)

\* The least of some natural numbers.
LEMMA LeastOf ==
    ASSUME NEW S \in SUBSET Nat, S # {}
    PROVE  Min(S) \in S /\ \A y \in S : Min(S) <= y
<1>1. PICK x \in S : \A y \in S : <<y, x>> \notin OpToRel(<, Nat)
  BY NatLessThanWellFounded, WFMin
<1>2. \A y \in S : x <= y
  <2> SUFFICES ASSUME NEW y \in S PROVE x <= y
    OBVIOUS
  <2>1. ~(y < x)
    BY <1>1 DEF OpToRel
  <2>2. QED
    BY <2>1
<1>3. QED
  BY <1>2 DEF Min

\* A number that is least of some is their least.
LEMMA LeastIs ==
    ASSUME NEW S \in SUBSET Nat, NEW x \in S, \A y \in S : x <= y
    PROVE  Min(S) = x
<1>1. Min(S) \in S /\ \A y \in S : Min(S) <= y
  BY LeastOf
<1>2. Min(S) \in Nat /\ x \in Nat /\ Min(S) <= x /\ x <= Min(S)
  BY <1>1
<1>3. QED
  BY <1>2

\* The lesser of two.
LEMMA MinOfTwo ==
    ASSUME NEW x \in Int, NEW y \in Int
    PROVE  Min({x, y}) = IF x <= y THEN x ELSE y
BY DEF Min

\* The greater of two.
LEMMA MaxOfTwo ==
    ASSUME NEW x \in Int, NEW y \in Int
    PROVE  Max({x, y}) = IF x >= y THEN x ELSE y
BY DEF Max

\* All of a finite set, each once and from the least on.
LEMMA InOrderCorrect ==
    ASSUME NEW S \in SUBSET Nat, IsFiniteSet(S)
    PROVE  /\ Cardinality(S) \in Nat
           /\ Len(InOrder(S)) = Cardinality(S)
           /\ InOrder(S) \in [1 .. Cardinality(S) -> S]
           /\ \A i, j \in 1 .. Cardinality(S) : i < j => InOrder(S)[i] < InOrder(S)[j]
           /\ \A x \in S : \E i \in 1 .. Cardinality(S) : InOrder(S)[i] = x
<1> DEFINE n == Cardinality(S)
           Below(x) == {y \in S : y < x}
           rank == [x \in S |-> Cardinality(Below(x)) + 1]
<1>0. n \in Nat
  BY FS_CardinalityType
<1>1. ASSUME NEW x \in S
      PROVE  /\ IsFiniteSet(Below(x)) /\ Cardinality(Below(x)) \in Nat
             /\ Cardinality(Below(x)) < n
  <2>1. Below(x) \in SUBSET (S \ {x})
    OBVIOUS
  <2>2. IsFiniteSet(S \ {x}) /\ Cardinality(S \ {x}) = n - 1
    BY FS_RemoveElement
  <2> HIDE DEF Below
  <2>3. IsFiniteSet(Below(x)) /\ Cardinality(Below(x)) <= n - 1
    BY <2>1, <2>2, FS_Subset
  <2>4. QED
    BY <1>0, <2>3, FS_CardinalityType
<1>2. ASSUME NEW x \in S, NEW y \in S, x < y
      PROVE  Cardinality(Below(x)) < Cardinality(Below(y))
  <2>0. S \subseteq Nat /\ x \in Nat /\ y \in Nat
    OBVIOUS
  <2>1. x \in Below(y) /\ Below(x) \in SUBSET (Below(y) \ {x})
    <3>1. x \in Below(y)
      BY <1>2
    <3>2. ASSUME NEW z \in Below(x) PROVE z \in Below(y) \ {x}
      <4>1. z \in S /\ z \in Nat /\ z < x
        BY <2>0
      <4>2. z < y /\ z # x
        BY <1>2, <2>0, <4>1
      <4>3. QED
        BY <4>1, <4>2
    <3> HIDE DEF Below
    <3>3. QED
      BY <3>1, <3>2
  <2>2. IsFiniteSet(Below(y)) /\ Cardinality(Below(y)) \in Nat /\ Cardinality(Below(x)) \in Nat
    BY <1>1
  <2> HIDE DEF Below
  <2>3. /\ IsFiniteSet(Below(y) \ {x})
        /\ Cardinality(Below(y) \ {x}) = Cardinality(Below(y)) - 1
    BY <2>1, <2>2, FS_RemoveElement
  <2>4. Cardinality(Below(x)) <= Cardinality(Below(y) \ {x})
    BY <2>1, <2>3, FS_Subset
  <2>5. QED
    BY <2>2, <2>3, <2>4
<1>3. ASSUME NEW x \in S, NEW y \in S, Cardinality(Below(x)) = Cardinality(Below(y))
      PROVE  x = y
  <2>1. Cardinality(Below(x)) \in Nat /\ Cardinality(Below(y)) \in Nat
    BY <1>1
  <2>2. ~(x < y) /\ ~(y < x)
    BY <1>2, <1>3, <2>1
  <2>3. QED
    BY <2>2
<1> HIDE DEF Below
<1>4. rank \in [S -> 1 .. n] /\ \A x \in S : rank[x] = Cardinality(Below(x)) + 1
  BY <1>0, <1>1
<1> HIDE DEF rank
<1>5. rank \in Injection(S, 1 .. n)
  <2>1. \A x, y \in S : rank[x] = rank[y] => x = y
    BY <1>1, <1>3, <1>4
  <2>2. QED
    BY <1>4, <2>1 DEF Injection, IsInjective
<1>6. rank \in Surjection(S, 1 .. n)
  <2>1. IsFiniteSet(1 .. n) /\ Cardinality(1 .. n) = n
    BY <1>0, FS_Interval
  <2>2. QED
    BY <1>5, <2>1, FS_Injection
<1>7. \A k \in 1 .. n : \E x \in S : Cardinality(Below(x)) = k - 1
  <2> SUFFICES ASSUME NEW k \in 1 .. n PROVE \E x \in S : Cardinality(Below(x)) = k - 1
    OBVIOUS
  <2>1. PICK x \in S : rank[x] = k
    BY <1>6 DEF Surjection
  <2>2. QED
    BY <1>1, <1>4, <2>1
<1>8. /\ InOrder(S) \in [1 .. n -> S] /\ Len(InOrder(S)) = n
      /\ \A k \in 1 .. n : InOrder(S)[k] \in S /\ Cardinality(Below(InOrder(S)[k])) = k - 1
  <2>1. InOrder(S) = [k \in 1 .. n |-> CHOOSE x \in S : Cardinality(Below(x)) = k - 1]
    BY DEF InOrder, Below
  <2>2. \A k \in 1 .. n : InOrder(S)[k] \in S /\ Cardinality(Below(InOrder(S)[k])) = k - 1
    BY <1>7, <2>1
  <2>3. QED
    BY <1>0, <2>1, <2>2
<1> DEFINE s == InOrder(S)
<1> HIDE DEF s
<1>9. ASSUME NEW i \in 1 .. n, NEW j \in 1 .. n, i < j
      PROVE  s[i] < s[j]
  <2>1. s[i] \in S /\ s[j] \in S /\ Cardinality(Below(s[i])) = i - 1 /\ Cardinality(Below(s[j])) = j - 1
    BY <1>8 DEF s
  <2>2. s[i] \in Nat /\ s[j] \in Nat
    BY <2>1
  <2>3. ~(s[j] < s[i])
    <3> SUFFICES ASSUME s[j] < s[i] PROVE FALSE
      OBVIOUS
    <3>1. Cardinality(Below(s[j])) < Cardinality(Below(s[i]))
      BY <1>2, <2>1
    <3>2. j - 1 < i - 1 /\ i \in Int /\ j \in Int
      BY <2>1, <3>1
    <3>3. QED
      BY <1>9, <3>2
  <2>4. s[i] # s[j]
    <3>1. i - 1 # j - 1
      BY <1>0, <1>9
    <3>2. QED
      BY <2>1, <3>1
  <2>5. QED
    BY <2>2, <2>3, <2>4
<1>10. ASSUME NEW x \in S
       PROVE  \E i \in 1 .. n : s[i] = x
  <2>1. PICK i \in 1 .. n : i = Cardinality(Below(x)) + 1
    BY <1>0, <1>1
  <2>2. s[i] \in S /\ Cardinality(Below(s[i])) = i - 1
    BY <1>8 DEF s
  <2>3. s[i] = x
    <3>1. Cardinality(Below(x)) \in Nat
      BY <1>1
    <3>2. i - 1 = Cardinality(Below(x))
      BY <2>1, <3>1
    <3>3. Cardinality(Below(s[i])) = Cardinality(Below(x))
      BY <2>2, <3>2
    <3>4. QED
      BY <1>3, <2>2, <3>3
  <2>4. QED
    BY <2>3
<1>11. QED
  BY <1>0, <1>8, <1>9, <1>10 DEF s

\* Only one sequence has all of a set from the least on.
LEMMA InOrderUnique ==
    ASSUME NEW S \in SUBSET Nat, NEW n \in Nat, NEW s \in Seq(Nat), Len(s) = n,
           \A u \in 1 .. n : s[u] \in S,
           \A u, v \in 1 .. n : u < v => s[u] < s[v],
           \A x \in S : \E u \in 1 .. n : x = s[u]
    PROVE  IsFiniteSet(S) /\ Cardinality(S) = n /\ InOrder(S) = s
<1>1. s = [u \in 1 .. n |-> s[u]] /\ s \in [1 .. n -> S]
  <2>1. DOMAIN s = 1 .. n /\ s = [u \in DOMAIN s |-> s[u]]
    BY LenProperties
  <2>2. QED
    BY <2>1
<1>2. s \in Bijection(1 .. n, S)
  <2>1. \A u, v \in 1 .. n : s[u] = s[v] => u = v
    <3> SUFFICES ASSUME NEW u \in 1 .. n, NEW v \in 1 .. n, s[u] = s[v] PROVE u = v
      OBVIOUS
    <3>1. s[u] \in Nat /\ s[v] \in Nat
      OBVIOUS
    <3>2. ~(u < v) /\ ~(v < u)
      BY <3>1
    <3>3. QED
      BY <3>2
  <2>2. \A x \in S : \E u \in 1 .. n : s[u] = x
    OBVIOUS
  <2>3. QED
    BY <1>1, <2>1, <2>2 DEF Bijection, Injection, Surjection, IsInjective
<1>3. IsFiniteSet(1 .. n) /\ Cardinality(1 .. n) = n
  BY FS_Interval
<1>4. IsFiniteSet(S) /\ Cardinality(S) = n
  <2>1. ExistsBijection(1 .. n, S)
    BY <1>2 DEF ExistsBijection
  <2>2. QED
    BY <1>3, <2>1, FS_Bijection
<1> DEFINE t == InOrder(S)
<1>5. /\ t = [u \in 1 .. n |-> t[u]]
      /\ \A u \in 1 .. n : t[u] \in S /\ t[u] \in Nat
      /\ \A u, v \in 1 .. n : u < v => t[u] < t[v]
      /\ \A x \in S : \E u \in 1 .. n : t[u] = x
  <2> HIDE DEF t
  <2>0. /\ t \in [1 .. Cardinality(S) -> S]
        /\ \A u, v \in 1 .. Cardinality(S) : u < v => t[u] < t[v]
        /\ \A x \in S : \E u \in 1 .. Cardinality(S) : t[u] = x
    BY <1>4, InOrderCorrect DEF t
  <2>1. /\ t \in [1 .. n -> S]
        /\ \A u, v \in 1 .. n : u < v => t[u] < t[v]
        /\ \A x \in S : \E u \in 1 .. n : t[u] = x
    BY <1>4, <2>0
  <2>2. t = [u \in 1 .. n |-> t[u]] /\ \A u \in 1 .. n : t[u] \in S
    BY <2>1
  <2>3. \A u \in 1 .. n : t[u] \in Nat
    BY <2>2
  <2>4. QED
    BY <2>1, <2>2, <2>3
<1> HIDE DEF t
<1> DEFINE Other == {u \in 1 .. n : s[u] # t[u]}
<1>6. Other = {}
  <2> SUFFICES ASSUME Other # {} PROVE FALSE
    OBVIOUS
  <2>1. PICK u \in Other : \A v \in Other : u <= v
    <3>1. Other \in SUBSET Nat
      OBVIOUS
    <3> HIDE DEF Other
    <3>2. QED
      BY <3>1, LeastOf
  <2>2. u \in 1 .. n /\ s[u] # t[u] /\ s[u] \in S /\ t[u] \in S /\ s[u] \in Nat /\ t[u] \in Nat
    BY <1>5
  <2>3. \A v \in 1 .. n : v < u => s[v] = t[v]
    BY <2>1, <2>2
  <2>4. CASE s[u] < t[u]
    <3>1. PICK v \in 1 .. n : t[v] = s[u]
      BY <1>5, <2>2
    <3>2. ~(u < v) /\ v # u
      <4>1. t[v] \in Nat /\ (u < v => t[u] < t[v])
        BY <1>5, <2>2
      <4>2. QED
        BY <2>2, <2>4, <3>1, <4>1
    <3>3. v < u
      BY <2>2, <3>2
    <3>4. s[v] = s[u] /\ s[v] < s[u]
      BY <2>2, <2>3, <3>1, <3>3
    <3>5. QED
      BY <2>2, <3>4
  <2>5. CASE t[u] < s[u]
    <3>1. PICK v \in 1 .. n : s[v] = t[u]
      BY <2>2
    <3>2. ~(u < v) /\ v # u
      <4>1. s[v] \in Nat /\ (u < v => s[u] < s[v])
        BY <2>2
      <4>2. QED
        BY <2>2, <2>5, <3>1, <4>1
    <3>3. v < u
      BY <2>2, <3>2
    <3>4. t[v] = t[u] /\ t[v] < t[u]
      BY <1>5, <2>2, <2>3, <3>1, <3>3
    <3>5. QED
      BY <2>2, <3>4
  <2>6. QED
    BY <2>2, <2>4, <2>5
<1>7. \A u \in 1 .. n : s[u] = t[u]
  BY <1>6
<1>8. s = t
  BY <1>1, <1>5, <1>7
<1>9. QED
  BY <1>4, <1>8 DEF t

-----------------------------------------------------------------------------
(* Products                                                                *)

\* A product of natural numbers is one.
LEMMA ProductNat ==
    ASSUME NEW a \in Nat, NEW b \in Nat
    PROVE  a * b \in Nat
OBVIOUS

\* A product grows with its first factor.
LEMMA ProductGrows ==
    ASSUME NEW a \in Nat, NEW b \in Nat, NEW c \in Nat, a <= b
    PROVE  a * c \in Nat /\ b * c \in Nat /\ a * c <= b * c
<1>1. PICK d \in Nat : b = a + d
  <2>1. b - a \in Nat /\ b = a + (b - a)
    OBVIOUS
  <2>2. QED
    BY <2>1
<1>2. (a + d) * c = a * c + d * c
  OBVIOUS
<1>3. a * c \in Nat /\ d * c \in Nat
  BY ProductNat
<1>4. QED
  BY <1>1, <1>2, <1>3

\* One more factor is one more summand.
LEMMA OneMore ==
ASSUME NEW a \in Nat, NEW b \in Nat
    PROVE  (a + 1) * b = a * b + b
OBVIOUS

\* What a division leaves.
LEMMA QuotientOf ==
    ASSUME NEW a \in Nat, NEW b \in Nat \ {0}
    PROVE  /\ a \div b \in Nat
           /\ (a \div b) * b <= a
           /\ a < (a \div b) * b + b
OBVIOUS

\* A multiple is divided without rest.
LEMMA QuotientOfProduct ==
    ASSUME NEW a \in Nat, NEW b \in Nat \ {0}
    PROVE  (a * b) \div b = a
<1> DEFINE q == (a * b) \div b
<1>1. a * b \in Nat
  BY ProductNat
<1>2. q \in Nat /\ q * b <= a * b /\ a * b < q * b + b
  BY <1>1, QuotientOf
<1> HIDE DEF q
<1>3. q * b + b = (q + 1) * b
  BY <1>2
<1>4. ~(q + 1 <= a)
  BY <1>2, <1>3, ProductGrows
<1>5. ~(a + 1 <= q)
  <2> SUFFICES ASSUME a + 1 <= q PROVE FALSE
    OBVIOUS
  <2>1. (a + 1) * b <= q * b
    BY <1>2, ProductGrows
  <2>2. (a + 1) * b = a * b + b
    OBVIOUS
  <2>3. QED
    BY <1>1, <1>2, <2>1, <2>2, ProductNat
<1>6. QED
  BY <1>2, <1>4, <1>5 DEF q

-----------------------------------------------------------------------------
(* The parts of a group                                                    *)

\* The configuration and the lengths found: the audio's is a number of frames of each track.
Measured ==
    /\ job \in Jobs
    /\ pos \in 0 .. Size
    /\ packet \in PacketSizes \cup {DefaultPacket}
    /\ total \in Nat
    /\ \E q \in Nat : total = q * Max({1, job.tracks})

\* What is known of a job.
LEMMA JobFacts ==
    ASSUME job \in Jobs
    PROVE  job.tracks \in Nat /\ Size \in Nat /\ Max({1, job.tracks}) \in Nat \ {0}
<1>1. job.tracks \in Nat /\ Size \in Nat
  BY JobsAssumption, FS_CardinalityType DEF Size
<1>2. QED
  BY <1>1, MaxOfTwo

\* The places of a group's parts, in order: packets, frames, audio, the next group.
LEMMA PlacesInOrder ==
    ASSUME Measured, VideoStart <= Size
    PROVE  /\ Packets \in Nat /\ Packets * packet \in Nat
           /\ VideoStart = pos + Packets * packet /\ VideoStart \in Nat
           /\ NextHead \in 0 .. Size
           /\ AudioStart \in Int /\ AudioStart + total = NextHead
           /\ BufEnd \in Int
<1>1. /\ job.tracks \in Nat /\ Size \in Nat /\ pos \in 0 .. Size /\ packet \in Nat /\ total \in Nat
      /\ HeadLen \in Nat /\ BufSize \in Nat /\ MinVideo \in Nat /\ MaxPackets \in Nat
  BY JobFacts, LengthsAssumption DEF Measured
<1>2. Packets \in Nat
  <2> DEFINE S == {n \in 0 .. MaxPackets : n = MaxPackets \/ ~ HeadAt(pos + n * packet)}
  <2>1. S \in SUBSET Nat /\ MaxPackets \in S
    BY <1>1
  <2> HIDE DEF S
  <2>2. Min(S) \in S
    BY <2>1, LeastOf
  <2>3. QED
    BY <2>1, <2>2 DEF Packets, S
<1>3. Packets * packet \in Nat
  BY <1>1, <1>2, ProductNat
<1>4. VideoStart = pos + Packets * packet /\ VideoStart \in Nat
  BY <1>1, <1>3 DEF VideoStart
<1>5. BufEnd \in Int /\ VideoStart <= BufEnd /\ BufEnd <= Size
  <2>1. VideoStart + BufSize \in Int
    BY <1>1, <1>4
  <2>2. BufEnd = IF VideoStart + BufSize <= Size THEN VideoStart + BufSize ELSE Size
    BY <1>1, <2>1, MinOfTwo DEF BufEnd
  <2>3. QED
    BY <1>1, <1>4, <2>2
<1>6. NextHead \in 0 .. Size
  <2> DEFINE room == (BufEnd - VideoStart) \div 4
             skip == Min({MinVideo, room})
             S == {i \in VideoStart + skip .. BufEnd - HeadLen - 1 : HeadAt(i)}
  <2>1. room \in Nat
    BY <1>4, <1>5
  <2> HIDE DEF room
  <2>2. skip \in Nat
    BY <1>1, <2>1, MinOfTwo
  <2> HIDE DEF skip
  <2>3. S \in SUBSET Nat /\ \A i \in S : i \in 0 .. Size
    BY <1>1, <1>4, <1>5, <2>2 DEF HeadAt
  <2>4. NextHead = IF S = {} THEN Size ELSE Min(S)
    BY DEF NextHead, FirstOr, S, skip, room
  <2> HIDE DEF S
  <2>5. S # {} => Min(S) \in S
    BY <2>3, LeastOf
  <2>6. QED
    BY <1>1, <2>3, <2>4, <2>5
<1>7. AudioStart \in Int /\ AudioStart + total = NextHead
  BY <1>1, <1>6 DEF AudioStart
<1>8. QED
  BY <1>2, <1>3, <1>4, <1>5, <1>6, <1>7

\* A group's frames: they follow one another from the first unit to the audio.
LEMMA FramesTile ==
    ASSUME Measured, VideoStart <= Size, Frames # <<>>
    PROVE  /\ Len(Frames) \in Nat \ {0}
           /\ Frames \in [1 .. Len(Frames) -> Nat]
           /\ \A i \in 1 .. Len(Frames) :
                 /\ VideoStart <= Frames[i] /\ Frames[i] < AudioStart
                 /\ FrameSize(i) \in Nat
                 /\ Frames[i] + FrameSize(i) = (IF i < Len(Frames) THEN Frames[i + 1] ELSE AudioStart)
           /\ \A i, j \in 1 .. Len(Frames) : i < j => Frames[i] + FrameSize(i) <= Frames[j]
           /\ \A j \in VideoStart .. Frames[1] - 1 : ~ UnitAt(j)
<1> DEFINE S == {i \in VideoStart .. BufEnd - 2 * AudLen : UnitAt(i) /\ i < AudioStart}
           n == Cardinality(S)
<1>1. VideoStart \in Nat /\ AudioStart \in Int /\ BufEnd \in Int /\ AudLen \in Nat
  BY PlacesInOrder, LengthsAssumption
<1>2. S \in SUBSET Nat /\ IsFiniteSet(S)
  <2>1. IsFiniteSet(VideoStart .. BufEnd - 2 * AudLen)
    BY <1>1, FS_Interval
  <2>2. S \in SUBSET (VideoStart .. BufEnd - 2 * AudLen)
    OBVIOUS
  <2>3. S \in SUBSET Nat
    BY <1>1
  <2> HIDE DEF S
  <2>4. QED
    BY <2>1, <2>2, <2>3, FS_Subset
<1>3. \A i \in S : VideoStart <= i /\ i < AudioStart /\ i <= BufEnd - 2 * AudLen
  BY <1>1
<1>4. Frames = InOrder(S)
  BY DEF Frames
<1>5. ASSUME NEW j \in Nat, VideoStart <= j, j <= BufEnd - 2 * AudLen, UnitAt(j), j < AudioStart
      PROVE  j \in S
  BY <1>1, <1>5
<1> HIDE DEF S
<1>6. /\ n \in Nat /\ Len(Frames) = n /\ Frames \in [1 .. n -> S]
      /\ \A i, j \in 1 .. n : i < j => Frames[i] < Frames[j]
      /\ \A x \in S : \E i \in 1 .. n : Frames[i] = x
  BY <1>2, <1>4, InOrderCorrect
<1> HIDE DEF n
<1>7. n # 0
  <2> SUFFICES ASSUME n = 0 PROVE FALSE
    OBVIOUS
  <2>1. S = {}
    BY <1>6
  <2>2. Frames = <<>>
    BY <1>4, <2>1, FS_EmptySet DEF InOrder
  <2>3. QED
    BY <2>2
<1>8. \A i \in 1 .. n : Frames[i] \in S /\ Frames[i] \in Nat /\ VideoStart <= Frames[i] /\ Frames[i] < AudioStart
                        /\ Frames[i] <= BufEnd - 2 * AudLen
  BY <1>2, <1>3, <1>6
<1>9. \A i \in 1 .. n : FrameSize(i) = (IF i < n THEN Frames[i + 1] ELSE AudioStart) - Frames[i]
  BY <1>6 DEF FrameSize
<1>10. ASSUME NEW i \in 1 .. n
       PROVE  /\ FrameSize(i) \in Nat
              /\ Frames[i] + FrameSize(i) = (IF i < n THEN Frames[i + 1] ELSE AudioStart)
  <2>1. CASE i < n
    <3>1. i + 1 \in 1 .. n /\ Frames[i] < Frames[i + 1]
      BY <1>6, <2>1
    <3>2. QED
      BY <1>8, <1>9, <2>1, <3>1
  <2>2. CASE ~(i < n)
    BY <1>1, <1>8, <1>9, <2>2
  <2>3. QED
    BY <2>1, <2>2
<1>11. ASSUME NEW i \in 1 .. n, NEW j \in 1 .. n, i < j
       PROVE  Frames[i] + FrameSize(i) <= Frames[j]
  <2>1. i < n /\ i + 1 \in 1 .. n
    BY <1>6, <1>11
  <2>2. Frames[i] + FrameSize(i) = Frames[i + 1]
    BY <1>10, <2>1
  <2>3. i + 1 = j \/ i + 1 < j
    BY <1>6, <1>11
  <2>4. QED
    BY <1>6, <1>8, <2>1, <2>2, <2>3
<1>12. ASSUME NEW j \in VideoStart .. Frames[1] - 1, UnitAt(j)
       PROVE  FALSE
  <2>1. 1 \in 1 .. n
    BY <1>6, <1>7
  <2>2. j \in S
    BY <1>1, <1>5, <1>8, <1>12, <2>1
  <2>3. PICK i \in 1 .. n : Frames[i] = j
    BY <1>6, <2>2
  <2>4. i = 1 \/ 1 < i
    BY <1>6
  <2>5. Frames[1] <= Frames[i]
    BY <1>6, <1>8, <2>1, <2>4
  <2>6. QED
    BY <1>8, <1>12, <2>1, <2>3, <2>5
<1>13. QED
  BY <1>2, <1>6, <1>7, <1>8, <1>10, <1>11, <1>12

-----------------------------------------------------------------------------
(* What a group adds                                                       *)

Typed ==
    /\ Measured
    /\ state \in {"detect", "groups", "saved", "failed"}
    /\ video.chunks \in Seq(ChunkType) /\ meta \in Seq(ChunkType)
    /\ audio \in [1 .. job.tracks -> Seq(ChunkType)]

\* The chunks the group at pos adds to each track.
Added ==
    [t \in -1 .. job.tracks |->
        IF t = -1 THEN [i \in 1 .. Len(Frames) |-> Chunk(Frames[i], FrameSize(i), 1)]
        ELSE IF t = 0 THEN <<Chunk(pos, Packets * packet, Packets)>>
        ELSE <<AudioChunks[t]>>]

\* The audio of a track: behind that of the tracks before it, and within the group's audio.
LEMMA AudioPlaces ==
    ASSUME Measured, VideoStart <= Size, Frames # <<>>, NEW t \in 1 .. job.tracks
    PROVE  /\ AudioChunks[t] \in ChunkType
           /\ AudioStart <= AudioChunks[t].off
           /\ AudioChunks[t].off + AudioChunks[t].size <= AudioStart + total
           /\ AudioChunks[t].off = AudioStart + (t - 1) * (total \div job.tracks)
           /\ AudioChunks[t].size = total \div job.tracks
           /\ \A u \in 1 .. job.tracks : t < u => AudioChunks[t].off + AudioChunks[t].size <= AudioChunks[u].off
<1> DEFINE each == total \div job.tracks
<1>1. job.tracks \in Nat \ {0} /\ total \in Nat
  BY JobFacts DEF Measured
<1>2. each \in Nat /\ each * job.tracks <= total
  BY <1>1, QuotientOf
<1>3. AudioStart \in Nat
  <2>1. 1 \in 1 .. Len(Frames)
    BY FramesTile
  <2>2. Frames[1] \in Nat /\ Frames[1] < AudioStart /\ AudioStart \in Int
    BY <2>1, FramesTile, PlacesInOrder
  <2>3. QED
    BY <2>2
<1> HIDE DEF each
<1>4. \A u \in 1 .. job.tracks :
        /\ AudioChunks[u].off = AudioStart + (u - 1) * each /\ AudioChunks[u].size = each
        /\ AudioChunks[u] = Chunk(AudioChunks[u].off, each, each)
  <2> SUFFICES ASSUME NEW u \in 1 .. job.tracks
               PROVE  /\ AudioChunks[u].off = AudioStart + (u - 1) * each /\ AudioChunks[u].size = each
                      /\ AudioChunks[u] = Chunk(AudioChunks[u].off, each, each)
    OBVIOUS
  <2> DEFINE place == AudioStart + (u - 1) * each
  <2>1. AudioChunks[u] = Chunk(place, each, each)
    BY DEF AudioChunks, each
  <2> HIDE DEF place
  <2>2. AudioChunks[u].off = place /\ AudioChunks[u].size = each
    BY <2>1 DEF Chunk
  <2>3. QED
    BY <2>1, <2>2 DEF place
<1>5. \A u \in 1 .. job.tracks : (u - 1) * each \in Nat /\ u * each \in Nat /\ u * each = (u - 1) * each + each
  <2> SUFFICES ASSUME NEW u \in 1 .. job.tracks
               PROVE  (u - 1) * each \in Nat /\ u * each \in Nat /\ u * each = (u - 1) * each + each
    OBVIOUS
  <2>1. u - 1 \in Nat /\ u \in Nat
    BY <1>1
  <2>2. (u - 1) * each \in Nat /\ u * each \in Nat
    BY <1>2, <2>1, ProductNat
  <2>3. u * each = (u - 1) * each + each
    BY <1>2, <2>1
  <2>4. QED
    BY <2>2, <2>3
<1>6. t * each <= each * job.tracks
  <2>1. t \in Nat /\ job.tracks \in Nat /\ t <= job.tracks
    BY <1>1
  <2>2. t * each <= job.tracks * each
    BY <1>2, <2>1, ProductGrows
  <2>3. job.tracks * each = each * job.tracks
    BY <1>1, <1>2
  <2>4. QED
    BY <2>2, <2>3
<1>7. each * job.tracks \in Nat
  BY <1>1, <1>2, ProductNat
<1>8. ASSUME NEW u \in 1 .. job.tracks, t < u
      PROVE  t * each <= (u - 1) * each
  <2>1. t \in Nat /\ u - 1 \in Nat /\ t <= u - 1
    BY <1>1, <1>8
  <2>2. QED
    BY <1>2, <2>1, ProductGrows
<1>9. AudioChunks[t] \in ChunkType
  <2>1. AudioChunks[t] = Chunk(AudioChunks[t].off, each, each)
    BY <1>4
  <2>2. AudioChunks[t].off \in Nat
    <3>1. AudioChunks[t].off = AudioStart + (t - 1) * each
      BY <1>4
    <3>2. (t - 1) * each \in Nat
      BY <1>5
    <3>3. QED
      BY <1>3, <3>1, <3>2
  <2>3. QED
    BY <1>2, <2>1, <2>2 DEF Chunk, ChunkType
<1>10. AudioChunks[t].off = AudioStart + (t - 1) * each /\ AudioChunks[t].size = each
  BY <1>4
<1>11. ASSUME NEW u \in 1 .. job.tracks, t < u
       PROVE  AudioChunks[t].off + AudioChunks[t].size <= AudioChunks[u].off
  <2>1. AudioChunks[u].off = AudioStart + (u - 1) * each
    BY <1>4
  <2>2. QED
    BY <1>2, <1>3, <1>5, <1>8, <1>10, <1>11, <2>1
<1>12. /\ AudioStart <= AudioChunks[t].off
       /\ AudioChunks[t].off + AudioChunks[t].size <= AudioStart + total
  BY <1>1, <1>2, <1>3, <1>5, <1>6, <1>7, <1>10
<1>13. QED
  BY <1>9, <1>10, <1>11, <1>12 DEF each

\* A chunk of the group: its type, and where it lies.
LEMMA AddedFacts ==
    ASSUME Measured, VideoStart <= Size, Frames # <<>>
    PROVE  /\ Added \in [-1 .. job.tracks -> Seq(ChunkType)]
           /\ Len(Added[-1]) = Len(Frames)
           /\ \A i \in 1 .. Len(Frames) : Added[-1][i].off = Frames[i] /\ Added[-1][i].size = FrameSize(i)
           /\ Len(Added[0]) = 1 /\ Added[0][1].off = pos /\ Added[0][1].size = Packets * packet
           /\ \A t \in 1 .. job.tracks : Len(Added[t]) = 1 /\ Added[t][1] = AudioChunks[t]
<1>1. job.tracks \in Nat /\ pos \in Nat
  BY JobFacts DEF Measured
<1>2. Packets \in Nat /\ Packets * packet \in Nat
  BY PlacesInOrder
<1>3. /\ Added[-1] = [i \in 1 .. Len(Frames) |-> Chunk(Frames[i], FrameSize(i), 1)]
      /\ Added[0] = <<Chunk(pos, Packets * packet, Packets)>>
      /\ \A t \in 1 .. job.tracks : Added[t] = <<AudioChunks[t]>>
      /\ DOMAIN Added = -1 .. job.tracks
      /\ Added = [t \in -1 .. job.tracks |-> Added[t]]
  BY <1>1 DEF Added
<1>4. Added[-1] \in Seq(ChunkType) /\ Len(Added[-1]) = Len(Frames)
  <2>1. Len(Frames) \in Nat
    BY FramesTile
  <2>2. \A i \in 1 .. Len(Frames) : Chunk(Frames[i], FrameSize(i), 1) \in ChunkType
    BY FramesTile DEF Chunk, ChunkType
  <2>3. QED
    BY <1>3, <2>1, <2>2
<1>5. \A i \in 1 .. Len(Frames) : Added[-1][i].off = Frames[i] /\ Added[-1][i].size = FrameSize(i)
  BY <1>3 DEF Chunk
<1>6. Chunk(pos, Packets * packet, Packets) \in ChunkType
  BY <1>1, <1>2 DEF Chunk, ChunkType
<1>7. Added[0] \in Seq(ChunkType) /\ Len(Added[0]) = 1 /\ Added[0][1] = Chunk(pos, Packets * packet, Packets)
  BY <1>3, <1>6
<1>8. \A t \in 1 .. job.tracks : Added[t] \in Seq(ChunkType) /\ Len(Added[t]) = 1 /\ Added[t][1] = AudioChunks[t]
  <2> SUFFICES ASSUME NEW t \in 1 .. job.tracks
               PROVE  Added[t] \in Seq(ChunkType) /\ Len(Added[t]) = 1 /\ Added[t][1] = AudioChunks[t]
    OBVIOUS
  <2>1. AudioChunks[t] \in ChunkType
    BY AudioPlaces
  <2>2. Added[t] = <<AudioChunks[t]>>
    BY <1>3
  <2>3. QED
    BY <2>1, <2>2
<1>9. \A t \in -1 .. job.tracks : t = -1 \/ t = 0 \/ t \in 1 .. job.tracks
  BY <1>1
<1>10. \A t \in -1 .. job.tracks : Added[t] \in Seq(ChunkType)
  BY <1>4, <1>7, <1>8, <1>9
<1>11. Added[0][1].off = pos /\ Added[0][1].size = Packets * packet
  BY <1>7 DEF Chunk
<1>12. Added \in [-1 .. job.tracks -> Seq(ChunkType)]
  BY <1>3, <1>10
<1>13. QED
  BY <1>4, <1>5, <1>7, <1>8, <1>11, <1>12

\* The chunks of all tracks after a group: those before, and the group's.
LEMMA GroupAdds ==
    ASSUME Typed, Group
    PROVE  /\ Chunks \in [-1 .. job.tracks -> Seq(ChunkType)]
           /\ Chunks' = [t \in -1 .. job.tracks |-> Chunks[t] \o Added[t]]
           /\ pos' = NextHead /\ job' = job
           /\ video'.chunks \in Seq(ChunkType) /\ meta' \in Seq(ChunkType)
           /\ audio' \in [1 .. job.tracks -> Seq(ChunkType)]
<1>1. Measured /\ VideoStart <= Size /\ Frames # <<>> /\ job' = job
  BY DEF Typed, Group
<1>2. job.tracks \in Nat
  BY <1>1, JobFacts DEF Measured
<1>3. \A t \in -1 .. job.tracks : t = -1 \/ t = 0 \/ (t \in 1 .. job.tracks /\ t # -1 /\ t # 0)
  BY <1>2
<1>4. /\ Chunks = [t \in -1 .. job.tracks |-> Chunks[t]]
      /\ Chunks[-1] = video.chunks /\ Chunks[0] = meta /\ \A t \in 1 .. job.tracks : Chunks[t] = audio[t]
  BY <1>2 DEF Chunks
<1>5. \A t \in -1 .. job.tracks : Chunks[t] \in Seq(ChunkType)
  BY <1>3, <1>4 DEF Typed
<1>6. Chunks \in [-1 .. job.tracks -> Seq(ChunkType)]
  BY <1>4, <1>5
<1>7. /\ Chunks' = [t \in -1 .. job.tracks |-> Chunks'[t]]
      /\ Chunks'[-1] = video'.chunks /\ Chunks'[0] = meta' /\ \A t \in 1 .. job.tracks : Chunks'[t] = audio'[t]
  BY <1>1, <1>2 DEF Chunks
<1>8. \A t \in -1 .. job.tracks : Added[t] \in Seq(ChunkType)
  BY <1>1, AddedFacts
<1>9. video'.chunks = Chunks[-1] \o Added[-1]
  <2>1. Added[-1] = [i \in 1 .. Len(Frames) |-> Chunk(Frames[i], FrameSize(i), 1)]
    BY <1>2 DEF Added
  <2>2. video'.chunks = video.chunks \o [i \in 1 .. Len(Frames) |-> Chunk(Frames[i], [k \in 1 .. Len(Frames) |-> FrameSize(k)][i], 1)]
    BY DEF Group
  <2>3. [i \in 1 .. Len(Frames) |-> Chunk(Frames[i], [k \in 1 .. Len(Frames) |-> FrameSize(k)][i], 1)]
        = [i \in 1 .. Len(Frames) |-> Chunk(Frames[i], FrameSize(i), 1)]
    OBVIOUS
  <2>4. QED
    BY <1>4, <2>1, <2>2, <2>3
<1>10. meta' = Chunks[0] \o Added[0]
  <2>1. Added[0] = <<Chunk(pos, Packets * packet, Packets)>>
    BY <1>2 DEF Added
  <2>2. meta' = Append(meta, Chunk(pos, Packets * packet, Packets))
    BY DEF Group
  <2>3. Chunk(pos, Packets * packet, Packets) \in ChunkType
    BY <1>1, PlacesInOrder, JobFacts DEF Chunk, ChunkType, Measured
  <2>4. QED
    BY <1>4, <2>1, <2>2, <2>3, AppendIsConcat DEF Typed
<1>11. \A t \in 1 .. job.tracks : audio'[t] = Chunks[t] \o Added[t]
  <2> SUFFICES ASSUME NEW t \in 1 .. job.tracks PROVE audio'[t] = Chunks[t] \o Added[t]
    OBVIOUS
  <2>1. Added[t] = <<AudioChunks[t]>>
    BY <1>2 DEF Added
  <2>2. audio'[t] = Append(audio[t], AudioChunks[t])
    BY DEF Group
  <2>3. AudioChunks[t] \in ChunkType /\ audio[t] \in Seq(ChunkType)
    BY <1>1, AudioPlaces DEF Typed
  <2>4. Append(audio[t], AudioChunks[t]) = audio[t] \o <<AudioChunks[t]>>
    BY <2>3, AppendIsConcat
  <2>5. Chunks[t] = audio[t]
    BY <1>4
  <2>6. QED
    BY <2>1, <2>2, <2>4, <2>5
<1>12. \A t \in -1 .. job.tracks : Chunks'[t] = Chunks[t] \o Added[t]
  BY <1>3, <1>7, <1>9, <1>10, <1>11
<1>13. Chunks' = [t \in -1 .. job.tracks |-> Chunks[t] \o Added[t]]
  BY <1>7, <1>12
<1>14. \A t \in -1 .. job.tracks : Chunks'[t] \in Seq(ChunkType)
  <2> SUFFICES ASSUME NEW t \in -1 .. job.tracks PROVE Chunks'[t] \in Seq(ChunkType)
    OBVIOUS
  <2>1. Chunks[t] \in Seq(ChunkType) /\ Added[t] \in Seq(ChunkType)
    BY <1>5, <1>8
  <2>2. Chunks[t] \o Added[t] \in Seq(ChunkType)
    BY <2>1, ConcatProperties
  <2>3. QED
    BY <1>12, <2>2
<1>15. audio' \in [1 .. job.tracks -> Seq(ChunkType)]
  <2>1. audio' = [t \in 1 .. job.tracks |-> audio'[t]]
    BY DEF Group
  <2>2. \A t \in 1 .. job.tracks : audio'[t] \in Seq(ChunkType)
    BY <1>2, <1>7, <1>14
  <2>3. QED
    BY <2>1, <2>2
<1>16. video'.chunks \in Seq(ChunkType) /\ meta' \in Seq(ChunkType)
  BY <1>2, <1>7, <1>14
<1>17. pos' = NextHead
  BY <1>1, PlacesInOrder DEF Group
<1>18. QED
  BY <1>1, <1>6, <1>13, <1>15, <1>16, <1>17

-----------------------------------------------------------------------------
(* No byte in two chunks                                                   *)

Apart(c, d) == c.off + c.size <= d.off \/ d.off + d.size <= c.off

\* The chunks of some tracks end at end, and lie one behind the other.
ApartIn(chunks, end) ==
    /\ \A t \in DOMAIN chunks : \A k \in DOMAIN chunks[t] : chunks[t][k].off + chunks[t][k].size <= end
    /\ \A t, u \in DOMAIN chunks : \A k \in DOMAIN chunks[t], l \in DOMAIN chunks[u] :
          t # u \/ k # l => Apart(chunks[t][k], chunks[u][l])

\* What ends before a place and what begins behind it are apart.
LEMMA ApartAt ==
    ASSUME NEW m \in Int, NEW c \in ChunkType, NEW d \in ChunkType, c.off + c.size <= m, m <= d.off
    PROVE  Apart(c, d) /\ Apart(d, c)
<1>1. c.off + c.size \in Int /\ d.off \in Int
  BY DEF ChunkType
<1>2. c.off + c.size <= d.off
  BY <1>1
<1>3. QED
  BY <1>2 DEF Apart

\* A chunk of a track.
LEMMA ChunkFacts ==
    ASSUME NEW s \in Seq(ChunkType), NEW k \in DOMAIN s
    PROVE  s[k].off \in Nat /\ s[k].size \in Nat
<1>1. s[k] \in ChunkType
  BY LenProperties
<1>2. QED
  BY <1>1 DEF ChunkType

\* Chunks that lie behind the ones there are can be added to them.
LEMMA ApartExtends ==
    ASSUME NEW D, NEW old \in [D -> Seq(ChunkType)], NEW more \in [D -> Seq(ChunkType)],
           NEW from \in Nat, NEW end \in Nat, from <= end,
           ApartIn(old, from), ApartIn(more, end),
           \A t \in D : \A k \in DOMAIN more[t] : from <= more[t][k].off
    PROVE  ApartIn([t \in D |-> old[t] \o more[t]], end)
<1> DEFINE new == [t \in D |-> old[t] \o more[t]]
           IsOld(t, k) == k \in DOMAIN old[t] /\ new[t][k] = old[t][k]
           IsNew(t, k) == k - Len(old[t]) \in DOMAIN more[t] /\ new[t][k] = more[t][k - Len(old[t])]
<1>1. DOMAIN new = D /\ \A t \in D : new[t] = old[t] \o more[t]
  OBVIOUS
<1>2. \A t \in D : old[t] \in Seq(ChunkType) /\ more[t] \in Seq(ChunkType)
  OBVIOUS
<1> HIDE DEF new
<1>3. ASSUME NEW t \in D, NEW k \in DOMAIN new[t]
      PROVE  k \in Int /\ Len(old[t]) \in Nat /\ (IsOld(t, k) \/ IsNew(t, k))
  <2>1. /\ Len(old[t]) \in Nat /\ Len(more[t]) \in Nat
        /\ DOMAIN old[t] = 1 .. Len(old[t]) /\ DOMAIN more[t] = 1 .. Len(more[t])
    BY <1>2, LenProperties
  <2>2. /\ DOMAIN new[t] = 1 .. Len(old[t]) + Len(more[t])
        /\ \A i \in 1 .. Len(old[t]) + Len(more[t]) :
              new[t][i] = IF i <= Len(old[t]) THEN old[t][i] ELSE more[t][i - Len(old[t])]
    <3>1. old[t] \o more[t] \in Seq(ChunkType) /\ Len(old[t] \o more[t]) = Len(old[t]) + Len(more[t])
      BY <1>2, ConcatProperties
    <3>2. DOMAIN (old[t] \o more[t]) = 1 .. Len(old[t]) + Len(more[t])
      BY <3>1, LenProperties
    <3>3. QED
      BY <1>1, <1>2, <3>2, ConcatProperties
  <2>3. k \in 1 .. Len(old[t]) + Len(more[t])
    BY <2>2
  <2>4. CASE k <= Len(old[t])
    BY <2>1, <2>2, <2>3, <2>4
  <2>5. CASE ~(k <= Len(old[t]))
    <3>1. k - Len(old[t]) \in 1 .. Len(more[t])
      BY <2>1, <2>3, <2>5
    <3>2. new[t][k] = more[t][k - Len(old[t])]
      BY <2>2, <2>3, <2>5
    <3>3. QED
      BY <2>1, <2>3, <3>1, <3>2
  <2>6. QED
    BY <2>4, <2>5
<1>4. \A t \in D : \A k \in DOMAIN old[t] : old[t][k].off \in Nat /\ old[t][k].size \in Nat /\ old[t][k].off + old[t][k].size <= from
  BY <1>2, ChunkFacts DEF ApartIn
<1>5. \A t \in D : \A k \in DOMAIN more[t] :
        more[t][k].off \in Nat /\ more[t][k].size \in Nat /\ more[t][k].off + more[t][k].size <= end /\ from <= more[t][k].off
  BY <1>2, ChunkFacts DEF ApartIn
<1>6. ASSUME NEW t \in D, NEW k \in DOMAIN new[t]
      PROVE  new[t][k].off + new[t][k].size <= end
  <2>1. CASE IsOld(t, k)
    BY <1>4, <2>1
  <2>2. CASE IsNew(t, k)
    BY <1>5, <2>2
  <2>3. QED
    BY <1>3, <2>1, <2>2
<1>7. ASSUME NEW t \in D, NEW u \in D, NEW k \in DOMAIN new[t], NEW l \in DOMAIN new[u], t # u \/ k # l
      PROVE  Apart(new[t][k], new[u][l])
  <2>1. CASE IsOld(t, k) /\ IsOld(u, l)
    <3>1. Apart(old[t][k], old[u][l])
      BY <1>7, <2>1 DEF ApartIn
    <3>2. QED
      BY <2>1, <3>1
  <2>2. CASE IsNew(t, k) /\ IsNew(u, l)
    <3>1. t # u \/ k - Len(old[t]) # l - Len(old[u])
      BY <1>3, <1>7
    <3>2. Apart(more[t][k - Len(old[t])], more[u][l - Len(old[u])])
      BY <2>2, <3>1 DEF ApartIn
    <3>3. QED
      BY <2>2, <3>2
  <2>3. CASE IsOld(t, k) /\ IsNew(u, l)
    <3>1. old[t][k].off + old[t][k].size <= from /\ old[t][k].off \in Nat /\ old[t][k].size \in Nat
      BY <1>4, <2>3
    <3>2. from <= more[u][l - Len(old[u])].off /\ more[u][l - Len(old[u])].off \in Nat
      BY <1>5, <2>3
    <3>3. QED
      BY <2>3, <3>1, <3>2 DEF Apart
  <2>4. CASE IsNew(t, k) /\ IsOld(u, l)
    <3>1. old[u][l].off + old[u][l].size <= from /\ old[u][l].off \in Nat /\ old[u][l].size \in Nat
      BY <1>4, <2>4
    <3>2. from <= more[t][k - Len(old[t])].off /\ more[t][k - Len(old[t])].off \in Nat
      BY <1>5, <2>4
    <3>3. QED
      BY <2>4, <3>1, <3>2 DEF Apart
  <2>5. QED
    BY <1>3, <2>1, <2>2, <2>3, <2>4
<1>8. ApartIn(new, end)
  BY <1>1, <1>6, <1>7 DEF ApartIn
<1>9. QED
  BY <1>8 DEF new

\* The chunks of one group lie one behind the other, from its packets to the next group.
LEMMA AddedApart ==
    ASSUME Measured, VideoStart <= Size, Frames # <<>>
    PROVE  /\ ApartIn(Added, NextHead)
           /\ \A t \in DOMAIN Added : \A k \in DOMAIN Added[t] : pos <= Added[t][k].off
           /\ pos <= NextHead
<1>1. job.tracks \in Nat /\ pos \in Nat /\ total \in Nat
  BY JobFacts DEF Measured
<1>2. /\ VideoStart \in Nat /\ Packets * packet \in Nat /\ VideoStart = pos + Packets * packet
      /\ NextHead \in Int /\ AudioStart \in Int /\ AudioStart + total = NextHead
  BY PlacesInOrder, JobFacts DEF Measured
<1>3. /\ Added \in [-1 .. job.tracks -> Seq(ChunkType)]
      /\ DOMAIN Added[-1] = 1 .. Len(Frames) /\ DOMAIN Added[0] = {1}
      /\ \A t \in 1 .. job.tracks : DOMAIN Added[t] = {1}
  <2>1. /\ Added \in [-1 .. job.tracks -> Seq(ChunkType)] /\ Len(Added[-1]) = Len(Frames)
        /\ Len(Added[0]) = 1 /\ \A t \in 1 .. job.tracks : Len(Added[t]) = 1
    BY AddedFacts
  <2>2. -1 \in -1 .. job.tracks /\ 0 \in -1 .. job.tracks /\ \A t \in 1 .. job.tracks : t \in -1 .. job.tracks
    BY <1>1
  <2>3. \A t \in -1 .. job.tracks : DOMAIN Added[t] = 1 .. Len(Added[t])
    BY <2>1, LenProperties
  <2>4. 1 .. 1 = {1}
    OBVIOUS
  <2>5. QED
    BY <2>1, <2>2, <2>3, <2>4
<1>4. \A t \in -1 .. job.tracks : \A k \in DOMAIN Added[t] : Added[t][k].off \in Nat /\ Added[t][k].size \in Nat
  BY <1>3, ChunkFacts
<1>5. ASSUME NEW k \in DOMAIN Added[-1]
      PROVE  VideoStart <= Added[-1][k].off /\ Added[-1][k].off + Added[-1][k].size <= AudioStart
  <2>1. k \in 1 .. Len(Frames) /\ Added[-1][k].off = Frames[k] /\ Added[-1][k].size = FrameSize(k)
    BY <1>3, AddedFacts
  <2>2. /\ VideoStart <= Frames[k] /\ Len(Frames) \in Nat
        /\ Frames[k] + FrameSize(k) = (IF k < Len(Frames) THEN Frames[k + 1] ELSE AudioStart)
    BY <2>1, FramesTile
  <2>3. CASE k < Len(Frames)
    <3>1. k + 1 \in 1 .. Len(Frames)
      BY <2>1, <2>2, <2>3
    <3>2. Frames[k + 1] < AudioStart /\ Frames[k + 1] \in Nat
      BY <3>1, FramesTile
    <3>3. QED
      BY <1>2, <2>1, <2>2, <2>3, <3>2
  <2>4. CASE ~(k < Len(Frames))
    BY <1>2, <2>1, <2>2, <2>4
  <2>5. QED
    BY <2>3, <2>4
<1>6. Added[0][1].off = pos /\ Added[0][1].off + Added[0][1].size = VideoStart
  BY <1>2, AddedFacts
<1>7. ASSUME NEW t \in 1 .. job.tracks
      PROVE  /\ AudioStart <= Added[t][1].off /\ Added[t][1].off + Added[t][1].size <= NextHead
             /\ \A u \in 1 .. job.tracks : t < u => Added[t][1].off + Added[t][1].size <= Added[u][1].off
  <2>1. \A u \in 1 .. job.tracks : Added[u][1] = AudioChunks[u]
    BY AddedFacts
  <2>2. QED
    BY <1>2, <2>1, AudioPlaces
<1>8. VideoStart <= AudioStart
  <2>1. 1 \in 1 .. Len(Frames)
    BY FramesTile
  <2>2. VideoStart <= Frames[1] /\ Frames[1] < AudioStart /\ Frames[1] \in Nat
    BY <2>1, FramesTile
  <2>3. QED
    BY <1>2, <2>2
<1>9. pos <= VideoStart /\ AudioStart <= NextHead /\ pos <= NextHead
  BY <1>1, <1>2, <1>8
<1>10. DOMAIN Added = -1 .. job.tracks /\ \A t \in -1 .. job.tracks : t = -1 \/ t = 0 \/ t \in 1 .. job.tracks
  BY <1>1, <1>3
<1>11. ASSUME NEW t \in -1 .. job.tracks, NEW k \in DOMAIN Added[t]
       PROVE  pos <= Added[t][k].off /\ Added[t][k].off + Added[t][k].size <= NextHead
  <2>1. Added[t][k].off \in Nat /\ Added[t][k].size \in Nat
    BY <1>4
  <2>2. CASE t = -1
    <3>1. VideoStart <= Added[t][k].off /\ Added[t][k].off + Added[t][k].size <= AudioStart
      BY <1>5, <2>2
    <3>2. VideoStart \in Int /\ AudioStart \in Int /\ NextHead \in Int
      BY <1>2
    <3>3. QED
      BY <1>1, <1>9, <2>1, <3>1, <3>2
  <2>3. CASE t = 0
    <3>1. k = 1
      BY <1>3, <2>3
    <3>2. Added[t][k].off = pos /\ Added[t][k].off + Added[t][k].size = VideoStart
      BY <1>6, <2>3, <3>1
    <3>3. QED
      BY <1>1, <1>2, <1>8, <1>9, <2>1, <3>2
  <2>4. CASE t \in 1 .. job.tracks
    <3>1. k = 1
      BY <1>3, <2>4
    <3>2. AudioStart <= Added[t][k].off /\ Added[t][k].off + Added[t][k].size <= NextHead
      BY <1>7, <2>4, <3>1
    <3>3. QED
      BY <1>1, <1>2, <1>8, <1>9, <2>1, <3>2
  <2>5. QED
    BY <1>10, <2>2, <2>3, <2>4
\* Frames before audio, packets before both.
<1>12. ASSUME NEW t \in -1 .. job.tracks, NEW u \in -1 .. job.tracks,
              NEW k \in DOMAIN Added[t], NEW l \in DOMAIN Added[u], t # u \/ k # l
       PROVE  Apart(Added[t][k], Added[u][l])
  <2>1. /\ Added[t][k].off \in Nat /\ Added[t][k].size \in Nat
        /\ Added[u][l].off \in Nat /\ Added[u][l].size \in Nat
    BY <1>4
  <2>2. ASSUME NEW v \in -1 .. job.tracks, NEW m \in DOMAIN Added[v]
        PROVE  /\ v = -1 => VideoStart <= Added[v][m].off /\ Added[v][m].off + Added[v][m].size <= AudioStart
               /\ v = 0 => Added[v][m].off + Added[v][m].size = VideoStart
               /\ v \in 1 .. job.tracks => m = 1 /\ AudioStart <= Added[v][m].off
    <3>1. v = -1 => VideoStart <= Added[v][m].off /\ Added[v][m].off + Added[v][m].size <= AudioStart
      BY <1>5
    <3>2. v = 0 => Added[v][m].off + Added[v][m].size = VideoStart
      BY <1>3, <1>6
    <3>3. v \in 1 .. job.tracks => m = 1 /\ AudioStart <= Added[v][m].off
      BY <1>3, <1>7
    <3>4. QED
      BY <3>1, <3>2, <3>3
  <2>3. CASE t = -1 /\ u = -1
    <3>1. /\ k \in 1 .. Len(Frames) /\ l \in 1 .. Len(Frames) /\ k # l
          /\ Added[t][k].off = Frames[k] /\ Added[t][k].size = FrameSize(k)
          /\ Added[u][l].off = Frames[l] /\ Added[u][l].size = FrameSize(l)
      BY <1>3, <1>12, <2>3, AddedFacts
    <3>2. k < l \/ l < k
      BY <3>1
    <3>3. Frames[k] + FrameSize(k) <= Frames[l] \/ Frames[l] + FrameSize(l) <= Frames[k]
      BY <3>1, <3>2, FramesTile
    <3>4. QED
      BY <3>1, <3>3 DEF Apart
  <2>4. CASE t = 0 /\ u = 0
    <3>1. k = 1 /\ l = 1
      BY <1>3, <2>4
    <3>2. QED
      BY <1>12, <2>4, <3>1
  <2>5. CASE t \in 1 .. job.tracks /\ u \in 1 .. job.tracks
    <3>1. k = 1 /\ l = 1
      BY <1>3, <2>5
    <3>2. t < u \/ u < t
      BY <1>1, <1>12, <2>5, <3>1
    <3>3. QED
      BY <1>7, <2>5, <3>1, <3>2 DEF Apart
  <2> DEFINE c == Added[t][k]
             d == Added[u][l]
  <2>a. c \in ChunkType /\ d \in ChunkType /\ VideoStart \in Int /\ AudioStart \in Int
    BY <1>2, <1>3, LenProperties
  <2>b. /\ t = -1 => VideoStart <= c.off /\ c.off + c.size <= AudioStart
        /\ t = 0 => c.off + c.size <= VideoStart /\ c.off + c.size <= AudioStart
        /\ t \in 1 .. job.tracks => AudioStart <= c.off
    <3>1. /\ t = -1 => VideoStart <= c.off /\ c.off + c.size <= AudioStart
          /\ t = 0 => c.off + c.size = VideoStart
          /\ t \in 1 .. job.tracks => AudioStart <= c.off
      BY <2>2
    <3> HIDE DEF c
    <3>2. QED
      BY <1>8, <2>a, <3>1
  <2>c. /\ u = -1 => VideoStart <= d.off /\ d.off + d.size <= AudioStart
        /\ u = 0 => d.off + d.size <= VideoStart /\ d.off + d.size <= AudioStart
        /\ u \in 1 .. job.tracks => AudioStart <= d.off
    <3>1. /\ u = -1 => VideoStart <= d.off /\ d.off + d.size <= AudioStart
          /\ u = 0 => d.off + d.size = VideoStart
          /\ u \in 1 .. job.tracks => AudioStart <= d.off
      BY <2>2
    <3> HIDE DEF d
    <3>2. QED
      BY <1>8, <2>a, <3>1
  <2> HIDE DEF c, d
  <2>6. CASE (t = -1 /\ u = 0) \/ (t = 0 /\ u = -1)
    <3>1. Apart(c, d)
      BY <2>a, <2>b, <2>c, <2>6, ApartAt
    <3>2. QED
      BY <3>1 DEF c, d
  <2>7. CASE t \in {-1, 0} /\ u \in 1 .. job.tracks
    <3>1. Apart(c, d)
      BY <2>a, <2>b, <2>c, <2>7, ApartAt
    <3>2. QED
      BY <3>1 DEF c, d
  <2>8. CASE u \in {-1, 0} /\ t \in 1 .. job.tracks
    <3>1. Apart(c, d)
      BY <2>a, <2>b, <2>c, <2>8, ApartAt
    <3>2. QED
      BY <3>1 DEF c, d
  <2>9. QED
    BY <1>10, <2>3, <2>4, <2>5, <2>6, <2>7, <2>8
<1>13. ApartIn(Added, NextHead)
  BY <1>10, <1>11, <1>12 DEF ApartIn
<1>14. QED
  BY <1>9, <1>10, <1>11, <1>13

\* The group's chunks cover it, but for what lies between its packets and its first unit.
LEMMA AddedCovers ==
    ASSUME Measured, VideoStart <= Size, Frames # <<>>, job.tracks > 0, NEW i \in pos .. NextHead - 1
    PROVE  \/ \E t \in -1 .. job.tracks : \E k \in DOMAIN Added[t] : i \in Bytes(Added[t][k])
           \/ VideoStart <= i /\ i < Frames[1]
<1>1. job.tracks \in Nat \ {0} /\ pos \in Nat /\ total \in Nat
  BY JobFacts DEF Measured
<1>2. /\ VideoStart \in Nat /\ Packets * packet \in Nat /\ VideoStart = pos + Packets * packet
      /\ NextHead \in Int /\ AudioStart \in Int /\ AudioStart + total = NextHead
  BY PlacesInOrder, JobFacts DEF Measured
<1>3. i \in Int /\ pos <= i /\ i < NextHead
  BY <1>1, <1>2
<1>4. /\ -1 \in -1 .. job.tracks /\ 0 \in -1 .. job.tracks /\ \A t \in 1 .. job.tracks : t \in -1 .. job.tracks
      /\ \A t \in -1 .. job.tracks : DOMAIN Added[t] = 1 .. Len(Added[t])
  <2>1. Added \in [-1 .. job.tracks -> Seq(ChunkType)]
    BY AddedFacts
  <2>2. QED
    BY <1>1, <2>1, LenProperties
<1>5. CASE i < VideoStart
  <2>1. 1 \in DOMAIN Added[0] /\ Added[0][1].off = pos /\ Added[0][1].size = Packets * packet
    BY <1>4, AddedFacts
  <2>2. i \in Bytes(Added[0][1])
    BY <1>1, <1>2, <1>3, <1>5, <2>1 DEF Bytes
  <2>3. QED
    BY <1>4, <2>1, <2>2
<1>6. CASE Frames[1] <= i /\ i < AudioStart
  <2> DEFINE n == Len(Frames)
             S == {k \in 1 .. n : i < Frames[k] + FrameSize(k)}
  <2>1. n \in Nat \ {0}
    BY FramesTile
  <2>2. \A k \in 1 .. n : /\ Frames[k] \in Nat /\ FrameSize(k) \in Nat
                          /\ Frames[k] + FrameSize(k) = (IF k < n THEN Frames[k + 1] ELSE AudioStart)
    BY FramesTile
  <2>3. n \in S
    BY <1>6, <2>1, <2>2
  <2>4. S \in SUBSET Nat
    BY <2>1
  <2> DEFINE k == Min(S)
  <2> HIDE DEF S, k
  <2>5. k \in S /\ \A l \in S : k <= l
    BY <2>3, <2>4, LeastOf DEF k
  <2>6. k \in 1 .. n /\ i < Frames[k] + FrameSize(k)
    BY <2>5 DEF S
  <2>7. Frames[k] <= i
    <3>1. CASE k = 1
      BY <1>6, <3>1
    <3>2. CASE k # 1
      <4>1. k - 1 \in 1 .. n /\ k - 1 < n /\ ~(k <= k - 1) /\ (k - 1) + 1 = k
        BY <2>1, <2>6, <3>2
      <4>2. k - 1 \notin S
        BY <2>5, <4>1
      <4>3. ~(i < Frames[k - 1] + FrameSize(k - 1))
        BY <4>1, <4>2 DEF S
      <4>4. Frames[k - 1] + FrameSize(k - 1) = Frames[k]
        BY <2>2, <4>1
      <4>5. QED
        BY <1>3, <2>2, <2>6, <4>3, <4>4
    <3>3. QED
      BY <3>1, <3>2
  <2>8. k \in DOMAIN Added[-1] /\ Added[-1][k].off = Frames[k] /\ Added[-1][k].size = FrameSize(k)
    BY <1>4, <2>6, AddedFacts
  <2>9. i \in Bytes(Added[-1][k])
    BY <1>3, <2>2, <2>6, <2>7, <2>8 DEF Bytes
  <2>10. QED
    BY <1>4, <2>8, <2>9
<1>7. CASE AudioStart <= i
  <2> DEFINE each == total \div job.tracks
             d == i - AudioStart
             n == d \div each
  <2>0. Max({1, job.tracks}) = job.tracks
    BY <1>1, MaxOfTwo
  <2>1. PICK q \in Nat : total = q * job.tracks
    BY <2>0 DEF Measured
  <2>2. each = q /\ each * job.tracks = total
    BY <1>1, <2>1, QuotientOfProduct
  <2>3. d \in Nat /\ d < total /\ i = AudioStart + d
    BY <1>1, <1>2, <1>3, <1>7
  <2> HIDE DEF each, d
  <2>4. each \in Nat \ {0}
    <3>1. each = 0 => total = 0
      BY <1>1, <2>2
    <3>2. QED
      BY <1>1, <2>2, <2>3, <3>1
  <2>5. n \in Nat /\ n * each <= d /\ d < n * each + each /\ n * each \in Nat
    BY <2>3, <2>4, QuotientOf, ProductNat
  <2> HIDE DEF n
  <2>6. n < job.tracks
    <3> SUFFICES ASSUME job.tracks <= n PROVE FALSE
      BY <1>1, <2>5
    <3>1. job.tracks * each <= n * each
      BY <1>1, <2>4, <2>5, ProductGrows
    <3>2. job.tracks * each = total
      BY <1>1, <2>2, <2>4
    <3>3. QED
      BY <1>1, <2>3, <2>5, <3>1, <3>2
  <2>7. n + 1 \in 1 .. job.tracks /\ (n + 1) - 1 = n
    BY <1>1, <2>5, <2>6
  <2>8. /\ Len(Added[n + 1]) = 1 /\ Added[n + 1][1] = AudioChunks[n + 1]
    BY <2>7, AddedFacts
  <2>9. AudioChunks[n + 1].off = AudioStart + n * each /\ AudioChunks[n + 1].size = each
    <3>1. AudioChunks[n + 1].off = AudioStart + ((n + 1) - 1) * each /\ AudioChunks[n + 1].size = each
      BY <2>7, AudioPlaces DEF each
    <3>2. QED
      BY <2>7, <3>1
  <2>10. i \in Bytes(Added[n + 1][1])
    BY <1>2, <1>3, <2>3, <2>4, <2>5, <2>8, <2>9 DEF Bytes
  <2>11. 1 \in DOMAIN Added[n + 1]
    BY <1>4, <2>7, <2>8
  <2>12. QED
    BY <1>4, <2>7, <2>10, <2>11
<1>8. Frames[1] \in Nat
  <2>1. 1 \in 1 .. Len(Frames)
    BY FramesTile
  <2>2. QED
    BY <2>1, FramesTile
<1>9. QED
  BY <1>2, <1>3, <1>5, <1>6, <1>7, <1>8

-----------------------------------------------------------------------------
(* The invariant                                                           *)

IInv == Typed /\ ApartIn(Chunks, pos) /\ LosesOnlyLeads

\* A byte is covered by a chunk of a track.
LEMMA InCovered ==
    ASSUME NEW i
    PROVE  i \in Covered <=> \E t \in DOMAIN Chunks : \E k \in DOMAIN Chunks[t] : i \in Bytes(Chunks[t][k])
BY DEF Covered

\* And after a step.
LEMMA InCoveredNext ==
    ASSUME NEW i
    PROVE  i \in Covered' <=> \E t \in DOMAIN Chunks' : \E k \in DOMAIN Chunks'[t] : i \in Bytes(Chunks'[t][k])
BY DEF Covered, Bytes

\* The tracks begin empty.
LEMMA InitInv ==
    ASSUME Init
    PROVE  IInv
<1>1. job \in Jobs /\ job.tracks \in Nat /\ Size \in Nat /\ Max({1, job.tracks}) \in Nat
  BY JobFacts DEF Init
<1>2. Measured
  <2>1. 0 = 0 * Max({1, job.tracks})
    BY <1>1
  <2>2. \E q \in Nat : total = q * Max({1, job.tracks})
    BY <2>1 DEF Init
  <2>3. QED
    BY <1>1, <2>2 DEF Measured, Init
<1>3. video.chunks = <<>> /\ meta = <<>> /\ audio = [t \in 1 .. job.tracks |-> <<>>]
  BY DEF Init
<1>4. Typed
  <2>1. \A t \in 1 .. job.tracks : audio[t] \in Seq(ChunkType)
    BY <1>3
  <2>2. QED
    BY <1>2, <1>3, <2>1 DEF Typed, Init
<1>5. \A t \in DOMAIN Chunks : Chunks[t] = <<>>
  BY <1>1, <1>3 DEF Chunks
<1>6. ApartIn(Chunks, pos)
  BY <1>5 DEF ApartIn
<1>7. LosesOnlyLeads
  <2>1. pos = 0 /\ 0 .. 0 - 1 = {}
    BY DEF Init
  <2>2. QED
    BY <2>1 DEF LosesOnlyLeads
<1>8. QED
  BY <1>4, <1>6, <1>7 DEF IInv

\* A step that leaves the tracks alone keeps what was said of them.
LEMMA TracksStay ==
    ASSUME IInv, UNCHANGED <<job, pos, video, audio, meta>>
    PROVE  ApartIn(Chunks, pos)' /\ LosesOnlyLeads'
<1>1. Chunks' = Chunks /\ pos' = pos
  BY DEF Chunks
<1>2. ApartIn(Chunks, pos)'
  BY <1>1 DEF IInv, ApartIn, Apart
<1>3. Covered' = Covered
  BY <1>1 DEF Covered, Bytes
<1>4. LosesOnlyLeads'
  BY <1>1, <1>3 DEF IInv, LosesOnlyLeads, UnitAt, Size
<1>5. QED
  BY <1>2, <1>4

\* What detectStructure measures.
LEMMA DetectMeasures ==
    ASSUME Typed, Detect
    PROVE  Typed'
<1>1. /\ job \in Jobs /\ job.tracks \in Nat /\ Size \in Nat /\ Max({1, job.tracks}) \in Nat
      /\ AudioPerFrame \in Nat /\ DefaultFrames \in Nat /\ FrameCounts \in SUBSET Nat
  BY JobFacts, LengthsAssumption DEF Typed, Measured
<1>2. packet' \in PacketSizes \cup {DefaultPacket}
  BY DEF Detect, DetectedPacket
<1>3. PICK n : n = IF Size < HeadLen + 1 THEN DefaultFrames ELSE DetectedFrames(packet')
  OBVIOUS
<1>4. n \in Nat
  BY <1>1, <1>3 DEF DetectedFrames
<1>5. total' = n * AudioPerFrame * Max({1, job.tracks})
  BY <1>3 DEF Detect
<1>6. n * AudioPerFrame \in Nat
  BY <1>1, <1>4, ProductNat
<1>7. total' \in Nat /\ \E q \in Nat : total' = q * Max({1, job.tracks})
  BY <1>1, <1>5, <1>6, ProductNat
<1>8. job' = job /\ Size' = Size /\ pos' = pos
  BY DEF Detect, Size
<1>9. Measured'
  BY <1>2, <1>7, <1>8 DEF Typed, Measured
<1>10. QED
  BY <1>9 DEF Typed, Detect

\* The places of a sequence that another is appended to.
LEMMA ConcatPlaces ==
    ASSUME NEW s \in Seq(ChunkType), NEW r \in Seq(ChunkType)
    PROVE  /\ \A k \in DOMAIN s : k \in DOMAIN (s \o r) /\ (s \o r)[k] = s[k]
           /\ \A k \in DOMAIN r : Len(s) + k \in DOMAIN (s \o r) /\ (s \o r)[Len(s) + k] = r[k]
<1>1. /\ Len(s) \in Nat /\ Len(r) \in Nat /\ DOMAIN s = 1 .. Len(s) /\ DOMAIN r = 1 .. Len(r)
      /\ DOMAIN (s \o r) = 1 .. Len(s) + Len(r)
  BY ConcatProperties, LenProperties
<1>2. \A i \in 1 .. Len(s) + Len(r) : (s \o r)[i] = IF i <= Len(s) THEN s[i] ELSE r[i - Len(s)]
  BY ConcatProperties
<1>3. ASSUME NEW k \in DOMAIN r
      PROVE  Len(s) + k \in DOMAIN (s \o r) /\ (s \o r)[Len(s) + k] = r[k]
  <2>1. Len(s) + k \in 1 .. Len(s) + Len(r) /\ ~(Len(s) + k <= Len(s)) /\ (Len(s) + k) - Len(s) = k
    BY <1>1
  <2>2. QED
    BY <1>1, <1>2, <2>1
<1>4. \A k \in DOMAIN s : k \in DOMAIN (s \o r) /\ (s \o r)[k] = s[k]
  BY <1>1, <1>2
<1>5. QED
  BY <1>3, <1>4

\* A group loses nothing but the bytes before its first unit.
LEMMA GroupLoses ==
    ASSUME IInv, Group
    PROVE  LosesOnlyLeads'
<1>1. /\ Measured /\ VideoStart <= Size /\ Frames # <<>> /\ Typed
      /\ pos \in Nat /\ job.tracks \in Nat
  BY JobFacts DEF IInv, Typed, Measured, Group
<1>2. /\ Chunks \in [-1 .. job.tracks -> Seq(ChunkType)]
      /\ Chunks' = [t \in -1 .. job.tracks |-> Chunks[t] \o Added[t]]
      /\ pos' = NextHead /\ job' = job
      /\ DOMAIN Chunks = -1 .. job.tracks /\ DOMAIN Chunks' = -1 .. job.tracks
  BY <1>1, GroupAdds
<1>3. Added \in [-1 .. job.tracks -> Seq(ChunkType)]
  BY <1>1, AddedFacts
<1>4. ASSUME NEW t \in -1 .. job.tracks
      PROVE  /\ \A k \in DOMAIN Chunks[t] : k \in DOMAIN Chunks'[t] /\ Chunks'[t][k] = Chunks[t][k]
             /\ \A k \in DOMAIN Added[t] : \E l \in DOMAIN Chunks'[t] : Chunks'[t][l] = Added[t][k]
  <2>1. Chunks'[t] = Chunks[t] \o Added[t] /\ Chunks[t] \in Seq(ChunkType) /\ Added[t] \in Seq(ChunkType)
    <3>1. Chunks' = [v \in -1 .. job.tracks |-> Chunks[v] \o Added[v]]
      BY <1>2
    <3>2. Chunks \in [-1 .. job.tracks -> Seq(ChunkType)]
      BY <1>2
    <3>3. Chunks'[t] = Chunks[t] \o Added[t]
      BY <3>1
    <3>4. QED
      BY <1>3, <3>2, <3>3
  <2>2. \A k \in DOMAIN Chunks[t] : k \in DOMAIN Chunks'[t] /\ Chunks'[t][k] = Chunks[t][k]
    <3> DEFINE s == Chunks[t]
               r == Added[t]
               b == Chunks'[t]
    <3>1. b = s \o r /\ s \in Seq(ChunkType) /\ r \in Seq(ChunkType)
      BY <2>1
    <3> HIDE DEF s, r, b
    <3>2. \A k \in DOMAIN s : k \in DOMAIN (s \o r) /\ (s \o r)[k] = s[k]
      BY <3>1, ConcatPlaces
    <3>3. \A k \in DOMAIN s : k \in DOMAIN b /\ b[k] = s[k]
      BY <3>1, <3>2
    <3>4. QED
      BY <3>3 DEF s, b
  <2>3. ASSUME NEW k \in DOMAIN Added[t]
        PROVE  \E l \in DOMAIN Chunks'[t] : Chunks'[t][l] = Added[t][k]
    <3>1. /\ Len(Chunks[t]) + k \in DOMAIN (Chunks[t] \o Added[t])
          /\ (Chunks[t] \o Added[t])[Len(Chunks[t]) + k] = Added[t][k]
      BY <2>1, ConcatPlaces
    <3>2. QED
      BY <2>1, <3>1
  <2>4. QED
    BY <2>2, <2>3
<1>5. -1 \in -1 .. job.tracks /\ 0 \in -1 .. job.tracks
  BY <1>1
<1>6. /\ Chunks[-1] = video.chunks /\ Chunks[0] = meta
      /\ Chunks'[-1] = video'.chunks /\ Chunks'[0] = meta'
  BY <1>1, <1>2 DEF Chunks
<1>7. /\ \A m \in ToSet(meta) : m \in ToSet(meta')
      /\ \A v \in ToSet(video.chunks) : v \in ToSet(video'.chunks)
  BY <1>4, <1>5, <1>6 DEF ToSet
<1> DEFINE Lead(i, m, v) == /\ m.off + m.size <= i /\ i < v.off
                            /\ \A j \in m.off + m.size .. v.off - 1 : ~ UnitAt(j)
<1>8. \A j : UnitAt(j)' <=> UnitAt(j)
  BY <1>2 DEF UnitAt, Size
<1>9. SUFFICES ASSUME job.tracks > 0, NEW i \in (0 .. pos' - 1) \ Covered'
               PROVE  \E m \in ToSet(meta'), v \in ToSet(video'.chunks) : Lead(i, m, v)
  BY <1>2, <1>8 DEF LosesOnlyLeads
<1>10. i \in Nat /\ i < NextHead /\ i \in 0 .. NextHead - 1
  BY <1>1, <1>2, PlacesInOrder
<1>11. i \notin Covered /\ \A t \in -1 .. job.tracks : \A k \in DOMAIN Added[t] : i \notin Bytes(Added[t][k])
  <2>1. ASSUME i \in Covered PROVE FALSE
    <3>1. PICK t \in -1 .. job.tracks : \E k \in DOMAIN Chunks[t] : i \in Bytes(Chunks[t][k])
      BY <1>2, <2>1, InCovered
    <3>2. PICK k \in DOMAIN Chunks[t] : i \in Bytes(Chunks[t][k])
      BY <3>1
    <3>3. k \in DOMAIN Chunks'[t] /\ Chunks'[t][k] = Chunks[t][k]
      BY <1>4
    <3>4. QED
      BY <1>2, <1>9, <3>2, <3>3, InCoveredNext
  <2>2. ASSUME NEW t \in -1 .. job.tracks, NEW k \in DOMAIN Added[t], i \in Bytes(Added[t][k]) PROVE FALSE
    <3>1. PICK l \in DOMAIN Chunks'[t] : Chunks'[t][l] = Added[t][k]
      BY <1>4
    <3>2. QED
      BY <1>2, <1>9, <2>2, <3>1, InCoveredNext
  <2>3. QED
    BY <2>1, <2>2
<1>12. CASE i < pos
  <2>1. i \in (0 .. pos - 1) \ Covered
    BY <1>1, <1>10, <1>11, <1>12
  <2>2. \E m \in ToSet(meta), v \in ToSet(video.chunks) : Lead(i, m, v)
    BY <1>9, <2>1 DEF IInv, LosesOnlyLeads
  <2> HIDE DEF Lead
  <2>3. QED
    BY <1>7, <2>2
<1>13. CASE ~(i < pos)
  <2>1. i \in pos .. NextHead - 1
    BY <1>1, <1>10, <1>13, PlacesInOrder
  <2>2. VideoStart <= i /\ i < Frames[1]
    BY <1>1, <1>9, <1>11, <2>1, AddedCovers
  <2>3. /\ Added[0][1].off = pos /\ Added[0][1].size = Packets * packet
        /\ Added[-1][1].off = Frames[1]
        /\ 1 \in DOMAIN Added[0] /\ 1 \in DOMAIN Added[-1]
    <3>1. 1 \in 1 .. Len(Frames) /\ Len(Frames) \in Nat
      BY <1>1, FramesTile
    <3>2. Len(Added[0]) = 1 /\ Len(Added[-1]) = Len(Frames)
      BY <1>1, AddedFacts
    <3>3. DOMAIN Added[0] = 1 .. Len(Added[0]) /\ DOMAIN Added[-1] = 1 .. Len(Added[-1])
      BY <1>3, <1>5, LenProperties
    <3>4. QED
      BY <1>1, <3>1, <3>2, <3>3, AddedFacts
  <2>4. Added[0][1] \in ToSet(meta') /\ Added[-1][1] \in ToSet(video'.chunks)
    BY <1>4, <1>5, <1>6, <2>3 DEF ToSet
  <2>5. Added[0][1].off + Added[0][1].size = VideoStart
    BY <1>1, <2>3, PlacesInOrder
  <2>6. \A j \in VideoStart .. Frames[1] - 1 : ~ UnitAt(j)
    BY <1>1, FramesTile
  <2>7. Lead(i, Added[0][1], Added[-1][1])
    BY <2>2, <2>3, <2>5, <2>6
  <2> HIDE DEF Lead
  <2>8. QED
    BY <2>4, <2>7
<1>14. QED
  BY <1>12, <1>13

\* A group keeps the invariant.
LEMMA GroupStep ==
    ASSUME IInv, Group
    PROVE  IInv'
<1>1. Measured /\ VideoStart <= Size /\ Frames # <<>> /\ Typed /\ pos \in Nat /\ job.tracks \in Nat /\ Size \in Nat
  BY JobFacts DEF IInv, Typed, Measured, Group
<1>2. /\ Chunks \in [-1 .. job.tracks -> Seq(ChunkType)]
      /\ Chunks' = [t \in -1 .. job.tracks |-> Chunks[t] \o Added[t]]
      /\ pos' = NextHead /\ job' = job
      /\ video'.chunks \in Seq(ChunkType) /\ meta' \in Seq(ChunkType)
      /\ audio' \in [1 .. job.tracks -> Seq(ChunkType)]
  BY <1>1, GroupAdds
<1>3. Added \in [-1 .. job.tracks -> Seq(ChunkType)]
  BY <1>1, AddedFacts
<1>4. NextHead \in 0 .. Size /\ Size' = Size
  BY <1>1, <1>2, PlacesInOrder DEF Size
<1>5. Typed'
  <2>1. Measured'
    BY <1>1, <1>2, <1>4 DEF Measured, Group
  <2>2. state' = state
    BY DEF Group
  <2>3. QED
    BY <1>1, <1>2, <2>1, <2>2 DEF Typed
<1>6. ApartIn(Chunks, pos)'
  <2>1. /\ ApartIn(Chunks, pos) /\ ApartIn(Added, NextHead) /\ pos <= NextHead
        /\ \A t \in -1 .. job.tracks : \A k \in DOMAIN Added[t] : pos <= Added[t][k].off
    BY <1>1, <1>3, AddedApart DEF IInv
  <2>2. ApartIn([t \in -1 .. job.tracks |-> Chunks[t] \o Added[t]], NextHead)
    <3> DEFINE D == -1 .. job.tracks
    <3>1. Chunks \in [D -> Seq(ChunkType)] /\ Added \in [D -> Seq(ChunkType)]
      BY <1>2, <1>3
    <3>2. pos \in Nat /\ NextHead \in Nat
      BY <1>1, <1>4
    <3>3. \A t \in D : \A k \in DOMAIN Added[t] : pos <= Added[t][k].off
      BY <2>1
    <3> HIDE DEF D
    <3>4. ApartIn([t \in D |-> Chunks[t] \o Added[t]], NextHead)
      BY <2>1, <3>1, <3>2, <3>3, ApartExtends
    <3>5. QED
      BY <3>4 DEF D
  <2>3. ApartIn(Chunks', pos')
    BY <1>2, <2>2
  <2>4. QED
    BY <2>3 DEF ApartIn, Apart
<1>7. LosesOnlyLeads'
  BY GroupLoses
<1>8. QED
  BY <1>5, <1>6, <1>7 DEF IInv

\* Each step keeps the invariant.
LEMMA NextInv ==
    ASSUME IInv, [Next]_vars
    PROVE  IInv'
<1>1. CASE Detect
  <2>1. Typed'
    BY <1>1, DetectMeasures DEF IInv
  <2>2. ApartIn(Chunks, pos)' /\ LosesOnlyLeads'
    BY <1>1, TracksStay DEF Detect
  <2>3. QED
    BY <2>1, <2>2 DEF IInv
<1>2. CASE Group
  BY <1>2, GroupStep
<1>3. CASE UNCHANGED <<job, packet, total, pos, video, audio, meta>> /\ state' \in {state, "saved", "failed"}
  <2>1. Typed'
    BY <1>3 DEF IInv, Typed, Measured, Size
  <2>2. ApartIn(Chunks, pos)' /\ LosesOnlyLeads'
    BY <1>3, TracksStay
  <2>3. QED
    BY <2>1, <2>2 DEF IInv
<1>4. CASE ReadFails \/ Save \/ Stopped \/ UNCHANGED vars
  <2>1. UNCHANGED <<job, packet, total, pos, video, audio, meta>> /\ state' \in {state, "saved", "failed"}
    BY <1>4 DEF ReadFails, Save, Stopped, vars
  <2>2. QED
    BY <1>3, <2>1
<1>5. QED
  BY <1>1, <1>2, <1>4 DEF Next

\* The invariant holds of every behaviour.
LEMMA InvAlways == Spec => []IInv
<1>1. Init => IInv
  BY InitInv
<1>2. IInv /\ [Next]_vars => IInv'
  BY NextInv
<1>3. QED
  BY <1>1, <1>2, PTL DEF Spec

-----------------------------------------------------------------------------
\* The variables keep their types: in particular, the walk never leaves the file, and no chunk
\* begins before it or has a negative length, although the audio is counted back from the next
\* packet (rsv.cpp:204).
THEOREM RsvTypes == Spec => []TypeOK
<1>1. IInv => TypeOK
  BY DEF IInv, Typed, Measured, TypeOK
<1>2. QED
  BY <1>1, InvAlways, PTL

\* Whatever the file holds, the chunks saved of a recording share no byte and lie within the groups
\* walked (rsv.cpp:186-304).
THEOREM RsvChunksApart == Spec => []NoByteTwice
<1>1. ASSUME IInv PROVE NoByteTwice
  <2>1. /\ Typed /\ ApartIn(Chunks, pos)
        /\ job.tracks \in Nat /\ pos \in Nat
    BY <1>1, JobFacts DEF IInv, Typed, Measured
  <2>2. \A t \in DOMAIN Chunks : Chunks[t] \in Seq(ChunkType)
    BY <2>1 DEF Chunks, Typed
  <2>3. \A t \in DOMAIN Chunks : \A k \in DOMAIN Chunks[t] : Chunks[t][k].off \in Nat /\ Chunks[t][k].size \in Nat
    BY <2>2, ChunkFacts
  <2>4. ASSUME NEW t \in DOMAIN Chunks, NEW k \in DOMAIN Chunks[t]
        PROVE  Bytes(Chunks[t][k]) \subseteq 0 .. pos - 1
    <3>1. /\ Chunks[t][k].off \in Nat /\ Chunks[t][k].size \in Nat
          /\ Chunks[t][k].off + Chunks[t][k].size <= pos
      BY <2>1, <2>3 DEF ApartIn
    <3>2. QED
      BY <2>1, <3>1 DEF Bytes
  <2>5. ASSUME NEW t \in DOMAIN Chunks, NEW u \in DOMAIN Chunks,
               NEW k \in DOMAIN Chunks[t], NEW l \in DOMAIN Chunks[u], t # u \/ k # l
        PROVE  Bytes(Chunks[t][k]) \cap Bytes(Chunks[u][l]) = {}
    <3>1. Apart(Chunks[t][k], Chunks[u][l])
      BY <2>1, <2>5 DEF ApartIn
    <3>2. /\ Chunks[t][k].off \in Nat /\ Chunks[t][k].size \in Nat
          /\ Chunks[u][l].off \in Nat /\ Chunks[u][l].size \in Nat
      BY <2>3
    <3>3. QED
      BY <3>1, <3>2 DEF Apart, Bytes
  <2>6. QED
    BY <2>4, <2>5 DEF NoByteTwice
<1>2. QED
  BY <1>1, InvAlways, PTL

\* Whatever the file holds, a walk with an audio track leaves out only bytes between a packet and a
\* group's first unit (rsv.cpp:207-219).
THEOREM RsvLosesOnlyLeads == Spec => []LosesOnlyLeads
<1>1. IInv => LosesOnlyLeads
  BY DEF IInv
<1>2. QED
  BY <1>1, InvAlways, PTL

-----------------------------------------------------------------------------
(* What a recording consists of                                            *)

\* The bytes of audio in a group, and where a group ends.
AudioBytes == job.units * AudioPerFrame * job.tracks
Ending(k) == End(job, job.groups[k])

\* The numbers of a recording.
LEMMA RecordingTypes ==
    ASSUME IsRecording(job)
    PROVE  /\ Len(job.groups) \in Nat
           /\ job.tracks \in Nat \ {0} /\ job.packet \in Nat \ {0} /\ job.units \in Nat \ {0}
           /\ job.units * AudioPerFrame \in Nat /\ AudioBytes \in Nat
           /\ HeadLen \in Nat \ {0} /\ AudLen \in Nat \ {0} /\ BufSize \in Nat /\ MinVideo \in Nat /\ Margin \in Nat
           /\ MaxPackets \in Nat
           /\ job.groups[1].begin = 0
<1>1. /\ job.tracks \in Nat \ {0} /\ job.packet \in Nat \ {0} /\ job.units \in Nat \ {0}
      /\ job.groups \in Seq(GroupType) /\ job.groups[1].begin = 0
  BY DEF IsRecording
<1>2. AudioPerFrame \in Nat
  BY LengthsAssumption
<1>3. job.units * AudioPerFrame \in Nat
  BY <1>1, <1>2, ProductNat
<1>4. AudioBytes \in Nat
  BY <1>1, <1>3, ProductNat DEF AudioBytes
<1>5. QED
  BY <1>1, <1>3, <1>4, LengthsAssumption, LenProperties

\* The parts of a group, in order.
LEMMA GroupParts ==
    ASSUME IsRecording(job), NEW k \in 1 .. Len(job.groups)
    PROVE  LET g == job.groups[k]
           IN  /\ g.begin \in Nat /\ g.packets \in 1 .. MaxPackets /\ g.audio \in Nat
               /\ g.frames \in Seq(Nat) /\ Len(g.frames) = job.units
               /\ g.packets * job.packet \in Nat /\ g.frames[1] = g.begin + g.packets * job.packet
               /\ \A u \in 1 .. job.units : g.frames[u] \in Nat /\ g.frames[1] <= g.frames[u] /\ g.frames[u] + AudLen <= g.audio
               /\ \A u, v \in 1 .. job.units : u < v => g.frames[u] + AudLen <= g.frames[v]
               /\ Ending(k) = g.audio + AudioBytes /\ Ending(k) \in Nat
               /\ g.begin < g.frames[1] /\ g.frames[1] < Ending(k) /\ g.begin < Ending(k)
               /\ g.frames[job.units] + AudLen + Margin <= Ending(k)
               /\ g.frames[1] + MinVideo <= Ending(k) /\ Ending(k) + HeadLen < g.begin + BufSize
<1> DEFINE g == job.groups[k]
<1>1. g \in GroupType /\ IsGroup(job, g)
  BY LenProperties DEF IsRecording
<1>2. /\ job.packet \in Nat \ {0} /\ job.units \in Nat \ {0} /\ AudioBytes \in Nat
      /\ HeadLen \in Nat \ {0} /\ AudLen \in Nat \ {0} /\ MaxPackets \in Nat
  BY RecordingTypes
<1> HIDE DEF g
<1>3. g.begin \in Nat /\ g.packets \in Nat /\ g.audio \in Nat /\ g.frames \in Seq(Nat)
  BY <1>1 DEF GroupType
<1>4. g.packets \in 1 .. MaxPackets /\ Len(g.frames) = job.units
  BY <1>1 DEF IsGroup
<1>5. g.packets * job.packet \in Nat /\ g.packets * job.packet > 0
  <2>0. 1 \in Nat /\ g.packets \in Nat /\ job.packet \in Nat /\ 1 <= g.packets
    BY <1>2, <1>3, <1>4
  <2>1. 1 * job.packet <= g.packets * job.packet /\ g.packets * job.packet \in Nat
    BY <2>0, ProductGrows
  <2>2. 1 * job.packet = job.packet
    BY <1>2
  <2>3. QED
    BY <1>2, <2>1, <2>2
<1>6. g.frames[1] = g.begin + g.packets * job.packet
  BY <1>1 DEF IsGroup, PacketAt
<1>7. \A u \in 1 .. job.units : g.frames[u] \in Nat
  BY <1>3, <1>4, LenProperties
<1>8. /\ \A u, v \in 1 .. job.units : u < v => g.frames[u] + AudLen <= g.frames[v]
      /\ \A u \in 1 .. job.units : g.frames[u] + AudLen <= g.audio
  BY <1>1 DEF IsGroup
<1>9. 1 \in 1 .. job.units
  BY <1>2
<1>10. \A u \in 1 .. job.units : g.frames[1] <= g.frames[u]
  <2> SUFFICES ASSUME NEW u \in 1 .. job.units PROVE g.frames[1] <= g.frames[u]
    OBVIOUS
  <2>1. u = 1 \/ 1 < u
    BY <1>2
  <2>2. g.frames[1] \in Nat /\ g.frames[u] \in Nat
    BY <1>7, <1>9
  <2>3. 1 < u => g.frames[1] + AudLen <= g.frames[u]
    BY <1>8, <1>9
  <2>4. QED
    BY <1>2, <2>1, <2>2, <2>3
<1>11. Ending(k) = g.audio + AudioBytes
  BY DEF Ending, End, AudioBytes, g
<1>12. /\ g.frames[job.units] + AudLen + Margin <= Ending(k)
       /\ g.frames[1] + MinVideo <= Ending(k) /\ Ending(k) + HeadLen < g.begin + BufSize
  BY <1>1 DEF IsGroup, Ending, g
<1>13. Ending(k) \in Nat /\ g.begin < g.frames[1] /\ g.frames[1] < Ending(k) /\ g.begin < Ending(k)
  <2> DEFINE p == g.packets * job.packet
             f == g.frames[1]
  <2>1. f \in Nat /\ f + AudLen <= g.audio
    BY <1>7, <1>8, <1>9
  <2>2. f = g.begin + p /\ p \in Nat /\ p > 0
    BY <1>5, <1>6
  <2> HIDE DEF p, f
  <2>5. g.begin \in Nat /\ g.audio \in Nat /\ AudioBytes \in Nat /\ AudLen \in Nat /\ AudLen > 0
    BY <1>2, <1>3
  <2>6. g.begin < f
    BY <2>2, <2>5
  <2>7. f < Ending(k) /\ Ending(k) \in Nat
    BY <1>11, <2>1, <2>5
  <2>3. Ending(k) \in Nat /\ g.begin < f /\ f < Ending(k) /\ g.begin < Ending(k)
    BY <2>1, <2>5, <2>6, <2>7
  <2>4. QED
    BY <2>3 DEF f
<1>14. QED
  BY <1>3, <1>4, <1>5, <1>6, <1>7, <1>8, <1>10, <1>11, <1>12, <1>13 DEF g

\* A group ends at or before where any later one begins.
LEMMA GroupsFollow ==
    ASSUME IsRecording(job), NEW k \in 1 .. Len(job.groups), NEW l \in 1 .. Len(job.groups), k < l
    PROVE  Ending(k) <= job.groups[l].begin
<1> DEFINE Early == {m \in k + 1 .. Len(job.groups) : ~(Ending(k) <= job.groups[m].begin)}
<1>1. Len(job.groups) \in Nat /\ k \in Nat /\ l \in Nat
  BY RecordingTypes
<1>2. \A m \in 1 .. Len(job.groups) : job.groups[m].begin \in Nat /\ Ending(m) \in Nat /\ job.groups[m].begin < Ending(m)
  <2> SUFFICES ASSUME NEW m \in 1 .. Len(job.groups)
               PROVE  job.groups[m].begin \in Nat /\ Ending(m) \in Nat /\ job.groups[m].begin < Ending(m)
    OBVIOUS
  <2>1. QED
    BY GroupParts
<1>3. \A m \in 1 .. Len(job.groups) - 1 : job.groups[m + 1].begin = Ending(m)
  BY DEF IsRecording, Ending
<1>4. Early \in SUBSET Nat
  BY <1>1
<1>5. SUFFICES ASSUME Early # {} PROVE FALSE
  BY <1>1
<1>6. PICK m \in Early : \A n \in Early : m <= n
  <2> HIDE DEF Early
  <2>1. QED
    BY <1>4, <1>5, LeastOf
<1>7. m \in k + 1 .. Len(job.groups) /\ ~(Ending(k) <= job.groups[m].begin)
  OBVIOUS
<1>8. m - 1 \in 1 .. Len(job.groups) - 1 /\ (m - 1) + 1 = m
  BY <1>1, <1>7
<1>9. job.groups[m].begin = Ending(m - 1)
  BY <1>3, <1>8
<1>10. CASE m = k + 1
  BY <1>1, <1>2, <1>7, <1>9, <1>10
<1>11. CASE m # k + 1
  <2>1. m - 1 \in k + 1 .. Len(job.groups) /\ ~(m <= m - 1) /\ m - 1 \in 1 .. Len(job.groups)
    BY <1>1, <1>7, <1>11
  <2>2. Ending(k) <= job.groups[m - 1].begin
    BY <1>6, <2>1
  <2>3. job.groups[m - 1].begin < Ending(m - 1) /\ job.groups[m - 1].begin \in Nat /\ Ending(m - 1) \in Nat /\ Ending(k) \in Nat
    BY <1>2, <2>1
  <2>4. QED
    BY <1>7, <1>9, <2>2, <2>3
<1>12. QED
  BY <1>10, <1>11

\* The groups that are whole are the first ones.
LEMMA WholeFacts ==
    ASSUME IsRecording(job), Size \in Nat, NEW k \in Whole
    PROVE  /\ k \in 1 .. Len(job.groups) /\ k + 1 \in 1 .. Len(job.groups) /\ k \in Nat
           /\ job.groups[k + 1].begin = Ending(k) /\ Ending(k) + HeadLen < Size
           /\ \A l \in 1 .. k : l \in Whole
<1>1. Len(job.groups) \in Nat /\ HeadLen \in Nat
  BY RecordingTypes
<1>2. k \in 1 .. Len(job.groups) - 1 /\ job.groups[k + 1].begin + HeadLen < Size
  BY DEF Whole
<1>3. k \in 1 .. Len(job.groups) /\ k + 1 \in 1 .. Len(job.groups) /\ k \in Nat
  BY <1>1, <1>2
<1>4. job.groups[k + 1].begin = Ending(k)
  BY <1>2 DEF IsRecording, Ending
<1>5. ASSUME NEW l \in 1 .. k
      PROVE  l \in Whole
  <2>1. CASE l = k
    BY <2>1
  <2>2. CASE l # k
    <3>1. l \in 1 .. Len(job.groups) - 1 /\ l + 1 \in 1 .. Len(job.groups) /\ l + 1 < k + 1
      BY <1>1, <1>2, <2>2
    <3>2. Ending(l + 1) <= job.groups[k + 1].begin
      BY <1>3, <3>1, GroupsFollow
    <3>3. /\ job.groups[l + 1].begin \in Nat /\ Ending(l + 1) \in Nat /\ job.groups[k + 1].begin \in Nat
          /\ job.groups[l + 1].begin < Ending(l + 1)
      BY <1>3, <3>1, GroupParts
    <3>4. job.groups[l + 1].begin + HeadLen < Size
      <4> DEFINE b == job.groups[l + 1].begin
                 c == job.groups[k + 1].begin
                 e == Ending(l + 1)
      <4>1. /\ b \in Nat /\ e \in Nat /\ c \in Nat /\ b < e /\ e <= c /\ c + HeadLen < Size
        BY <1>2, <3>2, <3>3
      <4> HIDE DEF b, c, e
      <4>2. b + HeadLen < Size
        BY <1>1, <4>1
      <4>3. QED
        BY <4>2 DEF b
    <3>5. QED
      BY <3>1, <3>4 DEF Whole
  <2>3. QED
    BY <2>1, <2>2
<1>6. QED
  BY <1>2, <1>3, <1>4, <1>5

\* The packets of a group lie between its begin and its first unit.
LEMMA PacketPlaces ==
    ASSUME IsRecording(job), NEW k \in 1 .. Len(job.groups), NEW n \in 0 .. job.groups[k].packets - 1
    PROVE  /\ PacketAt(job, job.groups[k], n) \in Nat
           /\ PacketAt(job, job.groups[k], n) = job.groups[k].begin + n * job.packet
           /\ job.groups[k].begin <= PacketAt(job, job.groups[k], n)
           /\ PacketAt(job, job.groups[k], n) < job.groups[k].frames[1]
<1> DEFINE g == job.groups[k]
           p == n * job.packet
           all == g.packets * job.packet
           f == g.frames[1]
<1>1. job.packet \in Nat \ {0} /\ g.packets \in Nat /\ n \in Nat /\ g.begin \in Nat /\ f = g.begin + all /\ all \in Nat
  <2>1. job.packet \in Nat \ {0} /\ MaxPackets \in Nat
    BY RecordingTypes
  <2>2. g.begin \in Nat /\ g.packets \in 1 .. MaxPackets /\ all \in Nat /\ f = g.begin + all
    BY GroupParts
  <2>3. g.packets \in Nat /\ n \in Nat
    BY <2>1, <2>2
  <2>4. QED
    BY <2>1, <2>2, <2>3
<1>2. n + 1 \in Nat /\ n + 1 <= g.packets /\ job.packet \in Nat
  <2>1. n \in 0 .. g.packets - 1
    OBVIOUS
  <2> HIDE DEF g, p, all, f
  <2>2. QED
    BY <1>1, <2>1
<1>3. (n + 1) * job.packet <= all
  <2> HIDE DEF g
  <2>1. QED
    BY <1>1, <1>2, ProductGrows
<1>4. (n + 1) * job.packet = p + job.packet /\ p \in Nat
  BY <1>1, <1>2, ProductNat, OneMore
<1>5. PacketAt(job, g, n) = g.begin + p
  BY DEF PacketAt
<1> DEFINE b == g.begin
           one == job.packet
<1>6. /\ p \in Nat /\ all \in Nat /\ b \in Nat /\ one \in Nat \ {0}
      /\ p + one <= all /\ f = b + all
  BY <1>1, <1>3, <1>4
<1> HIDE DEF p, all, f, b, one, g
<1>7. b + p \in Nat /\ b <= b + p /\ b + p < f
  BY <1>6
<1>8. QED
  BY <1>5, <1>7 DEF f, b, g, p

\* Groups share no place.
LEMMA GroupsApart ==
    ASSUME IsRecording(job), NEW k \in 1 .. Len(job.groups), NEW l \in 1 .. Len(job.groups), NEW i \in Nat,
           job.groups[k].begin <= i, i < Ending(k), job.groups[l].begin <= i, i < Ending(l)
    PROVE  k = l
<1>1. Len(job.groups) \in Nat
  BY RecordingTypes
<1>2. /\ job.groups[k].begin \in Nat /\ Ending(k) \in Nat
      /\ job.groups[l].begin \in Nat /\ Ending(l) \in Nat
  BY GroupParts
<1>3. ~(k < l)
  <2>1. k < l => Ending(k) <= job.groups[l].begin
    BY GroupsFollow
  <2>2. QED
    BY <1>2, <2>1
<1>4. ~(l < k)
  <2>1. l < k => Ending(l) <= job.groups[k].begin
    BY GroupsFollow
  <2>2. QED
    BY <1>2, <2>1
<1>5. QED
  BY <1>1, <1>3, <1>4

\* What begins at the places of a whole group: its packets and the next group's first, its units,
\* and no others.
LEMMA HeadsOfGroup ==
    ASSUME job \in Jobs, IsRecording(job), NEW k \in Whole
    PROVE  /\ \A n \in 0 .. job.groups[k].packets - 1 : HeadAt(PacketAt(job, job.groups[k], n))
           /\ HeadAt(Ending(k))
           /\ \A i \in Nat : job.groups[k].frames[1] <= i /\ i < Ending(k) => ~ HeadAt(i)
<1>1. /\ Size \in Nat /\ DOMAIN job.file = 0 .. Size - 1
  BY JobFacts, JobsAssumption DEF Size
<1>2. HeadLen \in Nat \ {0} /\ Len(job.groups) \in Nat
  BY RecordingTypes
<1>3. /\ k \in 1 .. Len(job.groups) /\ k + 1 \in 1 .. Len(job.groups)
      /\ job.groups[k + 1].begin = Ending(k) /\ Ending(k) + HeadLen < Size
  BY <1>1, WholeFacts
<1>4. /\ job.groups[k].frames[1] \in Nat /\ Ending(k) \in Nat /\ job.groups[k].frames[1] < Ending(k)
      /\ job.groups[k].begin \in Nat /\ job.groups[k].begin < job.groups[k].frames[1]
  <2>1. 1 \in 1 .. job.units
    BY RecordingTypes
  <2>2. QED
    BY <1>3, <2>1, GroupParts
<1>5. \A i \in DOMAIN job.file :
        job.file[i] = "head" <=> \E l \in 1 .. Len(job.groups) : \E n \in 0 .. job.groups[l].packets - 1 : i = PacketAt(job, job.groups[l], n)
  BY DEF IsRecording
<1>6. ASSUME NEW n \in 0 .. job.groups[k].packets - 1
      PROVE  HeadAt(PacketAt(job, job.groups[k], n))
  <2> DEFINE i == PacketAt(job, job.groups[k], n)
  <2>1. i \in Nat /\ i < job.groups[k].frames[1]
    BY <1>3, PacketPlaces
  <2> HIDE DEF i
  <2>2. i + HeadLen <= Size /\ i \in DOMAIN job.file
    <3> DEFINE f == job.groups[k].frames[1]
               e == Ending(k)
    <3>1. /\ Size \in Nat /\ HeadLen \in Nat /\ HeadLen > 0 /\ f \in Nat /\ e \in Nat
          /\ f < e /\ e + HeadLen < Size /\ i \in Nat /\ i < f
      BY <1>1, <1>2, <1>3, <1>4, <2>1
    <3> HIDE DEF f, e
    <3>2. i + HeadLen <= Size /\ i \in 0 .. Size - 1
      BY <3>1
    <3>3. QED
      BY <1>1, <3>2
  <2>3. job.file[i] = "head"
    BY <1>3, <1>5, <2>2 DEF i
  <2>4. QED
    BY <2>2, <2>3 DEF HeadAt, i
<1>7. HeadAt(Ending(k))
  <2>1. Ending(k) + HeadLen <= Size /\ Ending(k) \in DOMAIN job.file
    BY <1>1, <1>2, <1>3, <1>4
  <2>2. 0 \in 0 .. job.groups[k + 1].packets - 1
    <3> DEFINE q == job.groups[k + 1].packets
    <3>1. q \in 1 .. MaxPackets
      BY <1>3, GroupParts
    <3>2. MaxPackets \in Nat
      BY RecordingTypes
    <3> HIDE DEF q
    <3>3. 0 \in 0 .. q - 1
      BY <3>1, <3>2
    <3>4. QED
      BY <3>3 DEF q
  <2>3. PacketAt(job, job.groups[k + 1], 0) = job.groups[k + 1].begin
    <3>1. job.packet \in Nat /\ job.groups[k + 1].begin \in Nat
      BY <1>3, GroupParts, RecordingTypes
    <3>2. QED
      BY <3>1 DEF PacketAt
  <2>4. job.file[Ending(k)] = "head"
    BY <1>3, <1>5, <2>1, <2>2, <2>3
  <2>5. QED
    BY <2>1, <2>4 DEF HeadAt
<1>8. ASSUME NEW i \in Nat, job.groups[k].frames[1] <= i, i < Ending(k), HeadAt(i)
      PROVE  FALSE
  <2>1. i \in DOMAIN job.file /\ job.file[i] = "head"
    BY <1>1, <1>2, <1>8 DEF HeadAt
  <2>2. PICK l \in 1 .. Len(job.groups) : \E n \in 0 .. job.groups[l].packets - 1 : i = PacketAt(job, job.groups[l], n)
    BY <1>5, <2>1
  <2>3. PICK n \in 0 .. job.groups[l].packets - 1 : i = PacketAt(job, job.groups[l], n)
    BY <2>2
  <2>4. job.groups[l].begin <= i /\ i < job.groups[l].frames[1]
    BY <2>3, PacketPlaces
  <2>5. job.groups[l].frames[1] \in Nat /\ job.groups[l].frames[1] < Ending(l) /\ Ending(l) \in Nat
    <3>1. 1 \in 1 .. job.units
      BY RecordingTypes
    <3>2. QED
      BY <3>1, GroupParts
  <2>6. i < Ending(l) /\ job.groups[k].begin <= i
    <3> DEFINE f == job.groups[l].frames[1]
               b == job.groups[k].begin
               g == job.groups[k].frames[1]
    <3>1. f \in Nat /\ Ending(l) \in Nat /\ i < f /\ f < Ending(l)
      BY <2>4, <2>5
    <3>2. b \in Nat /\ g \in Nat /\ b < g /\ g <= i
      BY <1>4, <1>8
    <3> HIDE DEF f, b, g
    <3>3. i < Ending(l) /\ b <= i
      BY <3>1, <3>2
    <3>4. QED
      BY <3>3 DEF b
  <2>7. k = l
    BY <1>3, <1>8, <2>4, <2>6, GroupsApart
  <2>8. QED
    BY <1>4, <1>8, <2>4, <2>7
<1>9. QED
  BY <1>6, <1>7, <1>8

\* The headers before a group's units are those of its packets.
LEMMA PacketsOfGroup ==
    ASSUME job \in Jobs, IsRecording(job), NEW k \in 1 .. Len(job.groups), NEW i \in Nat,
           job.groups[k].begin <= i, i < Ending(k), HeadAt(i)
    PROVE  \E n \in 0 .. job.groups[k].packets - 1 : i = PacketAt(job, job.groups[k], n)
<1>1. /\ Size \in Nat /\ DOMAIN job.file = 0 .. Size - 1
  BY JobFacts, JobsAssumption DEF Size
<1>2. HeadLen \in Nat \ {0}
  BY RecordingTypes
<1>3. i \in DOMAIN job.file /\ job.file[i] = "head"
  BY <1>1, <1>2 DEF HeadAt
<1>4. PICK l \in 1 .. Len(job.groups) : \E n \in 0 .. job.groups[l].packets - 1 : i = PacketAt(job, job.groups[l], n)
  BY <1>3 DEF IsRecording
<1>5. PICK n \in 0 .. job.groups[l].packets - 1 : i = PacketAt(job, job.groups[l], n)
  BY <1>4
<1>6. job.groups[l].begin <= i /\ i < job.groups[l].frames[1]
  BY <1>5, PacketPlaces
<1>7. job.groups[l].frames[1] \in Nat /\ job.groups[l].frames[1] < Ending(l) /\ Ending(l) \in Nat
  <2>1. 1 \in 1 .. job.units
    BY RecordingTypes
  <2>2. QED
    BY <2>1, GroupParts
<1>8. i < Ending(l)
  BY <1>6, <1>7
<1>9. k = l
  BY <1>6, <1>8, GroupsApart
<1>10. QED
  BY <1>5, <1>9

\* Its access unit delimiters are its units.
LEMMA UnitsOfGroup ==
    ASSUME job \in Jobs, IsRecording(job), NEW k \in Whole
    PROVE  /\ \A u \in 1 .. job.units : UnitAt(job.groups[k].frames[u])
           /\ \A i \in Nat : job.groups[k].frames[1] <= i /\ i < Ending(k) /\ UnitAt(i)
                                => \E u \in 1 .. job.units : i = job.groups[k].frames[u]
<1>1. /\ Size \in Nat /\ DOMAIN job.file = 0 .. Size - 1
  BY JobFacts, JobsAssumption DEF Size
<1>2. HeadLen \in Nat /\ AudLen \in Nat \ {0} /\ Len(job.groups) \in Nat /\ AudioBytes \in Nat /\ 1 \in 1 .. job.units
  BY RecordingTypes
<1>3. k \in 1 .. Len(job.groups) /\ Ending(k) + HeadLen < Size
  BY <1>1, WholeFacts
<1>4. \A i \in DOMAIN job.file :
        job.file[i] = "unit" <=> \E l \in 1 .. Len(job.groups) : \E u \in 1 .. job.units : i = job.groups[l].frames[u]
  BY DEF IsRecording
<1>5. \A l \in 1 .. Len(job.groups) : \A u \in 1 .. job.units :
        /\ job.groups[l].frames[u] \in Nat /\ job.groups[l].begin \in Nat /\ Ending(l) \in Nat
        /\ job.groups[l].begin <= job.groups[l].frames[u] /\ job.groups[l].frames[u] + AudLen <= Ending(l)
  <2> SUFFICES ASSUME NEW l \in 1 .. Len(job.groups), NEW u \in 1 .. job.units
               PROVE  /\ job.groups[l].frames[u] \in Nat /\ job.groups[l].begin \in Nat /\ Ending(l) \in Nat
                      /\ job.groups[l].begin <= job.groups[l].frames[u] /\ job.groups[l].frames[u] + AudLen <= Ending(l)
    OBVIOUS
  <2>1. /\ job.groups[l].frames[u] \in Nat /\ job.groups[l].begin \in Nat /\ Ending(l) \in Nat /\ job.groups[l].audio \in Nat
        /\ job.groups[l].frames[1] \in Nat
        /\ job.groups[l].begin < job.groups[l].frames[1] /\ job.groups[l].frames[1] <= job.groups[l].frames[u]
        /\ job.groups[l].frames[u] + AudLen <= job.groups[l].audio /\ Ending(l) = job.groups[l].audio + AudioBytes
    BY <1>2, GroupParts
  <2> DEFINE b == job.groups[l].begin
             f == job.groups[l].frames[1]
             i == job.groups[l].frames[u]
             a == job.groups[l].audio
  <2>2. /\ i \in Nat /\ b \in Nat /\ a \in Nat /\ f \in Nat /\ Ending(l) \in Nat
        /\ b < f /\ f <= i /\ i + AudLen <= a /\ Ending(l) = a + AudioBytes
    BY <2>1
  <2> HIDE DEF b, f, i, a
  <2>3. i \in Nat /\ b \in Nat /\ Ending(l) \in Nat /\ b <= i /\ i + AudLen <= Ending(l)
    BY <1>2, <2>2
  <2>4. QED
    BY <2>3 DEF b, i
<1>6. ASSUME NEW u \in 1 .. job.units
      PROVE  UnitAt(job.groups[k].frames[u])
  <2> DEFINE i == job.groups[k].frames[u]
  <2>1. i \in Nat /\ Ending(k) \in Nat /\ i + AudLen <= Ending(k)
    BY <1>3, <1>5
  <2>2. i + AudLen <= Size /\ i \in DOMAIN job.file
    <3> HIDE DEF i
    <3>1. QED
      BY <1>1, <1>2, <1>3, <2>1
  <2>3. job.file[i] = "unit"
    BY <1>3, <1>4, <2>2
  <2>4. QED
    BY <2>2, <2>3 DEF UnitAt
<1>7. ASSUME NEW i \in Nat, job.groups[k].frames[1] <= i, i < Ending(k), UnitAt(i)
      PROVE  \E u \in 1 .. job.units : i = job.groups[k].frames[u]
  <2>1. i \in DOMAIN job.file /\ job.file[i] = "unit"
    BY <1>1, <1>2, <1>7 DEF UnitAt
  <2>2. PICK l \in 1 .. Len(job.groups), u \in 1 .. job.units : i = job.groups[l].frames[u]
    BY <1>4, <2>1
  <2>3. job.groups[l].begin <= i /\ i < Ending(l)
    BY <1>2, <1>5, <2>2
  <2>4. job.groups[k].begin <= i
    <3>1. job.groups[k].begin \in Nat /\ job.groups[k].frames[1] \in Nat /\ job.groups[k].begin <= job.groups[k].frames[1]
      BY <1>2, <1>3, <1>5
    <3>2. QED
      BY <1>7, <3>1
  <2>5. k = l
    BY <1>3, <1>7, <2>3, <2>4, GroupsApart
  <2>6. QED
    BY <2>2, <2>5
<1>8. QED
  BY <1>6, <1>7

-----------------------------------------------------------------------------
(* What the walk finds of a recording                                     *)

\* Where the walk stands at a whole group with the right lengths, it finds the group's parts.
LEMMA PacketsFound ==
    ASSUME Measured, IsRecording(job), NEW k \in Whole, pos = job.groups[k].begin, packet = job.packet
    PROVE  Packets = job.groups[k].packets /\ VideoStart = job.groups[k].frames[1]
<1> DEFINE g == job.groups[k]
           S == {n \in 0 .. MaxPackets : n = MaxPackets \/ ~ HeadAt(pos + n * packet)}
<1>1. job \in Jobs /\ Size \in Nat
  BY JobFacts DEF Measured
<1>2. k \in 1 .. Len(job.groups)
  BY <1>1, WholeFacts
<1>3. MaxPackets \in Nat /\ g.packets \in 1 .. MaxPackets /\ g.frames[1] = g.begin + g.packets * job.packet
      /\ g.frames[1] < Ending(k) /\ 1 \in 1 .. job.units /\ \A u \in 1 .. job.units : g.frames[u] \in Nat
  <2>1. MaxPackets \in Nat /\ 1 \in 1 .. job.units
    BY RecordingTypes
  <2>2. QED
    BY <1>2, <2>1, GroupParts
<1>4. g.packets \in S
  <2>1. g.frames[1] \in Nat /\ g.frames[1] <= g.frames[1]
    BY <1>3
  <2>2. ~ HeadAt(g.frames[1])
    BY <1>1, <1>3, <2>1, HeadsOfGroup
  <2>3. pos + g.packets * packet = g.frames[1] /\ g.packets \in 0 .. MaxPackets
    BY <1>3
  <2>4. QED
    BY <2>2, <2>3
<1>5. ASSUME NEW n \in S PROVE g.packets <= n
  <2> SUFFICES ASSUME ~(g.packets <= n) PROVE FALSE
    OBVIOUS
  <2>1. n \in 0 .. g.packets - 1 /\ n # MaxPackets
    BY <1>3
  <2>2. HeadAt(PacketAt(job, g, n))
    BY <1>1, <2>1, HeadsOfGroup
  <2>3. PacketAt(job, g, n) = pos + n * packet
    BY DEF PacketAt
  <2>4. QED
    BY <2>1, <2>2, <2>3
<1>6. S \in SUBSET Nat
  BY <1>3
<1>7. Packets = Min(S)
  BY DEF Packets
<1> HIDE DEF S, g
<1>8. Packets = g.packets
  BY <1>4, <1>5, <1>6, <1>7, LeastIs
<1>9. VideoStart = g.frames[1]
  BY <1>3, <1>8 DEF VideoStart, g
<1>10. QED
  BY <1>8, <1>9 DEF g

\* It finds the next group: no header comes earlier, and that one is in the bytes looked at.
LEMMA NextHeadFound ==
    ASSUME Measured, IsRecording(job), NEW k \in Whole, pos = job.groups[k].begin, packet = job.packet
    PROVE  /\ NextHead = Ending(k) /\ VideoStart < Ending(k) /\ Ending(k) + HeadLen < Size
           /\ BufEnd \in Nat /\ Ending(k) + HeadLen < BufEnd
<1> DEFINE g == job.groups[k]
           f == g.frames[1]
           room == (BufEnd - VideoStart) \div 4
           skip == Min({MinVideo, room})
           S == {i \in VideoStart + skip .. BufEnd - HeadLen - 1 : HeadAt(i)}
<1>1. job \in Jobs /\ Size \in Nat /\ HeadLen \in Nat /\ BufSize \in Nat /\ MinVideo \in Nat
  BY JobFacts, RecordingTypes DEF Measured
<1>2. k \in 1 .. Len(job.groups) /\ Ending(k) + HeadLen < Size
  BY <1>1, WholeFacts
<1>3. /\ f \in Nat /\ g.begin \in Nat /\ Ending(k) \in Nat /\ g.begin < f /\ f < Ending(k)
      /\ f + MinVideo <= Ending(k) /\ Ending(k) + HeadLen < g.begin + BufSize
  <2>1. 1 \in 1 .. job.units
    BY RecordingTypes
  <2>2. QED
    BY <1>2, <2>1, GroupParts
<1>4. VideoStart = f
  BY PacketsFound
<1>5. HeadAt(Ending(k)) /\ \A i \in Nat : f <= i /\ i < Ending(k) => ~ HeadAt(i)
  BY <1>1, HeadsOfGroup
<1>6. NextHead = IF S = {} THEN Size ELSE Min(S)
  BY DEF NextHead, FirstOr
<1> HIDE DEF f, g
<1>7. BufEnd \in Nat /\ f <= BufEnd /\ Ending(k) + HeadLen < BufEnd
  <2>1. f + BufSize \in Int
    BY <1>1, <1>3
  <2>2. BufEnd = IF f + BufSize <= Size THEN f + BufSize ELSE Size
    BY <1>1, <1>4, <2>1, MinOfTwo DEF BufEnd
  <2>3. QED
    BY <1>1, <1>2, <1>3, <2>2
<1>8. room \in Nat
  BY <1>3, <1>4, <1>7
<1> HIDE DEF room
<1>9. skip \in Nat /\ skip <= MinVideo
  BY <1>1, <1>8, MinOfTwo
<1> HIDE DEF skip
<1>10. Ending(k) \in S
  BY <1>1, <1>3, <1>4, <1>5, <1>7, <1>9
<1>11. \A i \in S : i \in Nat /\ Ending(k) <= i
  BY <1>1, <1>3, <1>4, <1>5, <1>7, <1>9
<1> HIDE DEF S
<1>12. Min(S) = Ending(k)
  BY <1>10, <1>11, LeastIs
<1>13. QED
  BY <1>2, <1>3, <1>4, <1>6, <1>7, <1>10, <1>12 DEF f, g

\* It finds the group's audio and its units, and no others.
LEMMA GroupFound ==
    ASSUME Measured, IsRecording(job), NEW k \in Whole, pos = job.groups[k].begin, packet = job.packet, total = AudioBytes
    PROVE  /\ Packets = job.groups[k].packets /\ VideoStart = job.groups[k].frames[1]
           /\ VideoStart <= Size /\ pos < Size /\ NextHead = Ending(k)
           /\ AudioStart = job.groups[k].audio /\ Frames = job.groups[k].frames
<1> DEFINE g == job.groups[k]
           f == g.frames[1]
           a == g.audio
           S == {i \in VideoStart .. BufEnd - 2 * AudLen : UnitAt(i) /\ i < AudioStart}
<1>1. job \in Jobs /\ Size \in Nat /\ HeadLen \in Nat /\ AudLen \in 1 .. HeadLen /\ AudioBytes \in Nat /\ job.units \in Nat \ {0}
  BY JobFacts, RecordingTypes, LengthsAssumption DEF Measured
<1>2. k \in 1 .. Len(job.groups)
  BY <1>1, WholeFacts
<1>3. /\ f \in Nat /\ a \in Nat /\ g.begin \in Nat /\ Ending(k) \in Nat /\ g.begin < f /\ f < Ending(k)
      /\ Ending(k) = a + AudioBytes
      /\ g.frames \in Seq(Nat) /\ Len(g.frames) = job.units
  <2>1. 1 \in 1 .. job.units
    BY <1>1
  <2>2. QED
    BY <1>2, <2>1, GroupParts
<1>4. \A u \in 1 .. job.units : g.frames[u] \in Nat /\ f <= g.frames[u] /\ g.frames[u] + AudLen <= a
  BY <1>2, GroupParts
<1>5. \A u, v \in 1 .. job.units : u < v => g.frames[u] + AudLen <= g.frames[v]
  BY <1>2, GroupParts
<1>6. /\ \A u \in 1 .. job.units : UnitAt(g.frames[u])
      /\ \A i \in Nat : f <= i /\ i < Ending(k) /\ UnitAt(i) => \E u \in 1 .. job.units : i = g.frames[u]
  BY <1>1, UnitsOfGroup
<1>7. Packets = g.packets /\ VideoStart = f
  BY PacketsFound
<1>8. /\ NextHead = Ending(k) /\ VideoStart < Ending(k) /\ Ending(k) + HeadLen < Size
      /\ BufEnd \in Nat /\ Ending(k) + HeadLen < BufEnd
  BY NextHeadFound
<1>9. pos = g.begin
  OBVIOUS
<1> HIDE DEF f, a, g
<1>10. AudioStart = a
  BY <1>3, <1>8, <1>1 DEF AudioStart
<1>11. VideoStart <= Size /\ pos < Size
  BY <1>1, <1>3, <1>7, <1>8, <1>9
<1>12. \A u \in 1 .. job.units : g.frames[u] \in S
  <2> SUFFICES ASSUME NEW u \in 1 .. job.units PROVE g.frames[u] \in S
    OBVIOUS
  <2>1. g.frames[u] \in Nat /\ f <= g.frames[u] /\ g.frames[u] + AudLen <= a /\ UnitAt(g.frames[u])
    BY <1>4, <1>6
  <2>2. g.frames[u] <= BufEnd - 2 * AudLen /\ g.frames[u] < a
    BY <1>1, <1>3, <1>8, <2>1
  <2>3. QED
    BY <1>1, <1>3, <1>7, <1>8, <1>10, <2>1, <2>2
<1>13. \A i \in S : \E u \in 1 .. job.units : i = g.frames[u]
  <2> SUFFICES ASSUME NEW i \in S PROVE \E u \in 1 .. job.units : i = g.frames[u]
    OBVIOUS
  <2>1. i \in Nat /\ f <= i /\ i < Ending(k) /\ UnitAt(i)
    BY <1>1, <1>3, <1>7, <1>8, <1>10
  <2>2. QED
    BY <1>6, <2>1
<1>14. \A u, v \in 1 .. job.units : u < v => g.frames[u] < g.frames[v]
  <2> SUFFICES ASSUME NEW u \in 1 .. job.units, NEW v \in 1 .. job.units, u < v PROVE g.frames[u] < g.frames[v]
    OBVIOUS
  <2>1. g.frames[u] \in Nat /\ g.frames[v] \in Nat /\ g.frames[u] + AudLen <= g.frames[v]
    BY <1>4, <1>5
  <2>2. QED
    BY <1>1, <2>1
<1>15. S \in SUBSET Nat
  BY <1>1, <1>3, <1>7, <1>8
<1>16. Frames = InOrder(S)
  BY DEF Frames
<1> HIDE DEF S
<1>17. InOrder(S) = g.frames
  BY <1>1, <1>3, <1>12, <1>13, <1>14, <1>15, InOrderUnique
<1>18. QED
  BY <1>7, <1>8, <1>10, <1>11, <1>16, <1>17 DEF g, f, a

-----------------------------------------------------------------------------
(* What detectStructure measures of a recording                            *)

\* The first header of a recording is its first byte, the next is SecondPacket.
LEMMA SecondHead ==
    ASSUME job \in Jobs, IsRecording(job), 1 \in Whole
    PROVE  /\ SecondPacket(job) \in Nat \ {0} /\ SecondPacket(job) <= Ending(1)
           /\ HeadAt(0) /\ HeadAt(SecondPacket(job))
           /\ \A i \in Nat : 0 < i /\ i < SecondPacket(job) => ~ HeadAt(i)
<1> DEFINE g == job.groups[1]
           p == SecondPacket(job)
<1>1. /\ Size \in Nat /\ job.packet \in Nat \ {0} /\ MaxPackets \in Nat /\ g.begin = 0
  BY JobFacts, RecordingTypes
<1>2. 1 \in 1 .. Len(job.groups)
  BY <1>1, WholeFacts
<1>3. g.packets \in 1 .. MaxPackets /\ Ending(1) \in Nat /\ g.begin < Ending(1) /\ g.frames[1] < Ending(1)
      /\ g.frames[1] \in Nat
  <2>1. 1 \in 1 .. job.units
    BY RecordingTypes
  <2>2. QED
    BY <1>2, <2>1, GroupParts
<1>4. /\ \A n \in 0 .. g.packets - 1 : HeadAt(PacketAt(job, g, n))
      /\ HeadAt(Ending(1))
  BY HeadsOfGroup
<1>5. \A n \in Nat : PacketAt(job, g, n) = n * job.packet /\ n * job.packet \in Nat
  <2> SUFFICES ASSUME NEW n \in Nat PROVE PacketAt(job, g, n) = n * job.packet /\ n * job.packet \in Nat
    OBVIOUS
  <2>1. n * job.packet \in Nat /\ PacketAt(job, g, n) = 0 + n * job.packet
    BY <1>1, ProductNat DEF PacketAt
  <2>2. QED
    BY <2>1
<1>6. HeadAt(0)
  <2>1. 0 \in 0 .. g.packets - 1 /\ 0 * job.packet = 0
    BY <1>1, <1>3
  <2>2. PacketAt(job, g, 0) = 0
    BY <1>5, <2>1
  <2>3. QED
    BY <1>4, <2>1, <2>2
<1>7. CASE g.packets > 1
  <2>1. p = job.packet
    BY <1>7 DEF SecondPacket
  <2>2. 1 \in 0 .. g.packets - 1 /\ 1 * job.packet = job.packet
    BY <1>1, <1>3, <1>7
  <2>3. PacketAt(job, g, 1) = job.packet
    BY <1>5, <2>2
  <2>4. HeadAt(job.packet) /\ job.packet < g.frames[1]
    BY <1>2, <1>4, <2>2, <2>3, PacketPlaces
  <2>5. ASSUME NEW i \in Nat, 0 < i, i < job.packet, HeadAt(i) PROVE FALSE
    <3>1. g.begin <= i /\ i < Ending(1)
      BY <1>1, <1>3, <2>4, <2>5
    <3>2. PICK n \in 0 .. g.packets - 1 : i = PacketAt(job, g, n)
      BY <1>2, <2>5, <3>1, PacketsOfGroup
    <3>3. n \in Nat /\ i = n * job.packet
      BY <1>1, <1>3, <1>5, <3>2
    <3>4. n # 0
      BY <1>1, <2>5, <3>3
    <3>5. 1 \in Nat /\ 1 <= n /\ job.packet \in Nat
      BY <1>1, <3>3, <3>4
    <3>6. 1 * job.packet <= n * job.packet
      BY <3>3, <3>5, ProductGrows
    <3>7. QED
      BY <1>1, <2>2, <2>5, <3>3, <3>6
  <2>6. p \in Nat \ {0} /\ p <= Ending(1)
    BY <1>1, <1>3, <2>1, <2>4
  <2>7. QED
    BY <1>6, <2>1, <2>4, <2>5, <2>6
<1>8. CASE ~(g.packets > 1)
  <2>1. p = Ending(1) /\ g.packets = 1
    BY <1>1, <1>3, <1>8 DEF SecondPacket, Ending
  <2>2. p \in Nat \ {0} /\ p <= Ending(1)
    BY <1>1, <1>3, <2>1
  <2>3. ASSUME NEW i \in Nat, 0 < i, i < p, HeadAt(i) PROVE FALSE
    <3>1. g.begin <= i /\ i < Ending(1)
      BY <1>1, <2>1, <2>3
    <3>2. PICK n \in 0 .. g.packets - 1 : i = PacketAt(job, g, n)
      BY <1>2, <2>3, <3>1, PacketsOfGroup
    <3>3. n = 0 /\ 0 * job.packet = 0
      BY <1>1, <2>1, <3>2
    <3>4. QED
      BY <1>5, <2>3, <3>2, <3>3
  <2>4. QED
    BY <1>4, <1>6, <2>1, <2>2, <2>3
<1>9. QED
  BY <1>7, <1>8

\* What is read to detect the lengths reaches beyond the first group.
LEMMA ReadReaches ==
    ASSUME job \in Jobs, IsRecording(job), 1 \in Whole
    PROVE  /\ DetectRead \in Nat /\ Ending(1) \in Nat /\ Ending(1) + HeadLen < DetectRead
           /\ Ending(1) > 0 /\ ~(Size < HeadLen + 1)
<1>1. /\ Size \in Nat /\ HeadLen \in Nat /\ BufSize \in Nat /\ job.groups[1].begin = 0
  BY JobFacts, RecordingTypes
<1>2. 1 \in 1 .. Len(job.groups) /\ Ending(1) + HeadLen < Size
  BY <1>1, WholeFacts
<1>3. Ending(1) \in Nat /\ 0 < Ending(1) /\ Ending(1) + HeadLen < 0 + BufSize
  BY <1>1, <1>2, GroupParts
<1>4. DetectRead = IF BufSize <= Size THEN BufSize ELSE Size
  BY <1>1, MinOfTwo DEF DetectRead
<1>5. QED
  BY <1>1, <1>2, <1>3, <1>4

\* The distance of the first two headers is the length of a packet, or is not believed.
LEMMA PacketDetected ==
    ASSUME job \in Jobs, IsRecording(job), 1 \in Whole
    PROVE  DetectedPacket = job.packet
<1> DEFINE limit == Min({DetectRead, HeadScan})
           heads == {i \in 0 .. limit - HeadLen : HeadAt(i)}
           first == FirstOr(heads, 0)
           second == FirstOr(heads \ {first}, first)
           p == SecondPacket(job)
<1>1. /\ DetectRead \in Nat /\ Ending(1) \in Nat /\ Ending(1) + HeadLen < DetectRead
      /\ HeadLen \in Nat /\ HeadScan \in Nat /\ PacketSizes \in SUBSET (Nat \ {0}) /\ DefaultPacket \in Nat
  BY ReadReaches, LengthsAssumption
<1>2. /\ p \in Nat \ {0} /\ p <= Ending(1)
      /\ HeadAt(0) /\ HeadAt(p)
      /\ \A i \in Nat : 0 < i /\ i < p => ~ HeadAt(i)
  BY SecondHead
<1>3. limit = IF DetectRead <= HeadScan THEN DetectRead ELSE HeadScan
  BY <1>1, MinOfTwo
<1>4. DetectedPacket = IF second - first \in PacketSizes THEN second - first ELSE DefaultPacket
  BY DEF DetectedPacket
<1>5. /\ p \in PacketSizes => p = job.packet
      /\ job.packet = DefaultPacket \/ (p = job.packet /\ job.packet \in PacketSizes /\ job.packet + HeadLen <= HeadScan)
  BY DEF IsRecording, IsUsual
<1> HIDE DEF p, limit
<1>6. limit \in Nat
  BY <1>1, <1>3
<1>7. first = 0
  <2>1. CASE heads = {}
    BY <2>1 DEF FirstOr
  <2>2. CASE heads # {}
    <3>1. 0 \in heads
      BY <1>1, <1>2, <1>6, <2>2
    <3>2. heads \in SUBSET Nat /\ \A i \in heads : 0 <= i
      BY <1>1, <1>6
    <3> HIDE DEF heads
    <3>3. Min(heads) = 0
      BY <3>1, <3>2, LeastIs
    <3>4. QED
      BY <2>2, <3>3 DEF FirstOr
  <2>3. QED
    BY <2>1, <2>2
<1>8. second = IF p <= limit - HeadLen THEN p ELSE 0
  <2> DEFINE rest == heads \ {0}
  <2>1. second = IF rest = {} THEN 0 ELSE Min(rest)
    <3> HIDE DEF heads
    <3>1. QED
      BY <1>7 DEF FirstOr
  <2>2. rest \in SUBSET Nat /\ \A i \in rest : p <= i
    BY <1>1, <1>2, <1>6
  <2>3. CASE p <= limit - HeadLen
    <3>1. p \in rest
      BY <1>1, <1>2, <1>6, <2>3
    <3> HIDE DEF rest
    <3>2. Min(rest) = p
      BY <2>2, <3>1, LeastIs
    <3>3. QED
      BY <2>1, <2>3, <3>1, <3>2
  <2>4. CASE ~(p <= limit - HeadLen)
    <3>1. \A i \in rest : i <= limit - HeadLen
      OBVIOUS
    <3>2. rest = {}
      <4> HIDE DEF rest
      <4>1. QED
        BY <1>1, <1>2, <1>6, <2>2, <2>4, <3>1
    <3>3. QED
      BY <2>1, <2>4, <3>2
  <2>5. QED
    BY <2>3, <2>4
<1> HIDE DEF first, second
<1>9. p - 0 = p /\ 0 - 0 = 0 /\ 0 \notin PacketSizes
  BY <1>1, <1>2
<1>10. CASE p <= limit - HeadLen
  <2>1. DetectedPacket = IF p \in PacketSizes THEN p ELSE DefaultPacket
    BY <1>4, <1>7, <1>8, <1>9, <1>10
  <2>2. QED
    BY <1>5, <2>1
<1>11. CASE ~(p <= limit - HeadLen)
  <2>1. DetectedPacket = DefaultPacket
    BY <1>4, <1>7, <1>8, <1>9, <1>11
  <2>2. ~(p = job.packet /\ job.packet + HeadLen <= HeadScan)
    BY <1>1, <1>2, <1>3, <1>11
  <2>3. QED
    BY <1>5, <2>1, <2>2
<1>12. QED
  BY <1>10, <1>11

\* The units counted in the first group are all of them: the last lies before what is left out.
LEMMA FramesDetected ==
    ASSUME job \in Jobs, IsRecording(job), 1 \in Whole
    PROVE  DetectedFrames(job.packet) = job.units
<1> DEFINE g == job.groups[1]
           f == g.frames[1]
           S == {n \in 0 .. MaxPackets : n = MaxPackets \/ n * job.packet + HeadLen >= DetectRead \/ ~ HeadAt(n * job.packet)}
           packets == Min(S)
           start == packets * job.packet
           N == {i \in start + MinVideo .. DetectRead - HeadLen : HeadAt(i)}
           next == FirstOr(N, 0)
           units == {i \in start .. next - Margin - AudLen : UnitAt(i)}
<1>1. /\ DetectRead \in Nat /\ Ending(1) \in Nat /\ Ending(1) + HeadLen < DetectRead /\ Size \in Nat
      /\ HeadLen \in Nat /\ MinVideo \in Nat /\ Margin \in Nat /\ AudLen \in Nat \ {0} /\ MaxPackets \in Nat
      /\ job.packet \in Nat \ {0} /\ job.units \in Nat \ {0} /\ 1 \in 1 .. job.units /\ job.units \in 1 .. job.units
      /\ g.begin = 0
  <2>1. DetectRead \in Nat /\ Ending(1) \in Nat /\ Ending(1) + HeadLen < DetectRead
    BY ReadReaches
  <2>2. /\ HeadLen \in Nat /\ MinVideo \in Nat /\ Margin \in Nat /\ AudLen \in Nat \ {0} /\ MaxPackets \in Nat
        /\ job.packet \in Nat \ {0} /\ job.units \in Nat \ {0} /\ g.begin = 0
    BY RecordingTypes
  <2>3. 1 \in 1 .. job.units /\ job.units \in 1 .. job.units
    BY <2>2
  <2>4. Size \in Nat
    BY JobFacts
  <2>5. QED
    BY <2>1, <2>2, <2>3, <2>4
<1>2. 1 \in 1 .. Len(job.groups)
  BY <1>1, WholeFacts
<1>3. /\ g.packets \in 1 .. MaxPackets /\ f \in Nat /\ f < Ending(1) /\ f = 0 + g.packets * job.packet
      /\ g.packets * job.packet \in Nat
      /\ f + MinVideo <= Ending(1) /\ g.frames \in Seq(Nat) /\ Len(g.frames) = job.units
      /\ g.frames[job.units] + AudLen + Margin <= Ending(1)
  BY <1>1, <1>2, GroupParts
<1>4. /\ \A u \in 1 .. job.units : g.frames[u] \in Nat /\ f <= g.frames[u]
      /\ \A u, v \in 1 .. job.units : u < v => g.frames[u] + AudLen <= g.frames[v]
  BY <1>2, GroupParts
<1>5. /\ \A n \in 0 .. g.packets - 1 : HeadAt(PacketAt(job, g, n)) /\ PacketAt(job, g, n) < f
                                       /\ PacketAt(job, g, n) = 0 + n * job.packet /\ PacketAt(job, g, n) \in Nat
      /\ HeadAt(Ending(1))
      /\ \A i \in Nat : f <= i /\ i < Ending(1) => ~ HeadAt(i)
  BY <1>1, <1>2, HeadsOfGroup, PacketPlaces
<1>6. /\ \A u \in 1 .. job.units : UnitAt(g.frames[u])
      /\ \A i \in Nat : f <= i /\ i < Ending(1) /\ UnitAt(i) => \E u \in 1 .. job.units : i = g.frames[u]
  BY UnitsOfGroup
<1>7. DetectedFrames(job.packet) = IF packets > 0 /\ Cardinality(units) \in FrameCounts THEN Cardinality(units) ELSE DefaultFrames
  BY DEF DetectedFrames
<1>8. job.units \in FrameCounts \cup {DefaultFrames}
  BY DEF IsRecording, IsUsual
<1> HIDE DEF f, g
<1> DEFINE E == Ending(1)
<1>9. /\ DetectRead \in Nat /\ E \in Nat /\ E + HeadLen < DetectRead /\ HeadLen \in Nat
       /\ MinVideo \in Nat /\ Margin \in Nat /\ AudLen \in Nat /\ AudLen > 0
       /\ f \in Nat /\ f < E /\ f + MinVideo <= E
  <2>1. /\ DetectRead \in Nat /\ E \in Nat /\ E + HeadLen < DetectRead /\ HeadLen \in Nat
        /\ MinVideo \in Nat /\ Margin \in Nat /\ AudLen \in Nat \ {0}
    BY <1>1
  <2>2. f \in Nat /\ f < E /\ f + MinVideo <= E
    BY <1>3
  <2>3. AudLen > 0
    BY <2>1
  <2>4. QED
    BY <2>1, <2>2, <2>3
<1>10. /\ MaxPackets \in Nat /\ g.packets \in Nat /\ 1 <= g.packets /\ g.packets <= MaxPackets
  <2>1. MaxPackets \in Nat /\ g.packets \in 1 .. MaxPackets
    BY <1>1, <1>3
  <2>2. QED
    BY <2>1
<1>11. HeadAt(E) /\ \A i \in Nat : f <= i /\ i < E => ~ HeadAt(i)
  BY <1>5
<1>12. g.frames[job.units] + AudLen + Margin <= E
  BY <1>3
<1> HIDE DEF E
<1>13. packets = g.packets
  <2>1. f = g.packets * job.packet /\ ~ HeadAt(f)
    BY <1>3, <1>9, <1>11
  <2>2. g.packets \in S
    <3>1. g.packets \in 0 .. MaxPackets /\ ~ HeadAt(g.packets * job.packet)
      BY <1>10, <2>1
    <3>2. QED
      BY <3>1
  <2>3. ASSUME NEW n \in S PROVE g.packets <= n
    <3> SUFFICES ASSUME ~(g.packets <= n) PROVE FALSE
      OBVIOUS
    <3>0. n \in 0 .. MaxPackets
      OBVIOUS
    <3>1. n \in 0 .. g.packets - 1 /\ n # MaxPackets
      BY <1>10, <3>0
    <3>2. HeadAt(PacketAt(job, g, n)) /\ PacketAt(job, g, n) < f /\ PacketAt(job, g, n) \in Nat
          /\ PacketAt(job, g, n) = 0 + n * job.packet
      BY <1>5, <3>1
    <3>3. n * job.packet \in Nat
      BY <1>1, <3>1, ProductNat
    <3>4. PacketAt(job, g, n) = n * job.packet
      BY <3>2, <3>3
    <3>5. ~(n * job.packet + HeadLen >= DetectRead)
      BY <1>9, <3>2, <3>4
    <3>6. QED
      BY <3>1, <3>2, <3>4, <3>5
  <2>4. S \in SUBSET Nat
    BY <1>1
  <2> HIDE DEF S
  <2>5. QED
    BY <2>2, <2>3, <2>4, LeastIs
<1>14. start = f
  <2> HIDE DEF packets
  <2>1. QED
    BY <1>3, <1>13
<1> HIDE DEF packets, start
<1>15. next = E
  <2>1. E \in N
    BY <1>14, <1>9, <1>11
  <2>2. ASSUME NEW i \in N PROVE i \in Nat /\ E <= i
    <3>1. i \in Nat /\ f <= i /\ HeadAt(i)
      BY <1>14, <1>9
    <3>2. QED
      BY <1>9, <1>11, <3>1
  <2> HIDE DEF N
  <2>3. Min(N) = E
    BY <2>1, <2>2, LeastIs
  <2>4. QED
    BY <2>1, <2>3 DEF FirstOr
<1> HIDE DEF next
<1>16. Cardinality(units) = job.units
  <2>1. \A u \in 1 .. job.units : g.frames[u] \in units
    <3> SUFFICES ASSUME NEW u \in 1 .. job.units PROVE g.frames[u] \in units
      OBVIOUS
    <3>1. g.frames[u] \in Nat /\ f <= g.frames[u] /\ UnitAt(g.frames[u]) /\ g.frames[job.units] \in Nat
      BY <1>1, <1>4, <1>6
    <3>2. u = job.units \/ u < job.units
      BY <1>1
    <3>3. g.frames[u] <= g.frames[job.units]
      <4>1. u < job.units => g.frames[u] + AudLen <= g.frames[job.units]
        BY <1>1, <1>4
      <4>2. QED
        BY <1>1, <3>1, <3>2, <4>1
    <3>4. g.frames[u] <= E - Margin - AudLen
      BY <1>9, <1>12, <3>1, <3>3
    <3>5. QED
      BY <1>14, <1>15, <1>9, <3>1, <3>4
  <2>2. \A i \in units : \E u \in 1 .. job.units : i = g.frames[u]
    <3> SUFFICES ASSUME NEW i \in units PROVE \E u \in 1 .. job.units : i = g.frames[u]
      OBVIOUS
    <3>1. i \in Nat /\ f <= i /\ i < E /\ UnitAt(i)
      BY <1>14, <1>15, <1>9
    <3>2. QED
      BY <1>6, <3>1 DEF E
  <2>3. \A u, v \in 1 .. job.units : u < v => g.frames[u] < g.frames[v]
    <3> SUFFICES ASSUME NEW u \in 1 .. job.units, NEW v \in 1 .. job.units, u < v PROVE g.frames[u] < g.frames[v]
      OBVIOUS
    <3>1. g.frames[u] \in Nat /\ g.frames[v] \in Nat /\ g.frames[u] + AudLen <= g.frames[v]
      BY <1>4
    <3>2. QED
      BY <1>1, <3>1
  <2>4. units \in SUBSET Nat
    BY <1>14, <1>9
  <2> HIDE DEF units
  <2>5. QED
    BY <1>1, <1>3, <2>1, <2>2, <2>3, <2>4, InOrderUnique
<1> HIDE DEF units
<1>17. packets > 0
  BY <1>1, <1>3, <1>13
<1>18. QED
  BY <1>7, <1>8, <1>16, <1>17

\* What detectStructure measures of a recording is what the camera wrote.
LEMMA LengthsDetected ==
    ASSUME job \in Jobs, IsRecording(job), 1 \in Whole, Detect
    PROVE  packet' = job.packet /\ total' = AudioBytes
<1>1. job.tracks \in Nat \ {0} /\ job.units * AudioPerFrame \in Nat
  BY RecordingTypes
<1>2. ~(Size < HeadLen + 1)
  BY ReadReaches
<1>3. packet' = job.packet
  BY <1>2, PacketDetected DEF Detect
<1>4. Max({1, job.tracks}) = job.tracks
  BY <1>1, MaxOfTwo
<1>5. total' = job.units * AudioPerFrame * job.tracks
  BY <1>2, <1>3, <1>4, FramesDetected DEF Detect
<1>6. QED
  BY <1>3, <1>5 DEF AudioBytes

-----------------------------------------------------------------------------
(* What the walk saves of a recording                                      *)

\* What a whole group adds to the tracks is what it was written as.
LEMMA GroupWrites ==
    ASSUME Measured, IsRecording(job), NEW k \in Whole, pos = job.groups[k].begin, packet = job.packet, total = AudioBytes
    PROVE  LET g == job.groups[k]
           IN  /\ Chunk(pos, Packets * packet, Packets) = WrittenMeta(g)
               /\ \A t \in 1 .. job.tracks : AudioChunks[t] = WrittenAudio(g, t)
               /\ Len(Frames) = job.units
               /\ \A u \in 1 .. job.units : Chunk(Frames[u], FrameSize(u), 1) = WrittenFrame(g, u) /\ FrameSize(u) = WrittenFrame(g, u).size
<1> DEFINE g == job.groups[k]
<1>1. /\ Packets = g.packets /\ AudioStart = g.audio /\ Frames = g.frames
  BY GroupFound
<1>2. job \in Jobs /\ Size \in Nat
  BY JobFacts DEF Measured
<1>3. k \in 1 .. Len(job.groups)
  BY <1>2, WholeFacts
<1>4. Len(g.frames) = job.units
  BY <1>3, GroupParts
<1>5. Chunk(pos, Packets * packet, Packets) = WrittenMeta(g)
  BY <1>1 DEF WrittenMeta
<1>6. total \div job.tracks = job.units * AudioPerFrame
  <2>1. job.units * AudioPerFrame \in Nat /\ job.tracks \in Nat \ {0}
    BY RecordingTypes
  <2>2. ((job.units * AudioPerFrame) * job.tracks) \div job.tracks = job.units * AudioPerFrame
    BY <2>1, QuotientOfProduct
  <2>3. QED
    BY <2>2 DEF AudioBytes
<1>7. ASSUME NEW t \in 1 .. job.tracks PROVE AudioChunks[t] = WrittenAudio(g, t)
  BY <1>1, <1>6 DEF AudioChunks, WrittenAudio
<1>8. ASSUME NEW u \in 1 .. job.units
      PROVE  Chunk(Frames[u], FrameSize(u), 1) = WrittenFrame(g, u) /\ FrameSize(u) = WrittenFrame(g, u).size
  <2>1. FrameSize(u) = (IF u < job.units THEN g.frames[u + 1] ELSE g.audio) - g.frames[u]
    BY <1>1, <1>4 DEF FrameSize
  <2>2. QED
    BY <1>1, <2>1 DEF WrittenFrame, Chunk
<1>9. QED
  BY <1>1, <1>4, <1>5, <1>7, <1>8

\* The fields of the tracks after a group.
LEMMA GroupFields ==
    ASSUME Typed, Group
    PROVE  /\ job' = job /\ state' = state /\ state = "groups" /\ packet' = packet /\ total' = total /\ pos' = NextHead
           /\ Len(Frames) \in Nat /\ \A u \in 1 .. Len(Frames) : FrameSize(u) \in Nat
           /\ video'.sizes = video.sizes \o [u \in 1 .. Len(Frames) |-> FrameSize(u)]
           /\ video'.keys = Append(video.keys, Len(video.sizes))
           /\ video'.chunks = video.chunks \o [u \in 1 .. Len(Frames) |-> Chunk(Frames[u], FrameSize(u), 1)]
           /\ [u \in 1 .. Len(Frames) |-> Chunk(Frames[u], FrameSize(u), 1)] \in Seq(ChunkType)
           /\ meta' = Append(meta, Chunk(pos, Packets * packet, Packets))
           /\ Chunk(pos, Packets * packet, Packets) \in ChunkType
           /\ \A t \in 1 .. job.tracks : audio'[t] = Append(audio[t], AudioChunks[t]) /\ AudioChunks[t] \in ChunkType
<1>1. Measured /\ VideoStart <= Size /\ Frames # <<>> /\ job.tracks \in Nat
  BY JobFacts DEF Typed, Measured, Group
<1>2. pos' = NextHead
  BY GroupAdds
<1>3. Len(Frames) \in Nat /\ \A u \in 1 .. Len(Frames) : FrameSize(u) \in Nat /\ Frames[u] \in Nat
  BY <1>1, FramesTile
<1>4. video'.chunks = video.chunks \o [u \in 1 .. Len(Frames) |-> Chunk(Frames[u], FrameSize(u), 1)]
  <2>1. video'.chunks = video.chunks \o [u \in 1 .. Len(Frames) |-> Chunk(Frames[u], [i \in 1 .. Len(Frames) |-> FrameSize(i)][u], 1)]
    BY DEF Group
  <2>2. [u \in 1 .. Len(Frames) |-> Chunk(Frames[u], [i \in 1 .. Len(Frames) |-> FrameSize(i)][u], 1)]
        = [u \in 1 .. Len(Frames) |-> Chunk(Frames[u], FrameSize(u), 1)]
    OBVIOUS
  <2>3. QED
    BY <2>1, <2>2
<1>5. [u \in 1 .. Len(Frames) |-> Chunk(Frames[u], FrameSize(u), 1)] \in Seq(ChunkType)
  <2>1. \A u \in 1 .. Len(Frames) : Chunk(Frames[u], FrameSize(u), 1) \in ChunkType
    BY <1>3 DEF Chunk, ChunkType
  <2>2. QED
    BY <1>3, <2>1
<1>6. Chunk(pos, Packets * packet, Packets) \in ChunkType
  BY <1>1, PlacesInOrder, JobFacts DEF Chunk, ChunkType, Measured
<1>7. \A t \in 1 .. job.tracks : audio'[t] = Append(audio[t], AudioChunks[t]) /\ AudioChunks[t] \in ChunkType
  BY <1>1, AudioPlaces DEF Group
<1>8. QED
  BY <1>2, <1>3, <1>4, <1>5, <1>6, <1>7 DEF Group, Turn

\* The places of a sequence and of what is put behind it.
LEMMA PutBehind ==
    ASSUME NEW T, NEW s \in Seq(T), NEW r \in Seq(T)
    PROVE  /\ s \o r \in Seq(T) /\ Len(s \o r) = Len(s) + Len(r) /\ Len(s) \in Nat /\ Len(r) \in Nat
           /\ \A i \in 1 .. Len(s) : i <= Len(s \o r) /\ (s \o r)[i] = s[i]
           /\ \A i \in 1 .. Len(r) : Len(s) + i <= Len(s \o r) /\ (s \o r)[Len(s) + i] = r[i]
<1>1. /\ s \o r \in Seq(T) /\ Len(s \o r) = Len(s) + Len(r) /\ Len(s) \in Nat /\ Len(r) \in Nat
      /\ \A i \in 1 .. Len(s) + Len(r) : (s \o r)[i] = IF i <= Len(s) THEN s[i] ELSE r[i - Len(s)]
  BY ConcatProperties, LenProperties
<1>2. ASSUME NEW i \in 1 .. Len(r)
      PROVE  Len(s) + i <= Len(s \o r) /\ (s \o r)[Len(s) + i] = r[i]
  <2>1. Len(s) + i \in 1 .. Len(s) + Len(r) /\ ~(Len(s) + i <= Len(s)) /\ (Len(s) + i) - Len(s) = i
    BY <1>1
  <2>2. QED
    BY <1>1, <2>1
<1>3. ASSUME NEW i \in 1 .. Len(s)
      PROVE  i <= Len(s \o r) /\ (s \o r)[i] = s[i]
  BY <1>1
<1>4. QED
  BY <1>1, <1>2, <1>3

\* The walk over a recording stands where the next group begins, while that one is whole, and has
\* saved the groups before it.
Lengths == packet = job.packet /\ total = AudioBytes
Standing ==
    LET n == Len(meta)
    IN  n + 1 \in Whole =>
            /\ pos = job.groups[n + 1].begin
            /\ Len(video.chunks) = n * job.units /\ Len(video.sizes) = n * job.units
Recovering ==
    IsRecording(job) =>
        /\ video.sizes \in Seq(Nat) /\ video.keys \in Seq(Nat)
        /\ Len(video.keys) = Len(meta) /\ \A t \in 1 .. job.tracks : Len(audio[t]) = Len(meta)
        /\ state # "detect" /\ Whole # {} => Lengths
        /\ Standing
        /\ \A k \in Whole : k <= Len(meta) => IsRecovered(k)
        /\ state = "saved" => \A k \in Whole : k <= Len(meta)

\* A group leaves the groups before it as they were.
LEMMA GroupKeeps ==
    ASSUME Typed, Recovering, IsRecording(job), Group, NEW k \in Whole, k <= Len(meta)
    PROVE  IsRecovered(k)'
<1> DEFINE g == job.groups[k]
           i(u) == (k - 1) * job.units + u
<1>1. /\ meta \in Seq(ChunkType) /\ video.chunks \in Seq(ChunkType) /\ video.sizes \in Seq(Nat) /\ video.keys \in Seq(Nat)
      /\ \A t \in 1 .. job.tracks : audio[t] \in Seq(ChunkType)
  BY DEF Typed, Recovering
<1>2. /\ k <= Len(meta) /\ meta[k] = WrittenMeta(g)
      /\ \A t \in 1 .. job.tracks : k <= Len(audio[t]) /\ audio[t][k] = WrittenAudio(g, t)
      /\ k <= Len(video.keys) /\ video.keys[k] = (k - 1) * job.units
      /\ \A u \in 1 .. job.units :
            /\ i(u) <= Len(video.chunks) /\ video.chunks[i(u)] = WrittenFrame(g, u)
            /\ i(u) <= Len(video.sizes) /\ video.sizes[i(u)] = WrittenFrame(g, u).size
  <2>1. IsRecovered(k)
    BY DEF Recovering
  <2>2. QED
    BY <2>1 DEF IsRecovered
<1>3. job \in Jobs /\ Size \in Nat
  BY JobFacts DEF Typed, Measured
<1>4. k \in Nat \ {0} /\ job.units \in Nat \ {0}
  <2>1. k \in 1 .. Len(job.groups)
    BY <1>3, WholeFacts
  <2>2. QED
    BY <2>1, RecordingTypes
<1>5. \A u \in 1 .. job.units : i(u) \in Nat \ {0}
  <2>1. (k - 1) * job.units \in Nat
    BY <1>4, ProductNat
  <2>2. QED
    BY <2>1
<1>6. job' = job
  BY GroupFields
<1>7. k <= Len(meta') /\ meta'[k] = WrittenMeta(g)
  <2>1. meta' = Append(meta, Chunk(pos, Packets * packet, Packets)) /\ Chunk(pos, Packets * packet, Packets) \in ChunkType
    BY GroupFields
  <2>2. k \in 1 .. Len(meta) /\ meta[k] = WrittenMeta(g) /\ Len(meta) \in Nat
    <3>1. Len(meta) \in Nat
      BY <1>1, LenProperties
    <3>2. QED
      BY <1>2, <1>4, <3>1
  <2>3. QED
    BY <1>1, <2>1, <2>2, AppendProperties
<1>8. ASSUME NEW t \in 1 .. job.tracks
      PROVE  k <= Len(audio'[t]) /\ audio'[t][k] = WrittenAudio(g, t)
  <2>1. audio'[t] = Append(audio[t], AudioChunks[t]) /\ AudioChunks[t] \in ChunkType
    BY GroupFields
  <2>2. k \in 1 .. Len(audio[t]) /\ audio[t][k] = WrittenAudio(g, t) /\ Len(audio[t]) \in Nat
    <3>1. audio[t] \in Seq(ChunkType)
      BY <1>1
    <3>2. Len(audio[t]) \in Nat
      BY <3>1, LenProperties
    <3>3. k <= Len(audio[t]) /\ audio[t][k] = WrittenAudio(g, t)
      BY <1>2
    <3>4. QED
      BY <1>4, <3>2, <3>3
  <2>3. QED
    BY <1>1, <2>1, <2>2, AppendProperties
<1>9. k <= Len(video'.keys) /\ video'.keys[k] = (k - 1) * job.units
  <2>1. video'.keys = Append(video.keys, Len(video.sizes)) /\ Len(video.sizes) \in Nat
    BY <1>1, GroupFields, LenProperties
  <2>2. k \in 1 .. Len(video.keys) /\ video.keys[k] = (k - 1) * job.units /\ Len(video.keys) \in Nat
    <3>1. Len(video.keys) \in Nat
      BY <1>1, LenProperties
    <3>2. k <= Len(video.keys) /\ video.keys[k] = (k - 1) * job.units
      BY <1>2
    <3> DEFINE n == (k - 1) * job.units
    <3> HIDE DEF n
    <3>3. QED
      BY <1>4, <3>1, <3>2
  <2>3. QED
    BY <1>1, <2>1, <2>2, AppendProperties
<1>10. ASSUME NEW u \in 1 .. job.units
       PROVE  /\ i(u) <= Len(video'.chunks) /\ video'.chunks[i(u)] = WrittenFrame(g, u)
              /\ i(u) <= Len(video'.sizes) /\ video'.sizes[i(u)] = WrittenFrame(g, u).size
  <2> DEFINE r == [x \in 1 .. Len(Frames) |-> Chunk(Frames[x], FrameSize(x), 1)]
             z == [x \in 1 .. Len(Frames) |-> FrameSize(x)]
  <2>1. /\ i(u) <= Len(video.chunks) /\ video.chunks[i(u)] = WrittenFrame(g, u)
        /\ i(u) <= Len(video.sizes) /\ video.sizes[i(u)] = WrittenFrame(g, u).size
    BY <1>2
  <2>2. video'.chunks = video.chunks \o r /\ r \in Seq(ChunkType)
    BY GroupFields
  <2>3. video'.sizes = video.sizes \o z /\ z \in Seq(Nat)
    BY GroupFields
  <2> HIDE DEF r, z
  <2>4. i(u) \in Nat \ {0}
    BY <1>5
  <2> HIDE DEF i
  <2>5. i(u) \in 1 .. Len(video.chunks) /\ i(u) \in 1 .. Len(video.sizes)
    BY <1>1, <2>1, <2>4, LenProperties
  <2>6. i(u) <= Len(video'.chunks) /\ video'.chunks[i(u)] = video.chunks[i(u)]
    BY <1>1, <2>2, <2>5, PutBehind
  <2>7. i(u) <= Len(video'.sizes) /\ video'.sizes[i(u)] = video.sizes[i(u)]
    BY <1>1, <2>3, <2>5, PutBehind
  <2>8. QED
    BY <2>1, <2>6, <2>7
<1>11. QED
  BY <1>6, <1>7, <1>8, <1>9, <1>10 DEF IsRecovered, WrittenMeta, WrittenAudio, WrittenFrame

\* A whole group is recovered as it was written, and the walk stands behind it.
LEMMA GroupRecovers ==
    ASSUME Typed, Recovering, IsRecording(job), Group, NEW k \in Whole, k = Len(meta) + 1
    PROVE  /\ IsRecovered(k)'
           /\ pos' = Ending(k)
           /\ Len(video'.chunks) = k * job.units /\ Len(video'.sizes) = k * job.units
<1> DEFINE before == (k - 1) * job.units
           g == job.groups[k]
           r == [x \in 1 .. Len(Frames) |-> Chunk(Frames[x], FrameSize(x), 1)]
           z == [x \in 1 .. Len(Frames) |-> FrameSize(x)]
           m == Chunk(pos, Packets * packet, Packets)
<1>1. /\ meta \in Seq(ChunkType) /\ video.chunks \in Seq(ChunkType) /\ video.sizes \in Seq(Nat) /\ video.keys \in Seq(Nat)
      /\ \A t \in 1 .. job.tracks : audio[t] \in Seq(ChunkType)
      /\ Measured
  BY DEF Typed, Recovering
<1>2. job \in Jobs /\ Size \in Nat /\ Len(meta) \in Nat /\ k \in Nat \ {0} /\ Len(meta) = k - 1 /\ job.units \in Nat \ {0}
  <2>1. job \in Jobs /\ Size \in Nat /\ job.units \in Nat \ {0}
    BY <1>1, JobFacts, RecordingTypes DEF Measured
  <2>2. Len(meta) \in Nat
    BY <1>1, LenProperties
  <2>3. k \in Nat \ {0} /\ Len(meta) = k - 1
    BY <2>2
  <2>4. QED
    BY <2>1, <2>2, <2>3
<1>3. /\ pos = g.begin /\ packet = job.packet /\ total = AudioBytes
      /\ Len(video.chunks) = before /\ Len(video.sizes) = before
      /\ Len(video.keys) = k - 1 /\ \A t \in 1 .. job.tracks : Len(audio[t]) = k - 1
  BY <1>2, GroupFields DEF Recovering, Standing, Lengths
<1>4. /\ job' = job /\ pos' = NextHead
      /\ video'.sizes = video.sizes \o z /\ video'.chunks = video.chunks \o r /\ r \in Seq(ChunkType)
      /\ video'.keys = Append(video.keys, Len(video.sizes))
      /\ meta' = Append(meta, m) /\ m \in ChunkType
      /\ \A t \in 1 .. job.tracks : audio'[t] = Append(audio[t], AudioChunks[t]) /\ AudioChunks[t] \in ChunkType
  BY GroupFields
<1>5. z \in Seq(Nat)
  BY GroupFields
<1>6. /\ m = WrittenMeta(g)
      /\ \A t \in 1 .. job.tracks : AudioChunks[t] = WrittenAudio(g, t)
      /\ Len(Frames) = job.units
      /\ \A u \in 1 .. job.units : Chunk(Frames[u], FrameSize(u), 1) = WrittenFrame(g, u) /\ FrameSize(u) = WrittenFrame(g, u).size
  BY <1>1, <1>3, GroupWrites
<1>7. NextHead = Ending(k)
  BY <1>1, <1>3, GroupFound
<1>8. /\ Len(r) = job.units /\ Len(z) = job.units
      /\ \A u \in 1 .. job.units : r[u] = WrittenFrame(g, u) /\ z[u] = WrittenFrame(g, u).size
  BY <1>2, <1>6
<1>9. before \in Nat /\ k * job.units = before + job.units
  <2>1. k - 1 \in Nat /\ (k - 1) + 1 = k
    BY <1>2
  <2>2. QED
    BY <1>2, <2>1, ProductNat, OneMore
<1> HIDE DEF r, z, g, m, before
<1>10. Len(video'.chunks) = k * job.units /\ Len(video'.sizes) = k * job.units
  <2>1. Len(video'.chunks) = Len(video.chunks) + Len(r)
    BY <1>1, <1>4, PutBehind
  <2>2. Len(video'.sizes) = Len(video.sizes) + Len(z)
    BY <1>1, <1>4, <1>5, PutBehind
  <2>3. QED
    BY <1>3, <1>8, <1>9, <2>1, <2>2
<1>11. k <= Len(meta') /\ meta'[k] = WrittenMeta(g)
  BY <1>1, <1>2, <1>4, <1>6, AppendProperties
<1>12. ASSUME NEW t \in 1 .. job.tracks
       PROVE  k <= Len(audio'[t]) /\ audio'[t][k] = WrittenAudio(g, t)
  <2>1. audio[t] \in Seq(ChunkType) /\ Len(audio[t]) + 1 = k
    BY <1>1, <1>2, <1>3
  <2>2. audio'[t] = Append(audio[t], AudioChunks[t]) /\ AudioChunks[t] \in ChunkType /\ AudioChunks[t] = WrittenAudio(g, t)
    BY <1>4, <1>6
  <2>3. QED
    BY <1>2, <2>1, <2>2, AppendProperties
<1>13. k <= Len(video'.keys) /\ video'.keys[k] = before
  <2>1. video.keys \in Seq(Nat) /\ Len(video.keys) + 1 = k /\ before \in Nat
    BY <1>1, <1>2, <1>3, <1>9
  <2>2. video'.keys = Append(video.keys, before)
    BY <1>3, <1>4
  <2>3. QED
    BY <1>2, <2>1, <2>2, AppendProperties
<1>14. ASSUME NEW u \in 1 .. job.units
       PROVE  /\ before + u <= Len(video'.chunks) /\ video'.chunks[before + u] = WrittenFrame(g, u)
              /\ before + u <= Len(video'.sizes) /\ video'.sizes[before + u] = WrittenFrame(g, u).size
  <2>1. u \in 1 .. Len(r) /\ u \in 1 .. Len(z)
    BY <1>8
  <2>2. Len(video.chunks) + u <= Len(video.chunks \o r) /\ (video.chunks \o r)[Len(video.chunks) + u] = r[u]
    <3>1. video.chunks \in Seq(ChunkType) /\ r \in Seq(ChunkType) /\ u \in 1 .. Len(r)
      BY <1>1, <1>4, <2>1
    <3>2. QED
      BY <3>1, PutBehind
  <2>3. Len(video.sizes) + u <= Len(video.sizes \o z) /\ (video.sizes \o z)[Len(video.sizes) + u] = z[u]
    BY <1>1, <1>5, <2>1, PutBehind
  <2>4. QED
    BY <1>3, <1>4, <1>8, <2>2, <2>3
<1>15. IsRecovered(k)'
  BY <1>4, <1>11, <1>12, <1>13, <1>14 DEF IsRecovered, WrittenMeta, WrittenAudio, WrittenFrame, g, before
<1>16. QED
  BY <1>4, <1>7, <1>10, <1>15

\* A recording stays what it is.
LEMMA WholeStays ==
    ASSUME job' = job
    PROVE  /\ IsRecording(job') <=> IsRecording(job)
           /\ Whole' = Whole /\ AudioBytes' = AudioBytes /\ \A k : Ending(k)' = Ending(k)
BY DEF Whole, Size, AudioBytes, Ending

\* Where the tracks stay, what was recovered is.
LEMMA RecoveredStays ==
    ASSUME UNCHANGED <<job, pos, video, audio, meta>>
    PROVE  /\ \A k : IsRecovered(k)' <=> IsRecovered(k)
           /\ Standing' <=> Standing
BY DEF IsRecovered, WrittenMeta, WrittenAudio, WrittenFrame, Standing, Whole, Size

\* The walk begins at the first group, with nothing saved.
LEMMA RecInit ==
    ASSUME Init
    PROVE  Recovering
<1>1. /\ job \in Jobs /\ state = "detect" /\ pos = 0 /\ video = [sizes |-> <<>>, keys |-> <<>>, chunks |-> <<>>]
      /\ audio = [t \in 1 .. job.tracks |-> <<>>] /\ meta = <<>>
  BY DEF Init
<1>2. SUFFICES ASSUME IsRecording(job) PROVE Recovering
  BY DEF Recovering
<1>3. Size \in Nat /\ job.units \in Nat \ {0} /\ job.groups[1].begin = 0
  BY <1>1, <1>2, JobFacts, RecordingTypes
<1>4. /\ video.sizes \in Seq(Nat) /\ video.keys \in Seq(Nat)
      /\ Len(video.keys) = 0 /\ Len(meta) = 0 /\ Len(video.chunks) = 0 /\ Len(video.sizes) = 0
      /\ \A t \in 1 .. job.tracks : Len(audio[t]) = 0
  BY <1>1
<1>5. Standing
  <2>1. 0 + 1 = 1 /\ 0 * job.units = 0
    BY <1>3
  <2>2. QED
    BY <1>1, <1>3, <1>4, <2>1 DEF Standing
<1>6. \A k \in Whole : ~(k <= 0)
  <2> SUFFICES ASSUME NEW k \in Whole PROVE ~(k <= 0)
    OBVIOUS
  <2>1. k \in 1 .. Len(job.groups)
    BY <1>2, <1>3, WholeFacts
  <2>2. QED
    BY <2>1
<1>7. QED
  BY <1>1, <1>4, <1>5, <1>6 DEF Recovering

\* A group keeps what was said of the groups before it.
LEMMA RecGroup ==
    ASSUME IInv, Recovering, Group
    PROVE  Recovering'
<1>1. Typed /\ Measured /\ job' = job /\ state' = "groups" /\ state = "groups" /\ packet' = packet /\ total' = total
  BY GroupFields DEF IInv, Typed
<1>2. SUFFICES ASSUME IsRecording(job) PROVE Recovering'
  BY <1>1 DEF Recovering
<1>3. /\ meta \in Seq(ChunkType) /\ video.sizes \in Seq(Nat) /\ video.keys \in Seq(Nat)
      /\ \A t \in 1 .. job.tracks : audio[t] \in Seq(ChunkType)
      /\ Len(video.keys) = Len(meta) /\ \A t \in 1 .. job.tracks : Len(audio[t]) = Len(meta)
      /\ Size \in Nat
  BY <1>1, <1>2, JobFacts DEF Typed, Measured, Recovering
<1>4. Len(meta) \in Nat /\ Len(video.sizes) \in Nat
  BY <1>3, LenProperties
<1>5. Len(meta') = Len(meta) + 1
  <2>1. meta' = Append(meta, Chunk(pos, Packets * packet, Packets)) /\ Chunk(pos, Packets * packet, Packets) \in ChunkType
    BY <1>1, GroupFields
  <2>2. QED
    BY <1>3, <2>1, AppendProperties
<1>6. video'.sizes \in Seq(Nat)
  <2>1. video'.sizes = video.sizes \o [u \in 1 .. Len(Frames) |-> FrameSize(u)] /\ [u \in 1 .. Len(Frames) |-> FrameSize(u)] \in Seq(Nat)
    BY <1>1, GroupFields
  <2>2. QED
    BY <1>3, <2>1, ConcatProperties
<1>7. video'.keys \in Seq(Nat) /\ Len(video'.keys) = Len(meta')
  <2>1. video'.keys = Append(video.keys, Len(video.sizes))
    BY <1>1, GroupFields
  <2>2. QED
    BY <1>3, <1>4, <1>5, <2>1, AppendProperties
<1>8. \A t \in 1 .. job.tracks : Len(audio'[t]) = Len(meta')
  <2> SUFFICES ASSUME NEW t \in 1 .. job.tracks PROVE Len(audio'[t]) = Len(meta')
    OBVIOUS
  <2>1. audio'[t] = Append(audio[t], AudioChunks[t]) /\ AudioChunks[t] \in ChunkType /\ audio[t] \in Seq(ChunkType)
    BY <1>1, <1>3, GroupFields
  <2>2. QED
    BY <1>3, <1>5, <2>1, AppendProperties
<1>9. /\ Whole' = Whole /\ AudioBytes' = AudioBytes
      /\ \A k \in Whole : k \in Nat \ {0} /\ \A l \in 1 .. k : l \in Whole
  <2>1. ASSUME NEW k \in Whole PROVE k \in Nat \ {0} /\ \A l \in 1 .. k : l \in Whole
    <3>1. k \in 1 .. Len(job.groups) /\ \A l \in 1 .. k : l \in Whole
      BY <1>2, <1>3, WholeFacts
    <3>2. QED
      BY <1>2, <3>1, RecordingTypes
  <2>2. QED
    BY <1>1, <2>1, WholeStays
<1>10. Whole # {} => Lengths'
  BY <1>1, <1>2, <1>9 DEF Recovering, Lengths
<1>11. Standing'
  <2>1. SUFFICES ASSUME Len(meta') + 1 \in Whole
                 PROVE  /\ pos' = job.groups[Len(meta') + 1].begin
                        /\ Len(video'.chunks) = Len(meta') * job.units /\ Len(video'.sizes) = Len(meta') * job.units
    BY <1>1, <1>9 DEF Standing
  <2>2. PICK l : l = Len(meta) + 1
    OBVIOUS
  <2>3. l \in 1 .. Len(meta') + 1 /\ l \in Whole
    BY <1>4, <1>5, <1>9, <2>1, <2>2
  <2>4. /\ pos' = Ending(l) /\ Len(video'.chunks) = l * job.units /\ Len(video'.sizes) = l * job.units
    BY <1>1, <1>2, <2>2, <2>3, GroupRecovers
  <2>5. job.groups[l + 1].begin = Ending(l)
    BY <1>2, <1>3, <2>3, WholeFacts
  <2>6. QED
    BY <1>5, <2>2, <2>4, <2>5
<1>12. ASSUME NEW k \in Whole, k <= Len(meta') PROVE IsRecovered(k)'
  <2>1. k <= Len(meta) \/ k = Len(meta) + 1
    BY <1>4, <1>5, <1>9, <1>12
  <2>2. CASE k <= Len(meta)
    BY <1>1, <1>2, <2>2, GroupKeeps
  <2>3. CASE k = Len(meta) + 1
    BY <1>1, <1>2, <2>3, GroupRecovers
  <2>4. QED
    BY <2>1, <2>2, <2>3
<1>13. QED
  BY <1>1, <1>6, <1>7, <1>8, <1>9, <1>10, <1>11, <1>12 DEF Recovering

\* The detection finds the lengths.
LEMMA RecDetect ==
    ASSUME IInv, Recovering, Detect
    PROVE  Recovering'
<1>1. UNCHANGED <<job, pos, video, audio, meta>> /\ state' = "groups" /\ job \in Jobs
  BY DEF Detect, IInv, Typed, Measured
<1>2. SUFFICES ASSUME IsRecording(job) PROVE Recovering'
  BY <1>1 DEF Recovering
<1>3. Size \in Nat /\ Whole' = Whole /\ AudioBytes' = AudioBytes
  BY <1>1, JobFacts, WholeStays
<1>4. (\A k : IsRecovered(k)' <=> IsRecovered(k)) /\ (Standing' <=> Standing)
  BY <1>1, RecoveredStays
<1>5. Whole # {} => Lengths'
  <2> SUFFICES ASSUME NEW k \in Whole PROVE Lengths'
    OBVIOUS
  <2>1. k \in 1 .. Len(job.groups) /\ \A l \in 1 .. k : l \in Whole
    BY <1>2, <1>3, WholeFacts
  <2>2. 1 \in Whole
    BY <1>2, <2>1, RecordingTypes
  <2>3. packet' = job.packet /\ total' = AudioBytes
    BY <1>1, <1>2, <2>2, LengthsDetected
  <2>4. QED
    BY <1>1, <1>3, <2>3 DEF Lengths
<1>6. QED
  BY <1>1, <1>2, <1>3, <1>4, <1>5 DEF Recovering

\* The walk does not end before a whole group.
LEMMA RecSave ==
    ASSUME IInv, Recovering, IsRecording(job), Save, NEW k \in Whole
    PROVE  k <= Len(meta)
<1> SUFFICES ASSUME ~(k <= Len(meta)) PROVE FALSE
  OBVIOUS
<1>1. Measured /\ Size \in Nat /\ Len(meta) \in Nat
  BY JobFacts, LenProperties DEF IInv, Typed, Measured
<1>2. PICK l : l = Len(meta) + 1
  OBVIOUS
<1>3. k \in 1 .. Len(job.groups) /\ \A m \in 1 .. k : m \in Whole
  BY <1>1, WholeFacts
<1>4. l \in 1 .. k
  BY <1>1, <1>2, <1>3, RecordingTypes
<1>5. l \in Whole /\ l \in 1 .. Len(job.groups)
  BY <1>1, <1>3, <1>4, WholeFacts
<1>6. pos = job.groups[l].begin /\ packet = job.packet /\ total = AudioBytes
  BY <1>2, <1>5 DEF Recovering, Standing, Lengths, Save
<1>7. /\ Packets = job.groups[l].packets /\ VideoStart <= Size /\ pos < Size /\ Frames = job.groups[l].frames
  BY <1>1, <1>5, <1>6, GroupFound
<1>8. job.groups[l].packets \in 1 .. MaxPackets /\ Len(job.groups[l].frames) = job.units
  BY <1>5, GroupParts
<1>9. Packets > 0 /\ Frames # <<>>
  <2>1. MaxPackets \in Nat /\ job.units # 0 /\ Len(<<>>) = 0
    BY RecordingTypes
  <2>2. QED
    BY <1>7, <1>8, <2>1
<1>10. QED
  BY <1>7, <1>9 DEF Save

\* Each step keeps what was said.
LEMMA RecNext ==
    ASSUME IInv, Recovering, [Next]_vars
    PROVE  Recovering'
<1>1. CASE Detect
  BY <1>1, RecDetect
<1>2. CASE Group
  BY <1>2, RecGroup
<1>3. CASE UNCHANGED <<job, packet, total, pos, video, audio, meta>> /\ state' # "saved" /\ (state' = "detect" <=> state = "detect")
  <2>1. Whole' = Whole /\ AudioBytes' = AudioBytes /\ (\A k : IsRecovered(k)' <=> IsRecovered(k)) /\ (Standing' <=> Standing)
    BY <1>3, WholeStays, RecoveredStays
  <2>2. QED
    BY <1>3, <2>1 DEF Recovering, Lengths
<1>4. CASE Save
  <2>1. UNCHANGED <<job, packet, total, pos, video, audio, meta>> /\ state' = "saved" /\ state = "groups"
    BY <1>4 DEF Save
  <2>2. Whole' = Whole /\ AudioBytes' = AudioBytes /\ (\A k : IsRecovered(k)' <=> IsRecovered(k)) /\ (Standing' <=> Standing)
    BY <2>1, WholeStays, RecoveredStays
  <2>3. IsRecording(job) => \A k \in Whole : k <= Len(meta)
    BY <1>4, RecSave
  <2>4. QED
    BY <2>1, <2>2, <2>3 DEF Recovering, Lengths
<1>5. CASE UNCHANGED vars
  <2>1. UNCHANGED <<job, pos, video, audio, meta>> /\ state' = state /\ packet' = packet /\ total' = total
    BY <1>5 DEF vars
  <2>2. Whole' = Whole /\ AudioBytes' = AudioBytes /\ (\A k : IsRecovered(k)' <=> IsRecovered(k)) /\ (Standing' <=> Standing)
    BY <2>1, WholeStays, RecoveredStays
  <2>3. QED
    BY <2>1, <2>2 DEF Recovering, Lengths
<1>6. ReadFails => UNCHANGED <<job, packet, total, pos, video, audio, meta>> /\ state' # "saved" /\ (state' = "detect" <=> state = "detect")
  BY DEF ReadFails, Turn
<1>7. Stopped => UNCHANGED vars
  BY DEF Stopped
<1>8. QED
  BY <1>1, <1>2, <1>3, <1>4, <1>5, <1>6, <1>7 DEF Next

\* A recording that was cut anywhere is recovered up to the last packet header it still has: each
\* frame, each track's audio and the packets of every group, at their places and lengths, each
\* group's first frame a keyframe (rsv.cpp:42-304), for all lengths for which the camera's groups
\* are as IsRecording says.
THEOREM RsvGroupsRecovered == Spec => []RecoversWholeGroups
<1>1. Init => Recovering
  BY RecInit
<1>2. IInv /\ Recovering /\ [Next]_vars => Recovering'
  BY RecNext
<1>3. Recovering => RecoversWholeGroups
  BY DEF Recovering, RecoversWholeGroups
<1>4. QED
  BY <1>1, <1>2, <1>3, InvAlways, PTL DEF Spec

=============================================================================
