-------------------------- MODULE AtomSearchProofs --------------------------
(***************************************************************************)
(* In every file the search stays on one path of headers, and where the    *)
(* stated lengths lead from atom to atom at the root the path goes with    *)
(* them: so the mdat found is the first at the root, and what the tools    *)
(* write around it can be played.                                          *)
(***************************************************************************)
EXTENDS AtomSearch, TLAPS, SequenceTheorems, WellFoundedInduction

-----------------------------------------------------------------------------
(* Least elements                                                          *)

\* The naturals are well ordered: an induction is a least counterexample.
LEMMA LeastNat ==
    ASSUME NEW S, S \subseteq Nat, S # {}
    PROVE  \E x \in S : \A y \in S : x <= y
<1>1. PICK x \in S : \A y \in S : ~(<<y, x>> \in OpToRel(<, Nat))
  BY NatLessThanWellFounded, WFMin
<1>2. ASSUME NEW y \in S PROVE x <= y
  <2>1. ~(y < x) /\ x \in Nat /\ y \in Nat
    BY <1>1 DEF OpToRel
  <2>2. QED
    BY <2>1
<1>3. QED
  BY <1>2

LEMMA MinOfPlaces ==
    ASSUME NEW S, S \subseteq Nat, S # {}
    PROVE  Min(S) \in S /\ \A y \in S : Min(S) <= y
<1>1. \E x \in S : \A y \in S : x <= y
  BY LeastNat
<1>2. QED
  BY <1>1 DEF Min

LEMMA MinOfTwo ==
    ASSUME NEW a \in Int, NEW b \in Int
    PROVE  Min({a, b}) = IF a <= b THEN a ELSE b
<1>1. \E x \in {a, b} : \A y \in {a, b} : x <= y
  OBVIOUS
<1>2. Min({a, b}) \in {a, b} /\ \A y \in {a, b} : Min({a, b}) <= y
  BY <1>1 DEF Min
<1>3. QED
  BY <1>2

-----------------------------------------------------------------------------
(* Places that one leads to from another                                   *)

LEMMA ReachedIsClosed ==
    ASSUME NEW D, NEW first, NEW next
    PROVE  /\ Reached(D, first, next) \subseteq D
           /\ first \in D => first \in Reached(D, first, next)
           /\ \A q \in Reached(D, first, next) : next[q] \in D => next[q] \in Reached(D, first, next)
BY DEF Reached

LEMMA ReachedIsLeast ==
    ASSUME NEW D, NEW first, NEW next, NEW S, S \subseteq D,
           first \in D => first \in S,
           \A q \in S : next[q] \in D => next[q] \in S
    PROVE  Reached(D, first, next) \subseteq S
BY DEF Reached

\* Places that lead forward are reached one after the other: from one of them, none is skipped
\* on the way to a later one.
LEMMA ReachedInOrder ==
    ASSUME NEW D, D \subseteq Nat, NEW first, NEW next,
           \A q \in D : next[q] \in Int /\ next[q] >= q,
           NEW p \in Reached(D, first, next), NEW a \in Reached(D, first, next), p < a
    PROVE  next[p] \in Reached(D, first, next) /\ p < next[p] /\ next[p] <= a
<1> DEFINE R == Reached(D, first, next)
           InOrder(q) == \A b \in R : q < b => next[q] \in D /\ q < next[q] /\ next[q] <= b
           Bad == {q \in R : ~ InOrder(q)}
<1>1. R \subseteq D /\ (first \in D => first \in R) /\ \A q \in R : next[q] \in D => next[q] \in R
  BY ReachedIsClosed DEF R
<1>2. Bad = {}
  <2>1. SUFFICES ASSUME Bad # {} PROVE FALSE
    OBVIOUS
  <2> HIDE DEF R
  <2>2. Bad \subseteq Nat
    BY <1>1
  <2>3. PICK l \in Bad : \A q \in Bad : l <= q
    <3> HIDE DEF Bad
    <3>1. QED
      BY <2>1, <2>2, LeastNat
  <2>4. l \in R /\ l \in Nat /\ ~ InOrder(l)
    BY <2>2
  <2>5. ASSUME NEW q \in R, q < l PROVE InOrder(q)
    <3>1. q \in Nat
      BY <1>1
    <3>2. q \notin Bad
      BY <2>3, <2>4, <2>5, <3>1
    <3>3. QED
      BY <3>2
  <2> DEFINE S == {b \in R : b <= l \/ (next[l] \in D /\ l < next[l] /\ next[l] <= b)}
  <2>6. first \in D => first \in S
    <3>1. SUFFICES ASSUME first \in D, ~(first <= l) PROVE FALSE
      BY <1>1
    <3> DEFINE F == {b \in R : first <= b}
    <3>2. F \subseteq D /\ first \in F
      <4>1. first \in R /\ first \in Nat
        BY <1>1, <3>1
      <4>2. first <= first
        BY <4>1
      <4>3. QED
        BY <1>1, <4>1, <4>2
    <3>3. \A q \in F : next[q] \in D => next[q] \in F
      BY <1>1, <3>1
    <3>4. R \subseteq F
      <4> HIDE DEF F
      <4>1. QED
        BY <3>2, <3>3, ReachedIsLeast DEF R
    <3>5. QED
      BY <2>4, <3>1, <3>4
  <2>7. ASSUME NEW q \in S, next[q] \in D PROVE next[q] \in S
    <3>1. q \in R /\ q \in Nat /\ next[q] \in R /\ next[q] \in Nat /\ next[q] >= q
      BY <1>1, <2>7
    <3>2. CASE q < l
      <4>1. next[q] <= l
        BY <2>4, <2>5, <3>1, <3>2
      <4>2. QED
        BY <3>1, <4>1
    <3>3. CASE q = l
      BY <2>4, <2>7, <3>1, <3>3
    <3>4. CASE q > l
      <4>1. next[l] \in D /\ l < next[l] /\ next[l] <= q
        BY <2>4, <3>1, <3>4
      <4>2. next[l] <= next[q]
        BY <1>1, <3>1, <4>1
      <4>3. QED
        BY <3>1, <4>1, <4>2
    <3>5. QED
      BY <2>4, <3>1, <3>2, <3>3, <3>4
  <2>8. S \subseteq D
    BY <1>1
  <2>9. R \subseteq S
    <3> HIDE DEF S
    <3>1. QED
      BY <2>6, <2>7, <2>8, ReachedIsLeast DEF R
  <2>10. InOrder(l)
    <3>1. SUFFICES ASSUME NEW b \in R, l < b PROVE next[l] \in D /\ l < next[l] /\ next[l] <= b
      OBVIOUS
    <3>2. b \in Nat
      BY <1>1
    <3>3. b \in S
      BY <2>9
    <3>4. QED
      BY <2>4, <3>1, <3>2, <3>3
  <2>11. QED
    BY <2>4, <2>10
<1>3. InOrder(p)
  BY <1>2
<1>4. QED
  BY <1>1, <1>3
-----------------------------------------------------------------------------
(* One step of the search                                                  *)

LEMMA HeaderTypes ==
    ASSUME NEW f, IsFile(f), NEW p \in DOMAIN f.heads
    PROVE  /\ p \in Nat /\ f.size \in Nat /\ p < f.size
           /\ HeaderAt(f, p).start = p
           /\ HeaderAt(f, p).header \in {8, 16}
           /\ HeaderAt(f, p).length \in Nat
           /\ HeaderAt(f, p).name = f.heads[p].name
           /\ p + HeaderAt(f, p).header <= f.size
BY DEF IsFile, HeaderAt, HeadSize

LEMMA NextTypes ==
    ASSUME NEW f, IsFile(f), NEW a,
           a.start \in Int, a.start >= -8, a.length \in Int, a.header \in {8, 16}
    PROVE  /\ NextAtomOff(f, a) \in 0 .. f.size
           /\ NextAtomOff(f, a) < f.size => NextAtomOff(f, a) \in DOMAIN f.heads
<1>1. f.size \in Nat /\ DOMAIN f.heads \subseteq 0 .. f.size - 1
  BY DEF IsFile
<1> DEFINE next == a.start + a.length
           seen == {p \in DOMAIN f.heads : IsSeen(f, ContentStart(a), p)}
<1>2. CASE SkipsNested(f, a) /\ PointsAtAtom(f, next)
  <2>1. NextAtomOff(f, a) = Min({next, f.size})
    BY <1>2 DEF NextAtomOff
  <2>2. next \in Int /\ (next >= f.size \/ next \in DOMAIN f.heads)
    BY <1>2 DEF PointsAtAtom
  <2>3. Min({next, f.size}) = IF next <= f.size THEN next ELSE f.size
    BY <1>1, <2>2, MinOfTwo
  <2>4. QED
    BY <1>1, <2>1, <2>2, <2>3
<1>3. CASE ~(SkipsNested(f, a) /\ PointsAtAtom(f, next))
  <2>1. NextAtomOff(f, a) = IF seen = {} THEN f.size ELSE Min(seen)
    BY <1>3 DEF NextAtomOff, NextInContent
  <2>2. seen # {} => Min(seen) \in seen
    <3>1. seen \subseteq Nat
      BY <1>1
    <3> HIDE DEF seen
    <3>2. QED
      BY <3>1, MinOfPlaces
  <2>3. QED
    BY <1>1, <2>1, <2>2
<1>4. QED
  BY <1>2, <1>3

LEMMA NextIsForward ==
    ASSUME NEW f, IsFile(f), NEW p \in DOMAIN f.heads
    PROVE  NextAtomOff(f, HeaderAt(f, p)) > p
<1> DEFINE a == HeaderAt(f, p)
           next == a.start + a.length
           seen == {q \in DOMAIN f.heads : IsSeen(f, ContentStart(a), q)}
<1>1. /\ p \in Nat /\ f.size \in Nat /\ p < f.size
      /\ a.start = p /\ a.header \in {8, 16} /\ a.length \in Nat
  BY HeaderTypes DEF a
<1>2. DOMAIN f.heads \subseteq Nat
  BY DEF IsFile
<1> HIDE DEF a
<1>3. CASE SkipsNested(f, a) /\ PointsAtAtom(f, next)
  <2>1. NextAtomOff(f, a) = Min({next, f.size})
    BY <1>3 DEF NextAtomOff
  <2>2. next \in Nat /\ next > p
    BY <1>1, <1>3 DEF SkipsNested
  <2>3. Min({next, f.size}) = IF next <= f.size THEN next ELSE f.size
    BY <1>1, <2>2, MinOfTwo
  <2>4. QED
    BY <1>1, <2>1, <2>2, <2>3 DEF a
<1>4. CASE ~(SkipsNested(f, a) /\ PointsAtAtom(f, next))
  <2>1. NextAtomOff(f, a) = IF seen = {} THEN f.size ELSE Min(seen)
    BY <1>4 DEF NextAtomOff, NextInContent
  <2>2. seen # {} => Min(seen) \in seen
    <3>1. seen \subseteq Nat
      BY <1>2
    <3> HIDE DEF seen
    <3>2. QED
      BY <3>1, MinOfPlaces
  <2>3. \A q \in seen : q \in Nat /\ q >= p + a.header
    BY <1>1, <1>2 DEF IsSeen, ContentStart
  <2>4. QED
    BY <1>1, <2>1, <2>2, <2>3 DEF a
<1>5. QED
  BY <1>3, <1>4

-----------------------------------------------------------------------------
(* The path of a search, and the atoms at the root                         *)

\* The headers that a search from the begin of a file stands at, one after the other.
NextOnPath(f) == [p \in DOMAIN f.heads |-> NextAtomOff(f, HeaderAt(f, p))]
Path(f) == Reached(DOMAIN f.heads, NextInContent(f, NewAtom), NextOnPath(f))

IsFirst(f, name, p) ==
    /\ p \in Path(f)
    /\ \A q \in Path(f) : f.heads[q].name = name => p <= q
IsHeader(f, a) == a.start \in DOMAIN f.heads /\ a = HeaderAt(f, a.start)

NextAtRoot(f) == [p \in DOMAIN f.heads |-> IF f.heads[p].name = "avcC" THEN p ELSE p + HeaderAt(f, p).length]

LEMMA PathInOrder ==
    ASSUME NEW f, IsFile(f), NEW p \in Path(f)
    PROVE  /\ p \in DOMAIN f.heads
           /\ \A a \in Path(f) :
                 p < a => /\ NextAtomOff(f, HeaderAt(f, p)) \in Path(f)
                          /\ NextAtomOff(f, HeaderAt(f, p)) <= a
<1> DEFINE D == DOMAIN f.heads
           first == NextInContent(f, NewAtom)
           next == NextOnPath(f)
<1>1. D \subseteq Nat
  BY DEF IsFile
<1>2. \A q \in D : next[q] \in Int /\ next[q] >= q
  <2>1. TAKE q \in D
  <2>2. NextAtomOff(f, HeaderAt(f, q)) > q /\ q \in Nat
    BY NextIsForward, <1>1
  <2>3. NextAtomOff(f, HeaderAt(f, q)) \in 0 .. f.size
    BY NextTypes, HeaderTypes
  <2>4. QED
    BY <2>2, <2>3, HeaderTypes DEF NextOnPath
<1>3. Path(f) = Reached(D, first, next)
  BY DEF Path
<1>4. p \in D
  BY <1>3, ReachedIsClosed
<1>5. ASSUME NEW a \in Path(f), p < a
      PROVE  next[p] \in Path(f) /\ next[p] <= a
  <2> HIDE DEF D, first, next
  <2>1. QED
    BY <1>1, <1>2, <1>3, <1>5, ReachedInOrder
<1>6. next[p] = NextAtomOff(f, HeaderAt(f, p))
  BY <1>4 DEF NextOnPath
<1>7. QED
  BY <1>4, <1>5, <1>6

LEMMA RootInOrder ==
    ASSUME NEW f, IsFile(f), NEW p \in RootAtoms(f)
    PROVE  /\ p \in DOMAIN f.heads
           /\ \A a \in RootAtoms(f) :
                 p < a => /\ f.heads[p].name # "avcC"
                          /\ p + HeaderAt(f, p).length \in RootAtoms(f)
                          /\ HeaderAt(f, p).length > 0
                          /\ p + HeaderAt(f, p).length <= a
<1> DEFINE D == DOMAIN f.heads
           next == NextAtRoot(f)
<1>1. D \subseteq Nat
  BY DEF IsFile
<1>2. \A q \in D : next[q] \in Int /\ next[q] >= q
  <2>1. TAKE q \in D
  <2>2. q \in Nat /\ HeaderAt(f, q).length \in Nat
    BY HeaderTypes
  <2>3. QED
    BY <2>2 DEF NextAtRoot
<1>3. RootAtoms(f) = Reached(D, 0, next)
  BY DEF RootAtoms, NextAtRoot
<1>4. p \in D
  BY <1>3, ReachedIsClosed
<1>5. ASSUME NEW a \in RootAtoms(f), p < a
      PROVE  next[p] \in RootAtoms(f) /\ p < next[p] /\ next[p] <= a
  <2> HIDE DEF D, next
  <2>1. QED
    BY <1>1, <1>2, <1>3, <1>5, ReachedInOrder
<1>6. next[p] = IF f.heads[p].name = "avcC" THEN p ELSE p + HeaderAt(f, p).length
  BY <1>4 DEF NextAtRoot
<1>7. p \in Nat /\ HeaderAt(f, p).length \in Nat
  BY <1>4, HeaderTypes
<1>8. ASSUME NEW a \in RootAtoms(f), p < a
      PROVE  /\ f.heads[p].name # "avcC"
             /\ p + HeaderAt(f, p).length \in RootAtoms(f)
             /\ HeaderAt(f, p).length > 0
             /\ p + HeaderAt(f, p).length <= a
  <2>1. next[p] \in RootAtoms(f) /\ p < next[p] /\ next[p] <= a
    BY <1>5, <1>8
  <2>2. f.heads[p].name # "avcC"
    BY <1>6, <1>7, <2>1
  <2>3. next[p] = p + HeaderAt(f, p).length
    BY <1>6, <2>2
  <2> HIDE DEF next
  <2>4. HeaderAt(f, p).length > 0
    BY <1>7, <2>1, <2>3
  <2>5. QED
    BY <2>1, <2>2, <2>3, <2>4
<1>9. QED
  BY <1>4, <1>8
LEMMA BeginOfPath ==
    ASSUME NEW f, IsFile(f), 0 \in DOMAIN f.heads, f.heads[0].name # "avcC"
    PROVE  NextInContent(f, NewAtom) = 0
<1> DEFINE seen == {p \in DOMAIN f.heads : IsSeen(f, ContentStart(NewAtom), p)}
<1>1. ContentStart(NewAtom) = 0
  BY DEF ContentStart, NewAtom
<1>2. 0 \in seen /\ seen \subseteq Nat
  BY <1>1 DEF IsSeen, IsFile
<1>3. NextInContent(f, NewAtom) = Min(seen)
  BY <1>2 DEF NextInContent
<1>4. Min(seen) \in seen /\ Min(seen) <= 0
  <2> HIDE DEF seen
  <2>1. QED
    BY <1>2, MinOfPlaces
<1>5. QED
  BY <1>2, <1>3, <1>4

\* Where a stated length leads to a header, the search goes there.
LEMMA LengthIsFollowed ==
    ASSUME NEW f, IsFile(f), NEW p \in DOMAIN f.heads, f.heads[p].name # "avcC",
           HeaderAt(f, p).length > 0, p + HeaderAt(f, p).length \in DOMAIN f.heads
    PROVE  NextAtomOff(f, HeaderAt(f, p)) = p + HeaderAt(f, p).length
<1> DEFINE a == HeaderAt(f, p)
           next == a.start + a.length
<1>1. a.start = p /\ a.name # "avcC" /\ a.length > 0
  BY HeaderTypes DEF a
<1>2. next \in DOMAIN f.heads /\ next \in Nat /\ f.size \in Nat /\ next < f.size
  BY <1>1, HeaderTypes DEF a
<1>3. SkipsNested(f, a) /\ PointsAtAtom(f, next)
  BY <1>1, <1>2 DEF SkipsNested, PointsAtAtom
<1>4. NextAtomOff(f, a) = Min({next, f.size})
  BY <1>3 DEF NextAtomOff
<1>5. Min({next, f.size}) = next
  BY <1>2, MinOfTwo
<1>6. QED
  BY <1>1, <1>4, <1>5

\* Up to an atom at the root, the path of the search is that of the root atoms.
LEMMA PathIsAtRoot ==
    ASSUME NEW f, IsFile(f), NEW t \in RootAtoms(f), f.heads[t].name # "avcC"
    PROVE  t \in Path(f) /\ \A q \in Path(f) : q <= t => q \in RootAtoms(f)
<1> DEFINE D == DOMAIN f.heads
           R == RootAtoms(f)
           atRoot == NextAtRoot(f)
<1>1. R = Reached(D, 0, atRoot) /\ D \subseteq Nat
  BY DEF RootAtoms, NextAtRoot, IsFile
<1>2. R \subseteq D /\ (0 \in D => 0 \in R) /\ \A q \in R : atRoot[q] \in D => atRoot[q] \in R
  BY <1>1, ReachedIsClosed
<1>3. \A q \in D : /\ atRoot[q] = IF f.heads[q].name = "avcC" THEN q ELSE q + HeaderAt(f, q).length
                   /\ q \in Nat /\ HeaderAt(f, q).length \in Nat
  BY HeaderTypes DEF NextAtRoot
<1>4. 0 \in D
  <2>1. SUFFICES ASSUME 0 \notin D PROVE FALSE
    OBVIOUS
  <2>2. R \subseteq {}
    <3> DEFINE S == {}
    <3>1. S \subseteq D /\ (0 \in D => 0 \in S) /\ (\A q \in S : atRoot[q] \in D => atRoot[q] \in S)
      BY <2>1
    <3> HIDE DEF D, R, S, atRoot
    <3>2. R \subseteq S
      BY <1>1, <3>1, ReachedIsLeast
    <3>3. QED
      BY <3>2 DEF S
  <2>3. QED
    BY <2>2
<1>5. f.heads[0].name # "avcC"
  <2>1. SUFFICES ASSUME f.heads[0].name = "avcC" PROVE FALSE
    OBVIOUS
  <2>2. atRoot[0] = 0
    BY <1>3, <1>4, <2>1
  <2>3. R \subseteq {0}
    <3> HIDE DEF D, R, atRoot
    <3>1. {0} \subseteq D /\ (\A q \in {0} : atRoot[q] \in D => atRoot[q] \in {0})
      BY <1>4, <2>2
    <3>2. QED
      BY <1>1, <3>1, ReachedIsLeast
  <2>4. QED
    BY <2>1, <2>3
<1>6. Path(f) = Reached(D, 0, NextOnPath(f))
  BY <1>4, <1>5, BeginOfPath DEF Path
<1>7. Path(f) \subseteq D /\ 0 \in Path(f) /\ \A q \in Path(f) : NextOnPath(f)[q] \in D => NextOnPath(f)[q] \in Path(f)
  BY <1>4, <1>6, ReachedIsClosed
<1>8. \A q \in D : NextOnPath(f)[q] = NextAtomOff(f, HeaderAt(f, q))
  BY DEF NextOnPath
<1>9. t \in Path(f)
  <2> DEFINE S == {q \in R : q \in Path(f)}
  <2>1. ASSUME NEW q \in S, atRoot[q] \in D PROVE atRoot[q] \in S
    <3>1. q \in D /\ q \in Path(f) /\ atRoot[q] \in R
      BY <1>2, <2>1
    <3>2. CASE atRoot[q] = q
      BY <2>1, <3>2
    <3>3. CASE atRoot[q] # q
      <4>1. f.heads[q].name # "avcC" /\ atRoot[q] = q + HeaderAt(f, q).length
        BY <1>3, <3>1, <3>3
      <4>2. HeaderAt(f, q).length > 0
        <5>1. HeaderAt(f, q).length \in Nat /\ q \in Nat
          BY <1>3, <3>1
        <5>2. QED
          BY <3>3, <4>1, <5>1
      <4>3. NextAtomOff(f, HeaderAt(f, q)) = atRoot[q]
        BY <2>1, <3>1, <4>1, <4>2, LengthIsFollowed
      <4>4. QED
        BY <1>7, <1>8, <2>1, <3>1, <4>3
    <3>4. QED
      BY <3>2, <3>3
  <2>2. 0 \in S /\ S \subseteq D
    BY <1>2, <1>4, <1>7
  <2>3. R \subseteq S
    <3> HIDE DEF D, R, S, atRoot
    <3>1. QED
      BY <1>1, <2>1, <2>2, ReachedIsLeast
  <2>4. QED
    BY <2>3
<1>10. ASSUME NEW p \in Path(f), p <= t PROVE p \in R
  <2> DEFINE S == {q \in Path(f) : q \in R \/ t < q}
  <2>1. t \in Nat /\ \A q \in Path(f) : q \in Nat
    BY <1>1, <1>2, <1>7
  <2>2. ASSUME NEW q \in S, NextOnPath(f)[q] \in D PROVE NextOnPath(f)[q] \in S
    <3>1. q \in D /\ q \in Nat /\ NextOnPath(f)[q] \in Path(f) /\ NextOnPath(f)[q] \in Nat /\ NextOnPath(f)[q] > q
      BY <1>1, <1>7, <1>8, <2>2, NextIsForward
    <3>2. CASE q >= t
      BY <2>1, <3>1, <3>2
    <3>3. CASE q < t
      <4>1. q \in R
        BY <2>1, <3>1, <3>3
      <4>2. /\ f.heads[q].name # "avcC" /\ HeaderAt(f, q).length > 0
            /\ q + HeaderAt(f, q).length \in R
        BY <3>3, <4>1, RootInOrder
      <4>3. NextAtomOff(f, HeaderAt(f, q)) = q + HeaderAt(f, q).length
        BY <1>2, <3>1, <4>2, LengthIsFollowed
      <4>4. NextOnPath(f)[q] = q + HeaderAt(f, q).length
        BY <1>8, <3>1, <4>3
      <4>5. QED
        BY <3>1, <4>2, <4>4
    <3>4. QED
      BY <2>1, <3>1, <3>2, <3>3
  <2>3. 0 \in S /\ S \subseteq D
    BY <1>2, <1>4, <1>7
  <2>4. Path(f) \subseteq S
    <3> DEFINE onPath == NextOnPath(f)
    <3>1. Path(f) = Reached(D, 0, onPath) /\ (\A q \in S : onPath[q] \in D => onPath[q] \in S)
      BY <1>6, <2>2
    <3> HIDE DEF D, S, onPath
    <3>2. QED
      BY <2>3, <3>1, ReachedIsLeast
  <2>5. QED
    BY <1>10, <2>1, <2>4
<1>11. QED
  BY <1>9, <1>10
LEMMA PathIsClosed ==
    ASSUME NEW f, IsFile(f)
    PROVE  /\ Path(f) \subseteq DOMAIN f.heads
           /\ \A q \in Path(f) : NextAtomOff(f, HeaderAt(f, q)) \in DOMAIN f.heads => NextAtomOff(f, HeaderAt(f, q)) \in Path(f)
           /\ NextInContent(f, NewAtom) \in DOMAIN f.heads => NextInContent(f, NewAtom) \in Path(f)
           /\ \A q \in Path(f) : NextInContent(f, NewAtom) \in DOMAIN f.heads /\ NextInContent(f, NewAtom) <= q
<1> DEFINE D == DOMAIN f.heads
           first == NextInContent(f, NewAtom)
           onPath == NextOnPath(f)
<1>1. Path(f) = Reached(D, first, onPath) /\ D \subseteq Nat
  BY DEF Path, IsFile
<1>2. \A q \in D : onPath[q] = NextAtomOff(f, HeaderAt(f, q))
  BY DEF NextOnPath
<1>3. Path(f) \subseteq D /\ (first \in D => first \in Path(f)) /\ \A q \in Path(f) : onPath[q] \in D => onPath[q] \in Path(f)
  BY <1>1, ReachedIsClosed
<1> DEFINE S == {q \in Path(f) : first \in D /\ first <= q}
<1>4. first \in D => first \in S
  BY <1>1, <1>3
<1>5. ASSUME NEW q \in S, onPath[q] \in D PROVE onPath[q] \in S
  <2>1. onPath[q] > q /\ q \in Nat /\ onPath[q] \in Nat /\ first \in Nat
    BY <1>1, <1>2, <1>3, <1>5, NextIsForward
  <2>2. QED
    BY <1>3, <1>5, <2>1
<1>6. S \subseteq D
  BY <1>3
<1>7. Path(f) \subseteq S
  <2>1. \A q \in S : onPath[q] \in D => onPath[q] \in S
    BY <1>5
  <2> HIDE DEF D, S, first, onPath
  <2>2. Reached(D, first, onPath) \subseteq S
    BY <1>4, <1>6, <2>1, ReachedIsLeast
  <2>3. QED
    BY <1>1, <2>2
<1>8. QED
  BY <1>2, <1>3, <1>7

\* The search for a name stands before the file, or at a header of the path before which none
\* has that name.
OnPath(f, name, a) == a = NewAtom \/ (IsHeader(f, a) /\ IsFirst(f, name, a.start))

LEMMA FirstStep ==
    ASSUME NEW f, IsFile(f)
    PROVE  NextAtomOff(f, NewAtom) = NextInContent(f, NewAtom)
BY DEF NextAtomOff, SkipsNested, NewAtom

LEMMA OnPathTypes ==
    ASSUME NEW f, IsFile(f), NEW name, NEW a, OnPath(f, name, a)
    PROVE  a.start \in Int /\ a.start >= -8 /\ a.length \in Int /\ a.header \in {8, 16}
<1>1. CASE a = NewAtom
  <2>1. a.start = -8 /\ a.length = -1 /\ a.header = 8
    BY <1>1 DEF NewAtom
  <2>2. QED
    BY <2>1
<1>2. CASE IsHeader(f, a)
  BY <1>2, HeaderTypes DEF IsHeader
<1>3. QED
  BY <1>1, <1>2 DEF OnPath

LEMMA TurnStaysOnPath ==
    ASSUME NEW f, IsFile(f), NEW name, NEW a, OnPath(f, name, a), a.name # name, NextAtomOff(f, a) < f.size
    PROVE  OnPath(f, name, HeaderAt(f, NextAtomOff(f, a)))
<1> DEFINE next == NextAtomOff(f, a)
<1>1. next \in DOMAIN f.heads
  BY OnPathTypes, NextTypes
<1>2. IsHeader(f, HeaderAt(f, next)) /\ HeaderAt(f, next).start = next
  BY <1>1, HeaderTypes DEF IsHeader
<1>3. CASE a = NewAtom
  <2>1. next = NextInContent(f, NewAtom)
    BY <1>3, FirstStep
  <2>2. IsFirst(f, name, next)
    BY <1>1, <2>1, PathIsClosed DEF IsFirst
  <2>3. QED
    BY <1>2, <2>2 DEF OnPath
<1>4. CASE IsHeader(f, a) /\ IsFirst(f, name, a.start)
  <2>1. a.start \in Path(f) /\ a = HeaderAt(f, a.start) /\ a.start \in DOMAIN f.heads
    BY <1>4 DEF IsHeader, IsFirst
  <2>2. next \in Path(f)
    BY <1>1, <2>1, PathIsClosed
  <2>3. ASSUME NEW q \in Path(f), f.heads[q].name = name PROVE next <= q
    <3>1. a.start <= q /\ a.start # q
      <4>1. a.name = f.heads[a.start].name
        BY <2>1, HeaderTypes
      <4>2. QED
        BY <1>4, <2>3, <4>1 DEF IsFirst
    <3>2. a.start \in Nat /\ q \in Nat
      BY <2>1, PathIsClosed, HeaderTypes
    <3>3. a.start < q
      BY <3>1, <3>2
    <3>4. QED
      BY <2>1, <3>3, PathInOrder
  <2>4. QED
    BY <1>2, <2>2, <2>3 DEF OnPath, IsFirst
<1>5. QED
  BY <1>3, <1>4 DEF OnPath

LEMMA RootMdatIsOnPath ==
    ASSUME NEW f, IsFile(f), RootMdats(f) # {}
    PROVE  /\ Min(RootMdats(f)) \in RootMdats(f)
           /\ \A t \in RootMdats(f) : Min(RootMdats(f)) <= t
           /\ Min(RootMdats(f)) \in Path(f) /\ f.heads[Min(RootMdats(f))].name = "mdat"
           /\ \A q \in Path(f) : q <= Min(RootMdats(f)) => q \in RootAtoms(f)
<1>1. RootMdats(f) \subseteq Nat
  BY RootInOrder, HeaderTypes DEF RootMdats
<1>2. Min(RootMdats(f)) \in RootMdats(f) /\ \A t \in RootMdats(f) : Min(RootMdats(f)) <= t
  BY <1>1, MinOfPlaces
<1>3. Min(RootMdats(f)) \in RootAtoms(f) /\ f.heads[Min(RootMdats(f))].name = "mdat"
  BY <1>2 DEF RootMdats
<1>4. QED
  BY <1>2, <1>3, PathIsAtRoot

\* The first mdat on the path is the first at the root, if there is one.
LEMMA FirstIsRootMdat ==
    ASSUME NEW f, IsFile(f), RootMdats(f) # {}, NEW p, IsFirst(f, "mdat", p), f.heads[p].name = "mdat"
    PROVE  p = Min(RootMdats(f))
<1> DEFINE m == Min(RootMdats(f))
<1>1. p \in Path(f) /\ p <= m
  BY RootMdatIsOnPath DEF IsFirst
<1>2. p \in RootMdats(f)
  BY <1>1, RootMdatIsOnPath DEF RootMdats
<1>3. m <= p /\ m \in Path(f)
  BY <1>2, RootMdatIsOnPath
<1>4. p \in Nat /\ m \in Nat
  BY <1>1, <1>3, PathIsClosed, HeaderTypes
<1>5. QED
  BY <1>1, <1>3, <1>4

LEMMA RootMdatIsReached ==
    ASSUME NEW f, IsFile(f), RootMdats(f) # {}, NEW a, OnPath(f, "mdat", a), a.name # "mdat"
    PROVE  NextAtomOff(f, a) < f.size
<1> DEFINE m == Min(RootMdats(f))
<1>1. m \in Path(f) /\ f.heads[m].name = "mdat" /\ m \in DOMAIN f.heads
  BY RootMdatIsOnPath, PathIsClosed
<1>2. m \in Nat /\ f.size \in Nat /\ m < f.size
  BY <1>1, HeaderTypes
<1>3. CASE a = NewAtom
  <2>1. NextAtomOff(f, a) \in DOMAIN f.heads
    BY <1>1, <1>3, FirstStep, PathIsClosed
  <2>2. QED
    BY <2>1, HeaderTypes
<1>4. CASE IsHeader(f, a) /\ IsFirst(f, "mdat", a.start)
  <2>1. a.start \in Path(f) /\ a.start <= m /\ a = HeaderAt(f, a.start) /\ a.start \in DOMAIN f.heads
    BY <1>1, <1>4 DEF IsFirst, IsHeader
  <2>2. a.start # m
    <3>1. a.name = f.heads[a.start].name
      BY <2>1, HeaderTypes
    <3>2. QED
      BY <1>1, <3>1
  <2>3. a.start \in Nat
    BY <2>1, HeaderTypes
  <2>4. NextAtomOff(f, a) \in Path(f)
    BY <1>1, <1>2, <2>1, <2>2, <2>3, PathInOrder
  <2>5. QED
    BY <2>4, PathIsClosed, HeaderTypes
<1>5. QED
  BY <1>3, <1>4 DEF OnPath
-----------------------------------------------------------------------------
(* The places of the pieces written                                        *)

\* The function that Places defines exists.
LEMMA PlacesExist ==
    ASSUME NEW s, NEW n \in Nat
    PROVE  \E g : g = [k \in 1 .. n |-> IF k = 1 THEN 0 ELSE g[k - 1] + Size(s[k - 1])]
<1> DEFINE IsPlaces(m, g) == g = [k \in 1 .. m |-> IF k = 1 THEN 0 ELSE g[k - 1] + Size(s[k - 1])]
           Without == {m \in Nat : ~ \E g : IsPlaces(m, g)}
<1>1. SUFFICES ASSUME Without # {} PROVE FALSE
  OBVIOUS
<1>2. PICK m \in Without : \A y \in Without : m <= y
  <2>1. Without \subseteq Nat
    OBVIOUS
  <2> HIDE DEF Without
  <2>2. QED
    BY <1>1, <2>1, LeastNat
<1>3. m \in Nat
  OBVIOUS
<1>4. CASE m = 0
  <2> DEFINE h == [k \in 1 .. 0 |-> 0]
  <2>1. h = [k \in 1 .. 0 |-> IF k = 1 THEN 0 ELSE h[k - 1] + Size(s[k - 1])]
    OBVIOUS
  <2>2. QED
    BY <1>2, <1>4, <2>1
<1>5. CASE m # 0
  <2>1. m - 1 \in Nat /\ m - 1 \notin Without
    <3> HIDE DEF Without
    <3>1. m - 1 \in Nat /\ ~(m <= m - 1)
      BY <1>3, <1>5
    <3>2. QED
      BY <1>2, <3>1
  <2>2. PICK g : IsPlaces(m - 1, g)
    BY <2>1
  <2>3. \A k \in 1 .. m - 1 : g[k] = IF k = 1 THEN 0 ELSE g[k - 1] + Size(s[k - 1])
    BY <2>2
  <2> DEFINE h == [k \in 1 .. m |-> IF k < m THEN g[k] ELSE IF m = 1 THEN 0 ELSE g[m - 1] + Size(s[m - 1])]
  <2>4. ASSUME NEW k \in 1 .. m
        PROVE  h[k] = IF k = 1 THEN 0 ELSE h[k - 1] + Size(s[k - 1])
    <3>1. CASE k = 1
      <4>1. CASE m = 1
        BY <3>1, <4>1
      <4>2. CASE m # 1
        <5>1. 1 \in 1 .. m - 1 /\ h[1] = g[1]
          BY <1>3, <1>5, <4>2
        <5>2. QED
          BY <2>3, <3>1, <5>1
      <4>3. QED
        BY <4>1, <4>2
    <3>2. CASE k # 1
      <4>1. k - 1 \in 1 .. m /\ k - 1 < m /\ h[k - 1] = g[k - 1]
        BY <1>3, <3>2
      <4>2. CASE k < m
        <5>1. k \in 1 .. m - 1 /\ h[k] = g[k]
          BY <1>3, <4>2
        <5>2. g[k] = g[k - 1] + Size(s[k - 1])
          BY <2>3, <3>2, <5>1
        <5>3. QED
          BY <3>2, <4>1, <5>1, <5>2
      <4>3. CASE ~(k < m)
        <5>1. k = m /\ h[k] = g[m - 1] + Size(s[m - 1])
          BY <1>3, <3>2, <4>3
        <5>2. QED
          BY <3>2, <4>1, <5>1
      <4>4. QED
        BY <4>2, <4>3
    <3>3. QED
      BY <3>1, <3>2
  <2>5. h = [k \in 1 .. m |-> h[k]]
    OBVIOUS
  <2> HIDE DEF h
  <2>6. IsPlaces(m, h)
    BY <2>4, <2>5
  <2>7. QED
    BY <1>2, <2>6
<1>6. QED
  BY <1>4, <1>5

LEMMA PlacesStep ==
    ASSUME NEW s, Len(s) \in Nat
    PROVE  /\ Places(s)[1] = 0
           /\ \A k \in 1 .. Len(s) : Places(s)[k + 1] = Places(s)[k] + Size(s[k])
<1> DEFINE n == Len(s) + 1
           IsPlaces(g) == g = [k \in 1 .. n |-> IF k = 1 THEN 0 ELSE g[k - 1] + Size(s[k - 1])]
           e == Places(s)
<1>1. n \in Nat /\ \A k \in 1 .. Len(s) : k + 1 \in 1 .. n /\ k + 1 # 1 /\ (k + 1) - 1 = k
  OBVIOUS
<1>2. \E g : IsPlaces(g)
  BY <1>1, PlacesExist
<1>3. e = CHOOSE g : IsPlaces(g)
  BY DEF Places
<1>4. IsPlaces(e)
  BY <1>2, <1>3
<1> HIDE DEF e
<1>5. \A k \in 1 .. n : e[k] = IF k = 1 THEN 0 ELSE e[k - 1] + Size(s[k - 1])
  BY <1>4
<1>6. 1 \in 1 .. n
  BY <1>1
<1>7. QED
  BY <1>1, <1>5, <1>6 DEF e

\* The first bytes of a file, as they were.
LEMMA FirstBytesLead ==
    ASSUME job' = job, job.op = "shorten", job.bytes \in Nat, out' = FirstBytes
    PROVE  RebuiltFilesLead'
<1>1. /\ Len(out') = 1 /\ DOMAIN out' = {1} /\ out'[1].src = "file"
      /\ out'[1].from = 0 /\ Size(out'[1]) = job.bytes - 0
  BY DEF FirstBytes, Bytes, Size
<1>2. Places(out')[1] = 0 /\ Places(out')[2] = Places(out')[1] + Size(out'[1])
  <2>1. Len(out') \in Nat /\ 1 \in 1 .. Len(out') /\ 1 + 1 = 2
    BY <1>1
  <2>2. QED
    BY <2>1, PlacesStep
<1>3. Places(out')[2] = job.bytes
  BY <1>1, <1>2
<1>4. Place(1)' = 0 /\ Total' = job.bytes
  BY <1>1, <1>2, <1>3 DEF Place, Total
<1>5. \A k \in DOMAIN out' : k = 1 /\ out'[k].src # "new"
  BY <1>1
<1>6. QED
  BY <1>1, <1>4, <1>5 DEF RebuiltFilesLead

-----------------------------------------------------------------------------
(* The inductive invariant                                                 *)

\* A search of the whole file, from its begin.
Plain == job.op = "find" => ~ job.own /\ ~ Ranged /\ PointsAtAtom(job.file, 0)

WalkInv ==
    /\ pc = "begin" => atom = NewAtom /\ mdat = WithEnd(NewAtom, 0)
    /\ pc # "done" => out = <<>>
    /\ pc = "mdat" => /\ job.op = "unite" => ~ Ranged
                      /\ job.op = "find" => (Ranged => job.own)
                      /\ atom.length \in Int /\ atom.header \in {8, 16}
                      /\ Plain => OnPath(job.file, "mdat", atom)
    /\ pc = "moov" => job.op # "find" /\ OnPath(MoovFile, "moov", atom)

InRange == job.op = "unite" /\ Ranged
FoundInv ==
    /\ pc \in {"mdat", "moov"} /\ job.op = "shorten" => job.bytes < job.file.size
    /\ pc = "moov" /\ InRange => mdat = FromRange /\ ContentSize(mdat) > 0
    /\ pc = "moov" /\ ~ InRange =>
          /\ mdat.start \in DOMAIN job.file.heads
          /\ mdat = WithEnd(HeaderAt(job.file, mdat.start), job.file.size)
          /\ mdat.name = "mdat" /\ IsFirst(job.file, "mdat", mdat.start)

IInv == job \in Jobs /\ TypeOK /\ WalkInv /\ FoundInv /\ FindsRootMdat /\ RebuiltFilesLead

LEMMA JobTypes ==
    ASSUME job \in Jobs
    PROVE  /\ job.op \in {"find", "shorten", "unite"}
           /\ IsFile(job.file) /\ IsFile(MoovFile)
           /\ job.file.size \in Nat
           /\ job.op = "find" => IsRange(job.range) /\ job.own \in BOOLEAN /\ job.orig_mdat_start \in Nat
           /\ job.op = "find" /\ job.own => job.root_mdat \in DOMAIN job.file.heads
           /\ job.op = "shorten" => job.bytes \in Nat
           /\ job.op = "unite" => IsRange(job.range)
<1>1. IsJob(job)
  BY JobsAssumption
<1>2. IsFile(job.file) /\ (job.op = "unite" => IsFile(job.index))
  BY <1>1 DEF IsJob
<1>3. job.file.size \in Nat
  BY <1>2 DEF IsFile
<1>4. QED
  BY <1>1, <1>2, <1>3 DEF IsJob, MoovFile

LEMMA JobStays ==
    ASSUME job' = job
    PROVE  /\ (job \in Jobs)' = (job \in Jobs)
           /\ MoovFile' = MoovFile /\ Ranged' = Ranged /\ FromRange' = FromRange
           /\ InRange' = InRange /\ Plain' = Plain
<1>1. MoovFile' = MoovFile
  BY DEF MoovFile
<1>2. Ranged' = Ranged
  BY DEF Ranged
<1>3. FromRange' = FromRange
  BY DEF FromRange, RangeEnd
<1>4. InRange' = InRange /\ Plain' = Plain
  BY <1>2 DEF InRange, Plain
<1>5. QED
  BY <1>1, <1>2, <1>3, <1>4

LEMMA AtomTypes ==
    ASSUME job \in Jobs, TypeOK
    PROVE  atom.start \in Int /\ atom.start >= -8
<1>1. (DOMAIN job.file.heads) \cup (DOMAIN MoovFile.heads) \subseteq Nat
  BY JobTypes DEF IsFile
<1>2. job.op = "find" => job.orig_mdat_start \in Nat
  BY JobTypes
<1>3. \/ atom.start = -8
      \/ job.op = "find" /\ atom.start = job.orig_mdat_start
      \/ atom.start \in (DOMAIN job.file.heads) \cup (DOMAIN MoovFile.heads)
  BY DEF TypeOK
<1>4. atom.start \in Nat => atom.start \in Int /\ atom.start >= -8
  OBVIOUS
<1>5. CASE atom.start = -8
  BY <1>5
<1>6. QED
  BY <1>1, <1>2, <1>3, <1>4, <1>5

\* What a range gives.
LEMMA RangeTypes ==
    ASSUME job \in Jobs, job.op # "shorten", Ranged
    PROVE  /\ FromRange.start \in Int /\ FromRange.start >= -8 /\ FromRange.header = 8
           /\ ContentStart(FromRange) = FromRange.start + 8 /\ ContentStart(FromRange) \in Nat
           /\ FromRange.file_end = RangeEnd
           /\ RangeEnd \in Int /\ RangeEnd <= job.file.size
           /\ ContentSize(FromRange) > 0 => RangeEnd > ContentStart(FromRange)
<1>1. job.range[1] \in Nat /\ job.range[2] \in Int /\ job.file.size \in Nat
  BY JobTypes DEF IsRange, Ranged
<1>2. FromRange = [start |-> job.range[1] - 8, length |-> -1, header |-> 8, name |-> "mdat", file_end |-> RangeEnd]
  BY DEF FromRange, WithEnd, NewAtom
<1>3. FromRange.start = job.range[1] - 8 /\ FromRange.header = 8 /\ FromRange.file_end = RangeEnd
  BY <1>2
<1>4. RangeEnd \in Int /\ RangeEnd <= job.file.size
  BY <1>1 DEF RangeEnd
<1>5. ContentStart(FromRange) = job.range[1]
  BY <1>1, <1>3 DEF ContentStart
<1>6. QED
  BY <1>1, <1>3, <1>4, <1>5 DEF ContentSize

LEMMA NewAtomFields ==
    /\ NewAtom.start = -8 /\ NewAtom.length = -1 /\ NewAtom.header = 8 /\ NewAtom.name = ""
    /\ \A a, e : /\ WithEnd(a, e).start = a.start /\ WithEnd(a, e).length = a.length
                 /\ WithEnd(a, e).header = a.header /\ WithEnd(a, e).name = a.name /\ WithEnd(a, e).file_end = e
BY DEF NewAtom, WithEnd

-----------------------------------------------------------------------------
(* The search, and what begins and ends it                                 *)

LEMMA SearchMdatKeeps ==
    ASSUME IInv, SearchMdat
    PROVE  IInv'
<1> DEFINE next == NextAtomOff(job.file, atom)
<1>1. job' = job /\ job \in Jobs /\ pc = "mdat" /\ pc' = "mdat" /\ mdat' = mdat /\ out' = out
  BY DEF IInv, SearchMdat
<1>2. atom.name # "mdat" /\ next < job.file.size /\ atom' = HeaderAt(job.file, next)
  BY DEF SearchMdat, Turn
<1>3. next \in DOMAIN job.file.heads
  BY <1>1, <1>2, AtomTypes, JobTypes, NextTypes DEF IInv, WalkInv
<1>4. atom'.start = next /\ atom'.length \in Int /\ atom'.header \in {8, 16}
  BY <1>1, <1>2, <1>3, JobTypes, HeaderTypes
<1>5. TypeOK'
  BY <1>1, <1>3, <1>4, JobStays DEF IInv, TypeOK, IsPiece
<1>6. Plain => OnPath(job.file, "mdat", atom')
  BY <1>1, <1>2, JobTypes, TurnStaysOnPath DEF IInv, WalkInv
<1>7. WalkInv'
  BY <1>1, <1>4, <1>6, JobStays DEF IInv, WalkInv
<1>8. FoundInv'
  BY <1>1, JobStays DEF IInv, FoundInv
<1>9. FindsRootMdat' /\ RebuiltFilesLead'
  BY <1>1 DEF FindsRootMdat, SearchedMdat, RebuiltFilesLead
<1>10. QED
  BY <1>1, <1>5, <1>7, <1>8, <1>9 DEF IInv

LEMMA SearchMoovKeeps ==
    ASSUME IInv, SearchMoov
    PROVE  IInv'
<1> DEFINE next == NextAtomOff(MoovFile, atom)
<1>1. job' = job /\ job \in Jobs /\ pc = "moov" /\ pc' = "moov" /\ mdat' = mdat /\ out' = out
  BY DEF IInv, SearchMoov
<1>2. atom.name # "moov" /\ next < MoovFile.size /\ atom' = HeaderAt(MoovFile, next)
  BY DEF SearchMoov, Turn
<1>3. IsFile(MoovFile) /\ job.op # "find" /\ OnPath(MoovFile, "moov", atom)
  BY <1>1, JobTypes DEF IInv, WalkInv
<1>4. next \in DOMAIN MoovFile.heads
  BY <1>2, <1>3, OnPathTypes, NextTypes
<1>5. atom'.start = next
  BY <1>2, <1>3, <1>4, HeaderTypes
<1>6. TypeOK'
  BY <1>1, <1>4, <1>5, JobStays DEF IInv, TypeOK, IsPiece
<1>7. OnPath(MoovFile, "moov", atom')
  BY <1>2, <1>3, TurnStaysOnPath
<1>8. WalkInv'
  BY <1>1, <1>3, <1>7, JobStays DEF IInv, WalkInv
<1>9. FoundInv'
  BY <1>1, JobStays DEF IInv, FoundInv
<1>10. FindsRootMdat'
  BY <1>1, JobStays DEF IInv, FindsRootMdat, SearchedMdat
<1>11. RebuiltFilesLead'
  BY <1>1 DEF RebuiltFilesLead
<1>12. QED
  BY <1>1, <1>6, <1>8, <1>9, <1>10, <1>11 DEF IInv

LEMMA BeginInRangeKeeps ==
    ASSUME IInv, BeginInRange
    PROVE  IInv'
<1>1. /\ job' = job /\ job \in Jobs /\ pc = "begin" /\ atom' = atom /\ out' = out
      /\ mdat' = FromRange /\ job.op # "shorten" /\ Ranged /\ (job.op = "find" => ~ job.own)
      /\ pc' = IF ContentSize(FromRange) <= 0 THEN "failed" ELSE IF job.op = "find" THEN "done" ELSE "moov"
  BY DEF IInv, BeginInRange
<1>2. out = <<>> /\ atom = NewAtom
  BY <1>1 DEF IInv, WalkInv
<1>3. ContentSize(FromRange) \in Int
  BY <1>1, RangeTypes DEF ContentSize
<1>4. job.op # "find" => job.op = "unite"
  BY <1>1, JobTypes
<1>5. TypeOK'
  <2>1. pc' # "failed" => RangeEnd \in 0 .. job.file.size
    <3>1. SUFFICES ASSUME pc' # "failed" PROVE RangeEnd \in 0 .. job.file.size
      OBVIOUS
    <3>2. ContentSize(FromRange) > 0
      BY <1>1, <1>3, <3>1
    <3>3. RangeEnd > ContentStart(FromRange) /\ ContentStart(FromRange) \in Nat /\ RangeEnd \in Int /\ RangeEnd <= job.file.size
      BY <1>1, <3>2, RangeTypes
    <3>4. QED
      BY <1>1, <3>3, JobTypes
  <2>2. mdat'.start >= -8 /\ mdat'.file_end = RangeEnd
    BY <1>1, RangeTypes
  <2>3. pc' \in {"begin", "mdat", "moov", "done", "failed", "aborted"}
    BY <1>1
  <2>4. QED
    <3>1. atom'.start = -8 /\ out' = <<>>
      BY <1>1, <1>2, NewAtomFields
    <3>2. QED
      BY <1>1, <2>1, <2>2, <2>3, <3>1 DEF TypeOK
<1>6. WalkInv'
  BY <1>1, <1>2, <1>4, JobStays DEF WalkInv, OnPath
<1>7. FoundInv'
  BY <1>1, <1>3, <1>4, JobStays DEF FoundInv, InRange
<1>8. FindsRootMdat'
  BY <1>1, <1>4, JobStays DEF FindsRootMdat, SearchedMdat
<1>9. RebuiltFilesLead'
  BY <1>1, <1>2 DEF RebuiltFilesLead
<1>10. QED
  BY <1>1, <1>5, <1>6, <1>7, <1>8, <1>9 DEF IInv

LEMMA BeginFindKeeps ==
    ASSUME IInv, BeginFind
    PROVE  IInv'
<1>1. /\ job' = job /\ job \in Jobs /\ pc = "begin" /\ pc' = "mdat" /\ out' = out /\ mdat' = mdat
      /\ job.op = "find" /\ (Ranged => job.own)
  BY DEF IInv, BeginFind
<1>2. out = <<>> /\ mdat = WithEnd(NewAtom, 0)
  BY <1>1 DEF IInv, WalkInv
<1>3. \/ atom' = Known /\ (job.own => Known = HeaderAt(job.file, job.root_mdat)) /\ (~ job.own => Known = NewAtom)
      \/ atom' = At(-8) \/ atom' = At(job.orig_mdat_start)
  BY DEF BeginFind, Known
<1>4. ~ job.own /\ PointsAtAtom(job.file, 0) => atom' = NewAtom
  BY DEF BeginFind, Known, Pointed
<1>5. job.own \in BOOLEAN /\ (job.own => job.root_mdat \in DOMAIN job.file.heads) /\ job.file.size \in Nat
  BY <1>1, JobTypes
<1>6. job.own => LET h == HeaderAt(job.file, job.root_mdat)
                 IN  /\ h.start = job.root_mdat /\ h.length \in Int /\ h.header \in {8, 16}
  BY <1>1, <1>5, JobTypes, HeaderTypes
<1>7. /\ Known.start = -8 \/ Known.start \in DOMAIN job.file.heads
      /\ Known.length \in Int /\ Known.header \in {8, 16}
  <2>1. CASE job.own
    BY <1>5, <1>6, <2>1 DEF Known
  <2>2. CASE ~ job.own
    <3>1. Known.start = -8 /\ Known.length = -1 /\ Known.header = 8
      BY <2>2, NewAtomFields DEF Known
    <3>2. QED
      BY <3>1
  <2>3. QED
    BY <2>1, <2>2
<1>8. \A s : At(s).start = s /\ At(s).length = Known.length /\ At(s).header = Known.header
  BY DEF At, Known, HeaderAt, NewAtom
<1>9. /\ atom'.length \in Int /\ atom'.header \in {8, 16}
      /\ atom'.start = -8 \/ atom'.start = job.orig_mdat_start \/ atom'.start \in DOMAIN job.file.heads
  BY <1>3, <1>7, <1>8
<1>10. TypeOK'
  <2>1. mdat'.start >= -8 /\ mdat'.file_end = 0 /\ 0 \in 0 .. job.file.size
    <3>1. mdat'.start = -8 /\ mdat'.file_end = 0
      BY <1>1, <1>2, NewAtomFields
    <3>2. QED
      BY <1>5, <3>1
  <2>2. QED
    BY <1>1, <1>2, <1>9, <2>1 DEF TypeOK
<1>11. WalkInv'
  BY <1>1, <1>2, <1>4, <1>9, JobStays DEF WalkInv, OnPath, Plain
<1>12. FoundInv' /\ FindsRootMdat' /\ RebuiltFilesLead'
  BY <1>1 DEF FoundInv, FindsRootMdat, SearchedMdat, RebuiltFilesLead
<1>13. QED
  BY <1>1, <1>10, <1>11, <1>12 DEF IInv

LEMMA EndFindKeeps ==
    ASSUME IInv, EndFind
    PROVE  IInv'
<1>1. /\ job' = job /\ job \in Jobs /\ pc = "mdat" /\ pc' = "done" /\ out' = out /\ atom' = atom
      /\ job.op = "find" /\ (atom.name = "mdat" \/ GivesUp(job.file, "mdat"))
      /\ mdat' = WithEnd(IF atom.name = "mdat" THEN atom ELSE NotFound, job.file.size)
  <2>1. job \in Jobs
    BY DEF IInv
  <2>2. QED
    BY <2>1 DEF EndFind
<1>2. out = <<>> /\ (Plain => OnPath(job.file, "mdat", atom))
  BY <1>1 DEF IInv, WalkInv
<1>3. mdat'.file_end = job.file.size /\ (atom.name = "mdat" => mdat'.start = atom.start)
  <2>1. CASE atom.name = "mdat"
    <3>1. mdat' = WithEnd(atom, job.file.size)
      BY <1>1, <2>1
    <3>2. QED
      BY <3>1, NewAtomFields
  <2>2. CASE atom.name # "mdat"
    <3>1. mdat' = WithEnd(NotFound, job.file.size)
      BY <1>1, <2>2
    <3>2. QED
      BY <2>2, <3>1, NewAtomFields
  <2>3. QED
    BY <2>1, <2>2
<1>4. mdat'.start >= -8
  <2>1. CASE atom.name = "mdat"
    BY <1>1, <1>3, <2>1, AtomTypes DEF IInv
  <2>2. CASE atom.name # "mdat"
    <3>1. mdat'.start = NotFound.start
      BY <1>1, <2>2, NewAtomFields
    <3>2. QED
      BY <3>1 DEF NotFound
  <2>3. QED
    BY <2>1, <2>2
<1>5. TypeOK'
  <2>1. job.file.size \in 0 .. job.file.size
    BY <1>1, JobTypes
  <2>2. QED
    BY <1>1, <1>2, <1>3, <1>4, <2>1, JobStays DEF IInv, TypeOK
<1>6. WalkInv' /\ FoundInv'
  BY <1>1, <1>2 DEF WalkInv, FoundInv
<1>7. FindsRootMdat'
  <2>1. SUFFICES ASSUME ~ job.own, ~ Ranged, RootMdats(job.file) # {}, PointsAtAtom(job.file, 0)
                 PROVE  mdat'.start = Min(RootMdats(job.file))
    BY <1>1, JobStays DEF FindsRootMdat, SearchedMdat
  <2>2. OnPath(job.file, "mdat", atom) /\ IsFile(job.file)
    BY <1>1, <1>2, <2>1, JobTypes DEF Plain
  <2>3. atom.name = "mdat"
    <3>1. SUFFICES ASSUME atom.name # "mdat" PROVE FALSE
      OBVIOUS
    <3>2. NextAtomOff(job.file, atom) < job.file.size /\ NextAtomOff(job.file, atom) >= job.file.size
      BY <1>1, <2>1, <2>2, <3>1, RootMdatIsReached DEF GivesUp
    <3>3. NextAtomOff(job.file, atom) \in Int /\ job.file.size \in Nat
      BY <1>1, <2>2, OnPathTypes, NextTypes, JobTypes
    <3>4. QED
      BY <3>2, <3>3
  <2>4. IsHeader(job.file, atom) /\ IsFirst(job.file, "mdat", atom.start)
    BY <2>2, <2>3, NewAtomFields DEF OnPath
  <2>5. job.file.heads[atom.start].name = "mdat"
    BY <2>2, <2>3, <2>4, HeaderTypes DEF IsHeader
  <2>6. QED
    BY <1>3, <2>1, <2>2, <2>3, <2>4, <2>5, FirstIsRootMdat
<1>8. RebuiltFilesLead'
  BY <1>1, <1>2 DEF RebuiltFilesLead
<1>9. QED
  BY <1>1, <1>5, <1>6, <1>7, <1>8 DEF IInv
LEMMA BeginShortenKeeps ==
    ASSUME IInv, BeginShorten
    PROVE  IInv'
<1>1. /\ job' = job /\ job \in Jobs /\ pc = "begin" /\ atom' = atom /\ mdat' = mdat /\ job.op = "shorten"
      /\ \/ job.file.size <= job.bytes /\ pc' = "failed" /\ out' = out
         \/ job.file.size > job.bytes /\ pc' = "mdat" /\ out' = out
         \/ job.file.size > job.bytes /\ pc' = "done" /\ out' = FirstBytes
  <2>1. job.file.size \in Nat /\ job.bytes \in Nat
    BY JobTypes DEF IInv, BeginShorten
  <2>2. ~(job.file.size <= job.bytes) => job.file.size > job.bytes
    BY <2>1
  <2>3. QED
    BY <2>2 DEF IInv, BeginShorten
<1>2. out = <<>> /\ atom = NewAtom /\ mdat = WithEnd(NewAtom, 0)
  BY <1>1 DEF IInv, WalkInv
<1>3. job.bytes \in Nat /\ job.file.size \in Nat
  BY <1>1, JobTypes
<1>4. TypeOK'
  <2>1. atom'.start = -8 /\ mdat'.start >= -8 /\ mdat'.file_end \in 0 .. job.file.size
    <3>1. atom'.start = -8 /\ mdat'.start = -8 /\ mdat'.file_end = 0
      BY <1>1, <1>2, NewAtomFields
    <3>2. QED
      BY <1>3, <3>1
  <2>2. \A k \in DOMAIN out' : IsPiece(out[k])'
    <3>1. out' = <<>> \/ (job.file.size > job.bytes /\ out' = <<Bytes("file", 0, job.bytes)>>)
      BY <1>1, <1>2 DEF FirstBytes
    <3>2. QED
      BY <1>1, <1>3, <3>1 DEF Bytes, IsPiece
  <2>3. QED
    BY <1>1, <2>1, <2>2 DEF TypeOK
<1>5. WalkInv'
  <2>1. atom'.length \in Int /\ atom'.header \in {8, 16}
    <3>1. atom'.length = -1 /\ atom'.header = 8
      BY <1>1, <1>2, NewAtomFields
    <3>2. QED
      BY <3>1
  <2>2. pc' # "done" => out' = <<>>
    BY <1>1, <1>2
  <2>3. QED
    BY <1>1, <1>2, <2>1, <2>2 DEF WalkInv, OnPath
<1>6. FoundInv' /\ FindsRootMdat'
  BY <1>1, <1>3 DEF FoundInv, FindsRootMdat, SearchedMdat
<1>7. RebuiltFilesLead'
  <2>1. CASE pc' = "done" /\ out' = FirstBytes
    BY <1>1, <1>3, <2>1, FirstBytesLead
  <2>2. CASE ~(pc' = "done" /\ out' = FirstBytes)
    <3>1. pc' # "done"
      BY <1>1, <2>2
    <3>2. QED
      BY <3>1 DEF RebuiltFilesLead
  <2>3. QED
    BY <2>1, <2>2
<1>8. QED
  BY <1>1, <1>4, <1>5, <1>6, <1>7 DEF IInv

LEMMA FoundMdatKeeps ==
    ASSUME IInv, FoundMdat
    PROVE  IInv'
<1>1. /\ job' = job /\ job \in Jobs /\ pc = "mdat" /\ job.op # "find" /\ out' = out
      /\ \/ atom.name = "mdat" /\ pc' = "moov" /\ mdat' = WithEnd(atom, job.file.size) /\ atom' = NewAtom
         \/ pc' = "aborted" /\ atom' = atom /\ mdat' = mdat
  BY DEF IInv, FoundMdat
<1>2. out = <<>> /\ OnPath(job.file, "mdat", atom) /\ (job.op = "unite" => ~ Ranged)
  BY <1>1 DEF IInv, WalkInv, Plain
<1>3. CASE pc' = "aborted"
  <2>1. atom' = atom /\ mdat' = mdat
    BY <1>1, <1>3
  <2>2. TypeOK'
    <3>1. pc # "failed" => mdat.file_end \in 0 .. job.file.size
      BY DEF IInv, TypeOK
    <3>2. QED
      BY <1>1, <1>2, <1>3, <2>1, <3>1, JobStays DEF IInv, TypeOK
  <2>3. WalkInv' /\ FoundInv' /\ FindsRootMdat' /\ RebuiltFilesLead'
    BY <1>1, <1>2, <1>3 DEF WalkInv, FoundInv, FindsRootMdat, SearchedMdat, RebuiltFilesLead
  <2>4. QED
    BY <1>1, <2>2, <2>3 DEF IInv
<1>4. CASE pc' # "aborted"
  <2>1. atom.name = "mdat" /\ pc' = "moov" /\ mdat' = WithEnd(atom, job.file.size) /\ atom' = NewAtom
    BY <1>1, <1>4
  <2>2. IsFile(job.file) /\ job.file.size \in Nat
    BY <1>1, JobTypes
  <2>3. IsHeader(job.file, atom) /\ IsFirst(job.file, "mdat", atom.start)
    BY <1>2, <2>1, NewAtomFields DEF OnPath
  <2>4. /\ mdat'.start = atom.start /\ mdat'.name = "mdat" /\ mdat'.file_end = job.file.size
        /\ atom.start \in DOMAIN job.file.heads /\ atom = HeaderAt(job.file, atom.start)
        /\ atom.start \in Nat /\ job.file.heads[atom.start].name = "mdat"
    <3>1. mdat'.start = atom.start /\ mdat'.name = "mdat" /\ mdat'.file_end = job.file.size
      BY <2>1, NewAtomFields
    <3>2. atom.start \in DOMAIN job.file.heads /\ atom = HeaderAt(job.file, atom.start)
      BY <2>3 DEF IsHeader
    <3>3. atom.start \in Nat /\ HeaderAt(job.file, atom.start).name = job.file.heads[atom.start].name
      BY <2>2, <3>2, HeaderTypes
    <3>4. QED
      BY <2>1, <3>1, <3>2, <3>3
  <2>5. TypeOK'
    <3>1. atom'.start = -8 /\ mdat'.start >= -8 /\ mdat'.file_end \in 0 .. job.file.size /\ out' = <<>>
      <4>1. atom'.start = -8 /\ out' = <<>>
        BY <1>1, <1>2, <2>1, NewAtomFields
      <4>2. mdat'.start \in Nat /\ mdat'.file_end = job.file.size
        BY <2>4
      <4>3. mdat'.start >= -8 /\ mdat'.file_end \in 0 .. job.file.size
        BY <2>2, <4>2
      <4>4. QED
        BY <4>1, <4>3
    <3>2. QED
      BY <1>1, <2>1, <3>1 DEF TypeOK
  <2>6. WalkInv'
    BY <1>1, <1>2, <2>1 DEF WalkInv, OnPath
  <2>7. ~ InRange
    BY <1>2 DEF InRange
  <2>8. FoundInv'
    <3>1. job.op = "shorten" => job.bytes < job.file.size
      BY <1>1 DEF IInv, FoundInv
    <3>2. mdat' = WithEnd(HeaderAt(job.file, mdat'.start), job.file.size)
      BY <2>1, <2>4
    <3>3. QED
      BY <1>1, <2>1, <2>3, <2>4, <2>7, <3>1, <3>2, JobStays DEF FoundInv
  <2>9. FindsRootMdat'
    BY <1>1, <2>2, <2>3, <2>4, FirstIsRootMdat DEF FindsRootMdat
  <2>10. RebuiltFilesLead'
    BY <2>1 DEF RebuiltFilesLead
  <2>11. QED
    BY <1>1, <2>5, <2>6, <2>8, <2>9, <2>10 DEF IInv
<1>5. QED
  BY <1>3, <1>4

\* What is known of a state in which the media data are found and the moov is looked for.
LEMMA MoovTypes ==
    ASSUME IInv, pc = "moov"
    PROVE  /\ job \in Jobs /\ out = <<>> /\ job.op \in {"shorten", "unite"}
           /\ mdat.file_end \in 0 .. job.file.size /\ mdat.start >= -8
           /\ job.op = "shorten" => job.bytes \in Nat /\ job.bytes < job.file.size
BY JobTypes DEF IInv, WalkInv, FoundInv, TypeOK

LEMMA StopsInMoov ==
    ASSUME IInv, pc = "moov", job' = job, atom' = atom, mdat' = mdat,
           \/ pc' \in {"failed", "aborted"} /\ out' = out
           \/ pc' = "done" /\ job.op = "shorten" /\ out' = FirstBytes
    PROVE  IInv'
<1>1. /\ job \in Jobs /\ out = <<>> /\ job.op \in {"shorten", "unite"}
      /\ mdat.file_end \in 0 .. job.file.size /\ mdat.start >= -8
      /\ job.op = "shorten" => job.bytes \in Nat /\ job.bytes < job.file.size
      /\ job.file.size \in Nat
  BY MoovTypes, JobTypes
<1>2. TypeOK'
  <2>1. \A k \in DOMAIN out' : IsPiece(out[k])'
    BY <1>1 DEF FirstBytes, Bytes, IsPiece
  <2>2. pc' \in {"begin", "mdat", "moov", "done", "failed", "aborted"}
    OBVIOUS
  <2>3. QED
    BY <1>1, <2>1, <2>2, JobStays DEF IInv, TypeOK
<1>3. WalkInv' /\ FoundInv' /\ FindsRootMdat'
  BY <1>1 DEF WalkInv, FoundInv, FindsRootMdat, SearchedMdat
<1>4. RebuiltFilesLead'
  BY <1>1, FirstBytesLead DEF RebuiltFilesLead
<1>5. QED
  BY <1>1, <1>2, <1>3, <1>4 DEF IInv

LEMMA BeginUniteKeeps ==
    ASSUME IInv, BeginUnite
    PROVE  IInv'
<1>1. /\ job' = job /\ job \in Jobs /\ pc = "begin" /\ pc' = "mdat" /\ job.op = "unite" /\ ~ Ranged
      /\ atom' = atom /\ mdat' = mdat /\ out' = out
  BY DEF IInv, BeginUnite
<1>2. out = <<>> /\ atom = NewAtom
  BY <1>1 DEF IInv, WalkInv
<1>3. TypeOK'
  <2>1. mdat.file_end \in 0 .. job.file.size
    BY <1>1 DEF IInv, TypeOK
  <2>2. QED
    BY <1>1, <2>1, JobStays DEF IInv, TypeOK, IsPiece
<1>4. WalkInv'
  <2>1. atom'.length \in Int /\ atom'.header \in {8, 16}
    <3>1. atom'.length = -1 /\ atom'.header = 8
      BY <1>1, <1>2, NewAtomFields
    <3>2. QED
      BY <3>1
  <2>2. QED
    BY <1>1, <1>2, <2>1, JobStays DEF WalkInv, OnPath
<1>5. FoundInv' /\ FindsRootMdat' /\ RebuiltFilesLead'
  BY <1>1 DEF FoundInv, FindsRootMdat, SearchedMdat, RebuiltFilesLead
<1>6. QED
  BY <1>1, <1>3, <1>4, <1>5 DEF IInv
-----------------------------------------------------------------------------
(* What is written                                                         *)

LEMMA TuplesJoin ==
    /\ \A a : <<a>> \o <<>> = <<a>>
    /\ \A a, b : <<a>> \o <<b>> = <<a, b>>
    /\ \A a, b, c : <<a>> \o <<b, c>> = <<a, b, c>>
    /\ \A a, b, c : <<a, b>> \o <<c>> = <<a, b, c>>
    /\ \A a, b, c, d : <<a, b>> \o <<c, d>> = <<a, b, c, d>>
    /\ \A a, b, c, d : <<a, b, c>> \o <<d>> = <<a, b, c, d>>
    /\ \A a, b, c, d, e : <<a, b, c>> \o <<d, e>> = <<a, b, c, d, e>>
<1>1. \A a : <<a>> \o <<>> = <<a>>
  OBVIOUS
<1>11. \A a, b : <<a>> \o <<b>> = <<a, b>>
  <2>1. TAKE a, b
  <2> DEFINE S == {a, b}
             s == <<a>>
             t == <<b>>
             u == <<a, b>>
  <2>2. s \in Seq(S) /\ t \in Seq(S) /\ u \in Seq(S) /\ Len(s) = 1 /\ Len(t) = 1 /\ Len(u) = 2
    OBVIOUS
  <2>3. s \o t \in Seq(S) /\ Len(s \o t) = 2
    BY <2>2, ConcatProperties
  <2>4. \A k \in 1 .. 2 : (s \o t)[k] = u[k]
    <3>1. \A k \in 1 .. 2 : (s \o t)[k] = IF k <= 1 THEN s[k] ELSE t[k - 1]
      BY <2>2, ConcatProperties
    <3>2. QED
      BY <3>1
  <2> HIDE DEF S, s, t, u
  <2>5. s \o t = u
    BY <2>2, <2>3, <2>4, SeqEqual
  <2>6. QED
    BY <2>5 DEF s, t, u
<1>12. \A a, b, c : <<a>> \o <<b, c>> = <<a, b, c>>
  <2>1. TAKE a, b, c
  <2> DEFINE S == {a, b, c}
             s == <<a>>
             t == <<b, c>>
             u == <<a, b, c>>
  <2>2. s \in Seq(S) /\ t \in Seq(S) /\ u \in Seq(S) /\ Len(s) = 1 /\ Len(t) = 2 /\ Len(u) = 3
    OBVIOUS
  <2>3. s \o t \in Seq(S) /\ Len(s \o t) = 3
    BY <2>2, ConcatProperties
  <2>4. \A k \in 1 .. 3 : (s \o t)[k] = u[k]
    <3>1. \A k \in 1 .. 3 : (s \o t)[k] = IF k <= 1 THEN s[k] ELSE t[k - 1]
      BY <2>2, ConcatProperties
    <3>2. QED
      BY <3>1
  <2> HIDE DEF S, s, t, u
  <2>5. s \o t = u
    BY <2>2, <2>3, <2>4, SeqEqual
  <2>6. QED
    BY <2>5 DEF s, t, u
<1>21. \A a, b, c : <<a, b>> \o <<c>> = <<a, b, c>>
  <2>1. TAKE a, b, c
  <2> DEFINE S == {a, b, c}
             s == <<a, b>>
             t == <<c>>
             u == <<a, b, c>>
  <2>2. s \in Seq(S) /\ t \in Seq(S) /\ u \in Seq(S) /\ Len(s) = 2 /\ Len(t) = 1 /\ Len(u) = 3
    OBVIOUS
  <2>3. s \o t \in Seq(S) /\ Len(s \o t) = 3
    BY <2>2, ConcatProperties
  <2>4. \A k \in 1 .. 3 : (s \o t)[k] = u[k]
    <3>1. \A k \in 1 .. 3 : (s \o t)[k] = IF k <= 2 THEN s[k] ELSE t[k - 2]
      BY <2>2, ConcatProperties
    <3>2. QED
      BY <3>1
  <2> HIDE DEF S, s, t, u
  <2>5. s \o t = u
    BY <2>2, <2>3, <2>4, SeqEqual
  <2>6. QED
    BY <2>5 DEF s, t, u
<1>22. \A a, b, c, d : <<a, b>> \o <<c, d>> = <<a, b, c, d>>
  <2>1. TAKE a, b, c, d
  <2> DEFINE S == {a, b, c, d}
             s == <<a, b>>
             t == <<c, d>>
             u == <<a, b, c, d>>
  <2>2. s \in Seq(S) /\ t \in Seq(S) /\ u \in Seq(S) /\ Len(s) = 2 /\ Len(t) = 2 /\ Len(u) = 4
    OBVIOUS
  <2>3. s \o t \in Seq(S) /\ Len(s \o t) = 4
    BY <2>2, ConcatProperties
  <2>4. \A k \in 1 .. 4 : (s \o t)[k] = u[k]
    <3>1. \A k \in 1 .. 4 : (s \o t)[k] = IF k <= 2 THEN s[k] ELSE t[k - 2]
      BY <2>2, ConcatProperties
    <3>2. QED
      BY <3>1
  <2> HIDE DEF S, s, t, u
  <2>5. s \o t = u
    BY <2>2, <2>3, <2>4, SeqEqual
  <2>6. QED
    BY <2>5 DEF s, t, u
<1>31. \A a, b, c, d : <<a, b, c>> \o <<d>> = <<a, b, c, d>>
  <2>1. TAKE a, b, c, d
  <2> DEFINE S == {a, b, c, d}
             s == <<a, b, c>>
             t == <<d>>
             u == <<a, b, c, d>>
  <2>2. s \in Seq(S) /\ t \in Seq(S) /\ u \in Seq(S) /\ Len(s) = 3 /\ Len(t) = 1 /\ Len(u) = 4
    OBVIOUS
  <2>3. s \o t \in Seq(S) /\ Len(s \o t) = 4
    BY <2>2, ConcatProperties
  <2>4. \A k \in 1 .. 4 : (s \o t)[k] = u[k]
    <3>1. \A k \in 1 .. 4 : (s \o t)[k] = IF k <= 3 THEN s[k] ELSE t[k - 3]
      BY <2>2, ConcatProperties
    <3>2. QED
      BY <3>1
  <2> HIDE DEF S, s, t, u
  <2>5. s \o t = u
    BY <2>2, <2>3, <2>4, SeqEqual
  <2>6. QED
    BY <2>5 DEF s, t, u
<1>32. \A a, b, c, d, e : <<a, b, c>> \o <<d, e>> = <<a, b, c, d, e>>
  <2>1. TAKE a, b, c, d, e
  <2> DEFINE S == {a, b, c, d, e}
             s == <<a, b, c>>
             t == <<d, e>>
             u == <<a, b, c, d, e>>
  <2>2. s \in Seq(S) /\ t \in Seq(S) /\ u \in Seq(S) /\ Len(s) = 3 /\ Len(t) = 2 /\ Len(u) = 5
    OBVIOUS
  <2>3. s \o t \in Seq(S) /\ Len(s \o t) = 5
    BY <2>2, ConcatProperties
  <2>4. \A k \in 1 .. 5 : (s \o t)[k] = u[k]
    <3>1. \A k \in 1 .. 5 : (s \o t)[k] = IF k <= 3 THEN s[k] ELSE t[k - 3]
      BY <2>2, ConcatProperties
    <3>2. QED
      BY <3>1
  <2> HIDE DEF S, s, t, u
  <2>5. s \o t = u
    BY <2>2, <2>3, <2>4, SeqEqual
  <2>6. QED
    BY <2>5 DEF s, t, u
<1>40. QED
  BY <1>1, <1>11, <1>12, <1>21, <1>22, <1>31, <1>32

\* An atom is written as its header and, when it has one, its content.
HeaderPiece(a, force_64) == New(HeaderSize(a, force_64), a.length - 8 + HeaderSize(a, force_64))

LEMMA PiecesAre ==
    ASSUME NEW src, NEW a, NEW force_64
    PROVE  /\ ContentSize(a) > 0 =>
                 Pieces(src, a, force_64) = <<HeaderPiece(a, force_64), Bytes(src, ContentStart(a), a.file_end)>>
           /\ ~(ContentSize(a) > 0) => Pieces(src, a, force_64) = <<HeaderPiece(a, force_64)>>
<1>1. ContentSize(a) > 0 => Pieces(src, a, force_64) = <<HeaderPiece(a, force_64)>> \o <<Bytes(src, ContentStart(a), a.file_end)>>
  BY DEF Pieces, HeaderPiece
<1>2. ~(ContentSize(a) > 0) => Pieces(src, a, force_64) = <<HeaderPiece(a, force_64)>> \o <<>>
  BY DEF Pieces, HeaderPiece
<1>3. QED
  BY <1>1, <1>2, TuplesJoin

LEMMA SizesOfPieces ==
    /\ \A n, x : /\ New(n, x).src = "new" /\ New(n, x).from = 0 /\ New(n, x).to = n /\ New(n, x).states = x
    /\ \A src, x, y : /\ Bytes(src, x, y).src = src /\ Bytes(src, x, y).from = x /\ Bytes(src, x, y).to = y
                      /\ Size(Bytes(src, x, y)) = y - x
    /\ \A n \in Int : \A x : Size(New(n, x)) = n
<1>1. \A n \in Int : \A x : Size(New(n, x)) = n
  BY DEF Size, New
<1>2. QED
  BY <1>1 DEF Size, New, Bytes

LEMMA HeaderSizes ==
    ASSUME NEW a, NEW force_64
    PROVE  /\ HeaderSize(a, force_64) \in {8, 16}
           /\ force_64 => HeaderSize(a, force_64) = 16
           /\ ~ force_64 /\ ~(a.length > Limit) => HeaderSize(a, force_64) = 8
BY DEF HeaderSize

\* What is written as one atom is as long as it states, only if its content is.
LEMMA StatedAsWritten ==
    ASSUME NEW src, NEW a, NEW force_64, a.length \in Int, ContentSize(a) \in Int,
           ContentSize(a) = a.file_end - ContentStart(a)
    PROVE  IsAsStated(Pieces(src, a, force_64)) =>
              a.length - 8 = IF ContentSize(a) > 0 THEN ContentSize(a) ELSE 0
<1> DEFINE hs == HeaderSize(a, force_64)
           p == Pieces(src, a, force_64)
<1>1. hs \in {8, 16}
  BY HeaderSizes
<1>2. HeaderPiece(a, force_64).states = a.length - 8 + hs /\ Size(HeaderPiece(a, force_64)) = hs
  BY <1>1, SizesOfPieces DEF HeaderPiece
<1>3. CASE ContentSize(a) > 0
  <2>1. p = <<HeaderPiece(a, force_64), Bytes(src, ContentStart(a), a.file_end)>>
    BY <1>3, PiecesAre
  <2> HIDE DEF p, hs
  <2>2. Len(p) = 2 /\ p[1] = HeaderPiece(a, force_64) /\ Size(p[2]) = ContentSize(a)
    BY <2>1, SizesOfPieces
  <2>3. Places(p)[1] = 0 /\ Places(p)[2] = Places(p)[1] + Size(p[1]) /\ Places(p)[3] = Places(p)[2] + Size(p[2])
    <3>1. Len(p) \in Nat /\ 1 \in 1 .. Len(p) /\ 2 \in 1 .. Len(p) /\ 1 + 1 = 2 /\ 2 + 1 = 3
      BY <2>2
    <3>2. QED
      BY <3>1, PlacesStep
  <2>4. Places(p)[3] = hs + ContentSize(a)
    BY <1>1, <1>2, <2>2, <2>3
  <2>5. IsAsStated(p) => hs + ContentSize(a) = a.length - 8 + hs
    BY <1>2, <2>2, <2>4 DEF IsAsStated
  <2>6. QED
    BY <1>1, <1>3, <2>5 DEF p
<1>4. CASE ~(ContentSize(a) > 0)
  <2>1. p = <<HeaderPiece(a, force_64)>>
    BY <1>4, PiecesAre
  <2> HIDE DEF p, hs
  <2>2. Len(p) = 1 /\ p[1] = HeaderPiece(a, force_64)
    BY <2>1
  <2>3. Places(p)[1] = 0 /\ Places(p)[2] = Places(p)[1] + Size(p[1])
    <3>1. Len(p) \in Nat /\ 1 \in 1 .. Len(p) /\ 1 + 1 = 2
      BY <2>2
    <3>2. QED
      BY <3>1, PlacesStep
  <2>4. Places(p)[2] = hs
    BY <1>1, <1>2, <2>2, <2>3
  <2>5. IsAsStated(p) => hs = a.length - 8 + hs
    BY <1>2, <2>2, <2>4 DEF IsAsStated
  <2>6. IsAsStated(p) => a.length - 8 = 0
    BY <1>1, <2>5
  <2>7. QED
    BY <1>4, <2>6 DEF p
<1>5. QED
  BY <1>3, <1>4

LEMMA UpdatedAtom ==
    ASSUME NEW a, NEW e, NEW end
    PROVE  /\ Updated(WithEnd(a, e), end).file_end = end
           /\ Updated(WithEnd(a, e), end).length = 8 + end - ContentStart(a)
           /\ ContentStart(Updated(WithEnd(a, e), end)) = ContentStart(a)
           /\ ContentSize(Updated(WithEnd(a, e), end)) = end - ContentStart(a)
BY DEF Updated, WithEnd, ContentStart, ContentSize

\* An mdat whose length is left open reaches the end of its file, and so does the search.
LEMMA OpenMdatIsLast ==
    ASSUME NEW f, IsFile(f), NEW p \in DOMAIN f.heads, f.heads[p].name = "mdat",
           p + HeaderAt(f, p).length >= f.size
    PROVE  NextAtomOff(f, HeaderAt(f, p)) = f.size
<1> DEFINE a == HeaderAt(f, p)
           next == a.start + a.length
<1>1. p \in Nat /\ f.size \in Nat /\ p < f.size /\ a.start = p /\ a.name = "mdat" /\ a.length \in Nat
  BY HeaderTypes
<1>3. next \in Nat /\ next >= f.size /\ a.length > 0
  BY <1>1
<1>4. SkipsNested(f, a) /\ PointsAtAtom(f, next)
  BY <1>1, <1>3 DEF SkipsNested, PointsAtAtom
<1>5. NextAtomOff(f, a) = Min({next, f.size})
  BY <1>4 DEF NextAtomOff
<1>6. Min({next, f.size}) = f.size
  BY <1>1, <1>3, MinOfTwo
<1>7. QED
  BY <1>5, <1>6
\* What shorten knows when it has found the moov behind the mdat: the header of the shorter mdat
\* is as long as the one it had, as a header of 8 bytes states a length within the limit.
LEMMA ShorterTypes ==
    ASSUME IInv, MoovIsBehind
    PROVE  /\ job \in Jobs /\ pc = "moov" /\ job.op = "shorten" /\ out = <<>>
           /\ mdat.start \in Nat /\ mdat.header \in {8, 16} /\ mdat.length \in Nat
           /\ job.file.size \in Nat /\ job.bytes \in Nat /\ job.bytes < job.file.size
           /\ ContentStart(mdat) = mdat.start + mdat.header
           /\ AfterMdat = job.file.size - MdatEnd
           /\ Shorter.length = 8 + job.bytes - AfterMdat - ContentStart(mdat)
           /\ Shorter.file_end = job.bytes - AfterMdat
           /\ ContentStart(Shorter) = ContentStart(mdat)
           /\ ContentSize(Shorter) = job.bytes - AfterMdat - ContentStart(mdat)
           /\ HeaderSize(Shorter, mdat.header > 8) = mdat.header
           /\ MdatEnd < job.file.size
           /\ atom.start \in RootAtoms(job.file) => MdatEnd <= atom.start
<1> DEFINE f == job.file
           m == mdat.start
           h == HeaderAt(f, m)
<1>1. job \in Jobs /\ pc = "moov" /\ job.op = "shorten" /\ atom.name = "moov" /\ atom.start >= m
  BY DEF IInv, MoovIsBehind
<1>2. ~ InRange /\ MoovFile = f /\ IsFile(f)
  BY <1>1, JobTypes DEF InRange, MoovFile
<1>3. out = <<>> /\ job.bytes \in Nat /\ job.bytes < f.size /\ f.size \in Nat
  BY <1>1, MoovTypes, JobTypes
<1>4. m \in DOMAIN f.heads /\ mdat = WithEnd(h, f.size) /\ mdat.name = "mdat" /\ m \in Path(f)
  BY <1>1, <1>2 DEF IInv, FoundInv, IsFirst
<1>5. /\ m \in Nat /\ m < f.size /\ h.start = m /\ h.header \in {8, 16} /\ h.length \in Nat
      /\ h.name = f.heads[m].name
  BY <1>2, <1>4, HeaderTypes
<1>6. mdat.header = h.header /\ mdat.length = h.length /\ mdat.name = h.name
  <2>1. mdat = WithEnd(h, f.size)
    BY <1>4
  <2> HIDE DEF h, m
  <2>2. mdat.header = WithEnd(h, f.size).header /\ mdat.length = WithEnd(h, f.size).length /\ mdat.name = WithEnd(h, f.size).name
    BY <2>1
  <2>3. QED
    BY <2>2, NewAtomFields
<1>7. OnPath(f, "moov", atom)
  BY <1>1, <1>2 DEF IInv, WalkInv
<1>8. IsHeader(f, atom) /\ atom.start \in Path(f)
  BY <1>1, <1>7, NewAtomFields DEF OnPath, IsFirst
<1>9. atom.start \in DOMAIN f.heads /\ f.heads[atom.start].name = "moov" /\ atom.start \in Nat /\ atom.start < f.size
  BY <1>1, <1>2, <1>8, HeaderTypes DEF IsHeader
<1>10. f.heads[m].name = "mdat" /\ m < atom.start
  <2>1. f.heads[m].name = "mdat"
    BY <1>4, <1>5, <1>6
  <2>2. m # atom.start
    BY <1>9, <2>1
  <2>3. QED
    BY <1>1, <1>5, <1>9, <2>1, <2>2
<1>11. NextAtomOff(f, h) <= atom.start
  BY <1>2, <1>4, <1>8, <1>10, PathInOrder
<1>19. m + h.length \in Nat /\ m + h.length < f.size
  <2>1. m + h.length \in Nat
    BY <1>5
  <2>2. SUFFICES ASSUME m + h.length >= f.size PROVE FALSE
    BY <1>3, <2>1
  <2>3. NextAtomOff(f, h) = f.size
    BY <1>2, <1>4, <1>10, <2>2, OpenMdatIsLast
  <2>4. QED
    BY <1>3, <1>9, <1>11, <2>3
<1>12. mdat.header = 8 => mdat.length <= Limit
  <2>1. SUFFICES ASSUME mdat.header = 8 PROVE mdat.length <= Limit
    OBVIOUS
  <2>2. f.heads[m].wide \in BOOLEAN /\ (~ f.heads[m].wide => f.heads[m].length \in 0 .. Limit)
    BY <1>2, <1>4 DEF IsFile
  <2>3. ~ f.heads[m].wide
    BY <1>6, <2>1, <2>2 DEF HeaderAt, HeadSize
  <2>4. f.heads[m].length # 0
    <3>1. SUFFICES ASSUME f.heads[m].length = 0 PROVE FALSE
      OBVIOUS
    <3>2. m + h.length >= f.size
      <4>1. h.length = f.size - m
        BY <2>3, <3>1 DEF HeaderAt
      <4>2. QED
        BY <1>3, <1>5, <4>1
    <3>3. QED
      BY <1>3, <1>19, <3>2
  <2>5. h.length = f.heads[m].length
    BY <2>3, <2>4 DEF HeaderAt
  <2>6. QED
    BY <1>6, <2>2, <2>3, <2>5, LimitAssumption
<1>13. ContentStart(mdat) = m + mdat.header /\ MdatEnd = m + mdat.length /\ AfterMdat = f.size - MdatEnd
  BY DEF ContentStart, MdatEnd, AfterMdat
<1>14. ContentStart(h) = ContentStart(mdat)
  BY <1>5, <1>6 DEF ContentStart
<1>15. AfterMdat \in Int /\ ContentStart(mdat) \in Nat
  BY <1>3, <1>5, <1>6, <1>13
<1>16. /\ Shorter.file_end = job.bytes - AfterMdat
       /\ Shorter.length = 8 + job.bytes - AfterMdat - ContentStart(mdat)
       /\ ContentStart(Shorter) = ContentStart(mdat)
       /\ ContentSize(Shorter) = job.bytes - AfterMdat - ContentStart(mdat)
  <2>1. Shorter = Updated(WithEnd(h, f.size), job.bytes - AfterMdat)
    BY <1>4 DEF Shorter
  <2>2. /\ Shorter.file_end = job.bytes - AfterMdat
        /\ Shorter.length = 8 + (job.bytes - AfterMdat) - ContentStart(h)
        /\ ContentStart(Shorter) = ContentStart(h)
        /\ ContentSize(Shorter) = (job.bytes - AfterMdat) - ContentStart(h)
    BY <2>1, UpdatedAtom
  <2>3. QED
    BY <1>3, <1>14, <1>15, <2>2
<1>17. HeaderSize(Shorter, mdat.header > 8) = mdat.header
  <2>1. CASE mdat.header = 16
    <3>1. mdat.header > 8
      BY <2>1
    <3>2. QED
      BY <2>1, <3>1 DEF HeaderSize
  <2>2. CASE mdat.header = 8
    <3>1. Shorter.length = job.bytes - f.size + mdat.length
      <4>1. Shorter.length = 8 + job.bytes - (f.size - (m + mdat.length)) - (m + 8)
        BY <1>13, <1>16, <2>2
      <4>2. m \in Nat /\ mdat.length \in Nat /\ f.size \in Nat /\ job.bytes \in Nat
        BY <1>3, <1>5, <1>6
      <4> HIDE DEF m, f, h
      <4>3. QED
        BY <4>1, <4>2
    <3>2. mdat.length <= Limit
      BY <1>12, <2>2
    <3>3. ~(Shorter.length > Limit)
      BY <1>3, <1>5, <1>6, <3>1, <3>2, LimitAssumption
    <3>4. QED
      BY <2>2, <3>3 DEF HeaderSize
  <2>3. QED
    BY <1>5, <1>6, <2>1, <2>2
<1>18. atom.start \in RootAtoms(f) => MdatEnd <= atom.start
  <2>1. SUFFICES ASSUME atom.start \in RootAtoms(f) PROVE MdatEnd <= atom.start
    OBVIOUS
  <2>2. m \in RootAtoms(f)
    BY <1>2, <1>4, <1>5, <1>9, <1>10, <2>1, PathIsAtRoot
  <2>3. m + h.length <= atom.start
    BY <1>2, <1>10, <2>1, <2>2, RootInOrder
  <2>4. QED
    BY <1>6, <1>13, <2>3
<1>20. MdatEnd < f.size
  BY <1>6, <1>13, <1>19
<1>21. QED
  BY <1>1, <1>3, <1>5, <1>6, <1>13, <1>16, <1>17, <1>18, <1>20

LEMMA FourPieces ==
    ASSUME NEW a, NEW b, NEW c, NEW d
    PROVE  LET s == <<a, b, c, d>>
           IN  /\ Len(s) = 4 /\ DOMAIN s = 1 .. 4 /\ s[1] = a /\ s[2] = b /\ s[3] = c /\ s[4] = d /\ Last(s) = d
               /\ Places(s)[1] = 0
               /\ Places(s)[2] = Places(s)[1] + Size(a)
               /\ Places(s)[3] = Places(s)[2] + Size(b)
               /\ Places(s)[4] = Places(s)[3] + Size(c)
               /\ Places(s)[5] = Places(s)[4] + Size(d)
<1> DEFINE s == <<a, b, c, d>>
<1>1. Len(s) = 4 /\ DOMAIN s = 1 .. 4 /\ s[1] = a /\ s[2] = b /\ s[3] = c /\ s[4] = d /\ Last(s) = d
  BY DEF Last
<1> HIDE DEF s
<1>2. /\ Len(s) \in Nat /\ 1 \in 1 .. Len(s) /\ 2 \in 1 .. Len(s) /\ 3 \in 1 .. Len(s) /\ 4 \in 1 .. Len(s)
      /\ 1 + 1 = 2 /\ 2 + 1 = 3 /\ 3 + 1 = 4 /\ 4 + 1 = 5
  BY <1>1
<1>3. /\ Places(s)[1] = 0
      /\ Places(s)[2] = Places(s)[1] + Size(s[1])
      /\ Places(s)[3] = Places(s)[2] + Size(s[2])
      /\ Places(s)[4] = Places(s)[3] + Size(s[3])
      /\ Places(s)[5] = Places(s)[4] + Size(s[4])
  BY <1>2, PlacesStep
<1>4. QED
  BY <1>1, <1>3 DEF s

LEMMA ThreePieces ==
    ASSUME NEW a, NEW b, NEW c
    PROVE  LET s == <<a, b, c>>
           IN  /\ Len(s) = 3 /\ DOMAIN s = 1 .. 3 /\ s[1] = a /\ s[2] = b /\ s[3] = c /\ Last(s) = c
               /\ Places(s)[1] = 0
               /\ Places(s)[2] = Places(s)[1] + Size(a)
               /\ Places(s)[3] = Places(s)[2] + Size(b)
               /\ Places(s)[4] = Places(s)[3] + Size(c)
<1> DEFINE s == <<a, b, c>>
<1>1. Len(s) = 3 /\ DOMAIN s = 1 .. 3 /\ s[1] = a /\ s[2] = b /\ s[3] = c /\ Last(s) = c
  BY DEF Last
<1> HIDE DEF s
<1>2. /\ Len(s) \in Nat /\ 1 \in 1 .. Len(s) /\ 2 \in 1 .. Len(s) /\ 3 \in 1 .. Len(s)
      /\ 1 + 1 = 2 /\ 2 + 1 = 3 /\ 3 + 1 = 4
  BY <1>1
<1>3. /\ Places(s)[1] = 0
      /\ Places(s)[2] = Places(s)[1] + Size(s[1])
      /\ Places(s)[3] = Places(s)[2] + Size(s[2])
      /\ Places(s)[4] = Places(s)[3] + Size(s[3])
  BY <1>2, PlacesStep
<1>4. QED
  BY <1>1, <1>3 DEF s
LEMMA WrittenOnce ==
    ASSUME job' = job, atom' = atom, mdat' = mdat, IInv, pc = "moov", pc' = "done",
           \A k \in DOMAIN out' : IsPiece(out[k])',
           RebuiltFilesLead'
    PROVE  IInv'
<1>1. job \in Jobs /\ job.op \in {"shorten", "unite"} /\ mdat.file_end \in 0 .. job.file.size
  BY MoovTypes
<1>2. TypeOK'
  BY <1>1, JobStays DEF IInv, TypeOK
<1>3. WalkInv' /\ FoundInv' /\ FindsRootMdat'
  BY <1>1 DEF WalkInv, FoundInv, FindsRootMdat, SearchedMdat
<1>4. QED
  BY <1>1, <1>2, <1>3 DEF IInv

LEMMA ShortenMdatKeeps ==
    ASSUME IInv, ShortenMdat
    PROVE  IInv'
<1> DEFINE pieces == Pieces("file", Shorter, mdat.header > 8)
           m == mdat.start
           start == ContentStart(mdat)
           end == job.bytes - AfterMdat
           front == Bytes("file", 0, m)
           head == HeaderPiece(Shorter, mdat.header > 8)
           content == Bytes("file", start, end)
           last == Bytes("file", MdatEnd, job.file.size)
<1>1. MoovIsBehind /\ job' = job /\ atom' = atom /\ mdat' = mdat /\ job.bytes >= AfterMdat
  BY DEF ShortenMdat
<1>2. /\ job \in Jobs /\ pc = "moov" /\ job.op = "shorten" /\ out = <<>>
      /\ m \in Nat /\ mdat.header \in {8, 16} /\ mdat.length \in Nat
      /\ job.file.size \in Nat /\ job.bytes \in Nat /\ job.bytes < job.file.size
      /\ start = m + mdat.header
      /\ AfterMdat = job.file.size - MdatEnd
      /\ Shorter.length = 8 + job.bytes - AfterMdat - start
      /\ Shorter.file_end = end
      /\ ContentStart(Shorter) = start
      /\ ContentSize(Shorter) = job.bytes - AfterMdat - start
      /\ HeaderSize(Shorter, mdat.header > 8) = mdat.header
      /\ MdatEnd < job.file.size
      /\ atom.start \in RootAtoms(job.file) => MdatEnd <= atom.start
  BY <1>1, ShorterTypes
<1>3. MdatEnd \in Nat /\ AfterMdat \in Int /\ start \in Nat /\ end \in Nat
  <2>1. MdatEnd \in Nat
    BY <1>2 DEF MdatEnd
  <2>2. AfterMdat = job.file.size - MdatEnd /\ job.file.size \in Nat
    BY <1>2
  <2>3. AfterMdat \in Int
    BY <2>1, <2>2
  <2>4. start \in Nat
    <3>1. start = m + mdat.header /\ m \in Nat /\ mdat.header \in Nat
      BY <1>2
    <3> HIDE DEF start, m
    <3>2. QED
      BY <3>1
  <2>5. end \in Nat
    <3>1. job.bytes \in Nat /\ job.bytes >= AfterMdat
      BY <1>1, <1>2
    <3>2. QED
      BY <2>3, <3>1
  <2>6. QED
    BY <2>1, <2>3, <2>4, <2>5
<1> DEFINE hd == mdat.header
<1>4. /\ m \in Nat /\ hd \in Nat /\ MdatEnd \in Nat /\ job.file.size \in Nat /\ job.bytes \in Nat
      /\ start \in Nat /\ end \in Nat /\ start = m + hd /\ end = job.bytes - (job.file.size - MdatEnd)
      /\ job.bytes < job.file.size /\ MdatEnd < job.file.size
  <2>1. hd \in Nat /\ m \in Nat /\ start = m + hd
    BY <1>2
  <2>2. end = job.bytes - (job.file.size - MdatEnd)
    BY <1>2
  <2>3. QED
    BY <1>2, <1>3, <2>1, <2>2
<1>5. CASE ~ IsAsStated(pieces)
  <2>1. pc' = "aborted" /\ out' = out
    BY <1>5 DEF ShortenMdat
  <2>2. QED
    BY <1>1, <1>2, <2>1, StopsInMoov
<1>6. CASE IsAsStated(pieces)
  <2>1. pc' = "done" /\ out' = <<front>> \o pieces \o <<last>>
    BY <1>6 DEF ShortenMdat
  <2>2. Shorter.length - 8 = IF ContentSize(Shorter) > 0 THEN ContentSize(Shorter) ELSE 0
    <3>1. Shorter.length \in Int /\ ContentSize(Shorter) \in Int
      <4>1. Shorter.length = 8 + job.bytes - AfterMdat - start /\ ContentSize(Shorter) = job.bytes - AfterMdat - start
        BY <1>2
      <4>2. job.bytes \in Int /\ AfterMdat \in Int /\ start \in Int
        BY <1>3, <1>4
      <4> HIDE DEF start
      <4>3. QED
        BY <4>1, <4>2
    <3>2. ContentSize(Shorter) = Shorter.file_end - ContentStart(Shorter)
      BY DEF ContentSize
    <3>3. QED
      BY <1>6, <3>1, <3>2, StatedAsWritten
  <2>3. ContentSize(Shorter) = end - start /\ ContentSize(Shorter) >= 0 /\ Shorter.length - 8 = end - start
    <3> DEFINE size == ContentSize(Shorter)
               stated == Shorter.length - 8
    <3>1. size = job.bytes - AfterMdat - start /\ stated = job.bytes - AfterMdat - start
      <4>1. Shorter.length = 8 + job.bytes - AfterMdat - start
        BY <1>2
      <4>2. job.bytes \in Int /\ AfterMdat \in Int /\ start \in Int
        BY <1>3, <1>4
      <4> HIDE DEF start
      <4>3. size = job.bytes - AfterMdat - start
        BY <1>2
      <4>4. QED
        BY <4>1, <4>2, <4>3
    <3>2. job.bytes \in Nat /\ AfterMdat \in Int /\ start \in Nat
      BY <1>3, <1>4
    <3>3. stated = IF size > 0 THEN size ELSE 0
      BY <2>2
    <3>4. end = job.bytes - AfterMdat
      OBVIOUS
    <3> HIDE DEF size, stated, end, start
    <3>5. size = end - start /\ size >= 0 /\ stated = end - start
      BY <3>1, <3>2, <3>3, <3>4
    <3>6. QED
      BY <3>5 DEF size, stated
  <2>4. /\ front.src = "file" /\ front.from = 0 /\ front.to = m /\ Size(front) = m
        /\ head.src = "new" /\ head.from = 0 /\ head.to = hd /\ Size(head) = hd
        /\ head.states = end - start + hd
        /\ content.src = "file" /\ content.from = start /\ content.to = end /\ Size(content) = end - start
        /\ last.src = "file" /\ last.from = MdatEnd /\ last.to = job.file.size /\ Size(last) = job.file.size - MdatEnd
    <3>1. /\ front.src = "file" /\ front.from = 0 /\ front.to = m /\ Size(front) = m - 0
          /\ content.src = "file" /\ content.from = start /\ content.to = end /\ Size(content) = end - start
          /\ last.src = "file" /\ last.from = MdatEnd /\ last.to = job.file.size /\ Size(last) = job.file.size - MdatEnd
      BY SizesOfPieces
    <3>2. head = New(hd, Shorter.length - 8 + hd)
      BY <1>2 DEF HeaderPiece
    <3>3. head.src = "new" /\ head.from = 0 /\ head.to = hd /\ Size(head) = hd /\ head.states = Shorter.length - 8 + hd
      BY <1>4, <3>2, SizesOfPieces
    <3> HIDE DEF front, content, last, head, m, start, end, hd
    <3>4. Size(front) = m /\ head.states = end - start + hd
      BY <1>4, <2>3, <3>1, <3>3
    <3>5. QED
      BY <3>1, <3>3, <3>4
  <2> DEFINE o == out'
  <2>5. CASE end - start > 0
    <3>1. pieces = <<head, content>>
      BY <1>2, <2>3, <2>5, PiecesAre
    <3> HIDE DEF pieces, front, head, content, last, m, start, end, hd
    <3>2. o = <<front, head, content, last>>
      <4>1. <<front>> \o pieces = <<front, head, content>>
        BY <3>1, TuplesJoin
      <4>2. <<front, head, content>> \o <<last>> = <<front, head, content, last>>
        BY TuplesJoin
      <4>3. QED
        BY <2>1, <4>1, <4>2
    <3> HIDE DEF o
    <3>3. Len(o) = 4 /\ DOMAIN o = 1 .. 4 /\ o[1] = front /\ o[2] = head /\ o[3] = content /\ o[4] = last /\ Last(o) = last
      BY <3>2, FourPieces
    <3>4. /\ Places(o)[1] = 0
          /\ Places(o)[2] = Places(o)[1] + Size(front)
          /\ Places(o)[3] = Places(o)[2] + Size(head)
          /\ Places(o)[4] = Places(o)[3] + Size(content)
          /\ Places(o)[5] = Places(o)[4] + Size(last)
      BY <3>2, FourPieces
    <3>5. /\ Places(o)[1] = 0 /\ Places(o)[2] = m /\ Places(o)[3] = start
          /\ Places(o)[4] = m + hd + (end - start)
          /\ Places(o)[5] = m + hd + (end - start) + (job.file.size - MdatEnd)
      BY <1>4, <2>4, <3>4
    <3>6. Places(o)[5] = job.bytes
      BY <1>4, <3>5
    <3>7. Places(o)[2] + head.states = Places(o)[4]
      BY <1>4, <2>4, <3>5
    <3>8. \A k \in DOMAIN o : IsPiece(o[k])
      <4>1. start <= end /\ m <= job.file.size /\ end <= job.file.size /\ MdatEnd <= job.file.size
        BY <1>4, <2>5
      <4>2. IsPiece(front) /\ IsPiece(head) /\ IsPiece(content) /\ IsPiece(last)
        BY <1>4, <2>4, <4>1 DEF IsPiece
      <4>3. QED
        BY <3>3, <4>2
    <3>9. \A k \in DOMAIN o : o[k].src = "file" /\ (k = 1 \/ o[k].from = start) => o[k].from = Places(o)[k]
      <4>1. MdatEnd # start
        BY <1>4, <2>5
      <4>2. QED
        BY <2>4, <3>3, <3>5, <4>1
    <3>10. \A k \in DOMAIN o : o[k].src = "new" => k = 2
      BY <2>4, <3>3
    <3>11. \A i \in 3 .. 3 : o[i].from = start
      BY <2>4, <3>3
    <3>12. \A k \in DOMAIN o : o[k].src = "new" =>
              \E j \in k + 1 .. Len(o) + 1 :
                 /\ Places(o)[k] + o[k].states = Places(o)[j]
                 /\ \A i \in k + 1 .. j - 1 : o[i].from = start \/ o[i].src = "index"
      <4>1. SUFFICES \E j \in 2 + 1 .. Len(o) + 1 :
                 /\ Places(o)[2] + o[2].states = Places(o)[j]
                 /\ \A i \in 2 + 1 .. j - 1 : o[i].from = start \/ o[i].src = "index"
        BY <3>10
      <4>2. 4 \in 2 + 1 .. Len(o) + 1 /\ 2 + 1 .. 4 - 1 = 3 .. 3
        BY <3>3
      <4>3. QED
        BY <3>3, <3>7, <3>11, <4>2
    <3>13. RebuiltFilesLead'
      <4>1. ContentStart(mdat)' = start /\ (\A k : Place(k)' = Places(o)[k]) /\ Total' = Places(o)[5]
        <5>1. Total' = Places(o)[Len(o) + 1]
          BY DEF Total, Place, o
        <5>2. Len(o) + 1 = 5
          BY <3>3
        <5>3. QED
          BY <1>1, <5>1, <5>2 DEF Place, start, o, ContentStart
      <4>2. (Last(out).from <= atom.start)' = (MdatEnd <= atom.start) /\ Last(out)'.to = job.file.size
        BY <1>1, <2>4, <3>3 DEF o
      <4>3. QED
        BY <1>1, <1>2, <3>6, <3>9, <3>12, <4>1, <4>2 DEF RebuiltFilesLead, o
    <3>14. QED
      <4>1. \A k \in DOMAIN out' : IsPiece(out[k])'
        BY <1>1, <3>8 DEF o, IsPiece
      <4>2. QED
        BY <1>1, <1>2, <2>1, <3>13, <4>1, WrittenOnce
  <2>6. CASE ~(end - start > 0)
    <3>1. pieces = <<head>>
      BY <1>2, <2>3, <2>6, PiecesAre
    <3>2. end = start
      BY <1>3, <2>3, <2>6
    <3> HIDE DEF pieces, front, head, content, last, m, start, end, hd
    <3>3. o = <<front, head, last>>
      <4>1. <<front>> \o pieces = <<front, head>>
        BY <3>1, TuplesJoin
      <4>2. <<front, head>> \o <<last>> = <<front, head, last>>
        BY TuplesJoin
      <4>3. QED
        BY <2>1, <4>1, <4>2
    <3> HIDE DEF o
    <3>4. Len(o) = 3 /\ DOMAIN o = 1 .. 3 /\ o[1] = front /\ o[2] = head /\ o[3] = last /\ Last(o) = last
      BY <3>3, ThreePieces
    <3>5. /\ Places(o)[1] = 0
          /\ Places(o)[2] = Places(o)[1] + Size(front)
          /\ Places(o)[3] = Places(o)[2] + Size(head)
          /\ Places(o)[4] = Places(o)[3] + Size(last)
      BY <3>3, ThreePieces
    <3>6. /\ Places(o)[1] = 0 /\ Places(o)[2] = m /\ Places(o)[3] = start
          /\ Places(o)[4] = start + (job.file.size - MdatEnd)
      BY <1>4, <2>4, <3>5
    <3>7. Places(o)[4] = job.bytes
      BY <1>4, <3>2, <3>6
    <3>8. Places(o)[2] + head.states = Places(o)[3]
      BY <1>4, <2>4, <3>2, <3>6
    <3>9. \A k \in DOMAIN o : IsPiece(o[k])
      <4>1. m <= job.file.size /\ MdatEnd <= job.file.size
        BY <1>4, <3>2
      <4>2. IsPiece(front) /\ IsPiece(head) /\ IsPiece(last)
        BY <1>4, <2>4, <4>1 DEF IsPiece
      <4>3. QED
        BY <3>4, <4>2
    <3>10. \A k \in DOMAIN o : o[k].src = "file" /\ (k = 1 \/ o[k].from = start) => o[k].from = Places(o)[k]
      BY <2>4, <3>4, <3>6
    <3>11. \A k \in DOMAIN o : o[k].src = "new" =>
              \E j \in k + 1 .. Len(o) + 1 :
                 /\ Places(o)[k] + o[k].states = Places(o)[j]
                 /\ \A i \in k + 1 .. j - 1 : o[i].from = start \/ o[i].src = "index"
      <4>1. \A k \in DOMAIN o : o[k].src = "new" => k = 2
        BY <2>4, <3>4
      <4>2. SUFFICES \E j \in 2 + 1 .. Len(o) + 1 :
                 /\ Places(o)[2] + o[2].states = Places(o)[j]
                 /\ \A i \in 2 + 1 .. j - 1 : o[i].from = start \/ o[i].src = "index"
        BY <4>1
      <4>3. 3 \in 2 + 1 .. Len(o) + 1 /\ 2 + 1 .. 3 - 1 = {}
        BY <3>4
      <4>4. QED
        BY <3>4, <3>8, <4>3
    <3>12. RebuiltFilesLead'
      <4>1. ContentStart(mdat)' = start /\ (\A k : Place(k)' = Places(o)[k]) /\ Total' = Places(o)[4]
        <5>1. Total' = Places(o)[Len(o) + 1]
          BY DEF Total, Place, o
        <5>2. Len(o) + 1 = 4
          BY <3>4
        <5>3. QED
          BY <1>1, <5>1, <5>2 DEF Place, start, o, ContentStart
      <4>2. (Last(out).from <= atom.start)' = (MdatEnd <= atom.start) /\ Last(out)'.to = job.file.size
        BY <1>1, <2>4, <3>4 DEF o
      <4>3. QED
        BY <1>1, <1>2, <3>7, <3>10, <3>11, <4>1, <4>2 DEF RebuiltFilesLead, o
    <3>13. QED
      <4>1. \A k \in DOMAIN out' : IsPiece(out[k])'
        BY <1>1, <3>9 DEF o, IsPiece
      <4>2. QED
        BY <1>1, <1>2, <2>1, <3>12, <4>1, WrittenOnce
  <2>7. QED
    BY <2>5, <2>6
<1>7. QED
  BY <1>5, <1>6
LEMMA FivePieces ==
    ASSUME NEW a, NEW b, NEW c, NEW d, NEW e
    PROVE  LET s == <<a, b, c, d, e>>
           IN  /\ Len(s) = 5 /\ DOMAIN s = 1 .. 5 /\ s[1] = a /\ s[2] = b /\ s[3] = c /\ s[4] = d /\ s[5] = e /\ Last(s) = e
               /\ Places(s)[1] = 0
               /\ Places(s)[2] = Places(s)[1] + Size(a)
               /\ Places(s)[3] = Places(s)[2] + Size(b)
               /\ Places(s)[4] = Places(s)[3] + Size(c)
               /\ Places(s)[5] = Places(s)[4] + Size(d)
               /\ Places(s)[6] = Places(s)[5] + Size(e)
<1> DEFINE s == <<a, b, c, d, e>>
<1>1. Len(s) = 5 /\ DOMAIN s = 1 .. 5 /\ s[1] = a /\ s[2] = b /\ s[3] = c /\ s[4] = d /\ s[5] = e /\ Last(s) = e
  BY DEF Last
<1> HIDE DEF s
<1>2. /\ Len(s) \in Nat /\ 1 \in 1 .. Len(s) /\ 2 \in 1 .. Len(s) /\ 3 \in 1 .. Len(s) /\ 4 \in 1 .. Len(s) /\ 5 \in 1 .. Len(s)
      /\ 1 + 1 = 2 /\ 2 + 1 = 3 /\ 3 + 1 = 4 /\ 4 + 1 = 5 /\ 5 + 1 = 6
  BY <1>1
<1>3. /\ Places(s)[1] = 0
      /\ Places(s)[2] = Places(s)[1] + Size(s[1])
      /\ Places(s)[3] = Places(s)[2] + Size(s[2])
      /\ Places(s)[4] = Places(s)[3] + Size(s[3])
      /\ Places(s)[5] = Places(s)[4] + Size(s[4])
      /\ Places(s)[6] = Places(s)[5] + Size(s[5])
  BY <1>2, PlacesStep
<1>4. QED
  BY <1>1, <1>3 DEF s

\* A united file is its pieces, those of n and in bytes only if there are some.
IsJoined(o, front, head, content, n, ihead, icontent, in) ==
    o = (IF n > 0 THEN <<front, head, content>> ELSE <<front, head>>)
        \o (IF in > 0 THEN <<ihead, icontent>> ELSE <<ihead>>)

ArePieces(m, start, hs, n, ihs, in, front, head, content, ihead, icontent) ==
    /\ m \in Nat /\ start \in Nat /\ hs \in Nat /\ n \in Nat /\ ihs \in Nat /\ in \in Nat
    /\ front.src \in {"file", "new"} /\ front.from = 0 /\ Size(front) = m
    /\ front.src = "new" => front.states = m
    /\ head.src = "new" /\ Size(head) = hs /\ head.states = n + hs
    /\ content.src = "file" /\ content.from = start /\ Size(content) = n
    /\ ihead.src = "new" /\ Size(ihead) = ihs /\ ihead.states = in + ihs
    /\ icontent.src = "index"
    /\ in > 0 => Size(icontent) = in

IsLed(o, m, hs, start, icontent, pieces) ==
    /\ m + hs = start => \A k \in DOMAIN o : o[k].src = "file" /\ (k = 1 \/ o[k].from = start) => o[k].from = Places(o)[k]
    /\ \A k \in DOMAIN o : o[k].src = "new" =>
          \E j \in k + 1 .. Len(o) + 1 :
             /\ Places(o)[k] + o[k].states = Places(o)[j]
             /\ \A i \in k + 1 .. j - 1 : o[i].from = start \/ o[i].src = "index"
    /\ Last(o).src = "new" \/ Last(o) = icontent
    /\ \A k \in DOMAIN o : o[k] \in pieces

LEMMA JoinedPieces ==
    ASSUME NEW front, NEW head, NEW content, NEW n, NEW ihead, NEW icontent, NEW in, NEW o, NEW S,
           IsJoined(o, front, head, content, n, ihead, icontent, in),
           front \in S, head \in S, ihead \in S, n > 0 => content \in S, in > 0 => icontent \in S
    PROVE  \A k \in DOMAIN o : o[k] \in S
<1> DEFINE l == IF n > 0 THEN <<front, head, content>> ELSE <<front, head>>
           r == IF in > 0 THEN <<ihead, icontent>> ELSE <<ihead>>
<1>1. l \in Seq(S)
  <2>1. CASE n > 0
    BY <2>1
  <2>2. CASE ~(n > 0)
    BY <2>2
  <2>3. QED
    BY <2>1, <2>2
<1>2. r \in Seq(S)
  <2>1. CASE in > 0
    BY <2>1
  <2>2. CASE ~(in > 0)
    BY <2>2
  <2>3. QED
    BY <2>1, <2>2
<1>3. o = l \o r
  BY DEF IsJoined
<1> HIDE DEF l, r
<1>4. o \in Seq(S)
  BY <1>1, <1>2, <1>3, ConcatProperties
<1>5. QED
  BY <1>4

\* Each new piece of a united file leads to what follows its content.
LEMMA UnitedLeads ==
    ASSUME NEW m, NEW start, NEW hs, NEW n, NEW ihs, NEW in,
           NEW front, NEW head, NEW content, NEW ihead, NEW icontent, NEW o,
           ArePieces(m, start, hs, n, ihs, in, front, head, content, ihead, icontent),
           IsJoined(o, front, head, content, n, ihead, icontent, in)
    PROVE  IsLed(o, m, hs, start, icontent, {front, head, content, ihead, icontent})
<1>1. /\ m \in Nat /\ start \in Nat /\ hs \in Nat /\ n \in Nat /\ ihs \in Nat /\ in \in Nat
      /\ front.src \in {"file", "new"} /\ front.from = 0 /\ Size(front) = m
      /\ front.src = "new" => front.states = m
      /\ head.src = "new" /\ Size(head) = hs /\ head.states = n + hs
      /\ content.src = "file" /\ content.from = start /\ Size(content) = n
      /\ ihead.src = "new" /\ Size(ihead) = ihs /\ ihead.states = in + ihs
      /\ icontent.src = "index"
      /\ in > 0 => Size(icontent) = in
  BY DEF ArePieces
<1> USE <1>1
<1>2. CASE n > 0 /\ in > 0
  <2>1. o = <<front, head, content, ihead, icontent>>
    <3>1. <<front, head, content>> \o <<ihead, icontent>> = <<front, head, content, ihead, icontent>>
      BY TuplesJoin
    <3>2. QED
      BY <1>2, <3>1 DEF IsJoined
  <2>2. Len(o) = 5 /\ DOMAIN o = 1 .. 5 /\ o[1] = front /\ o[2] = head /\ o[3] = content /\ o[4] = ihead /\ o[5] = icontent /\ Last(o) = icontent
    BY <2>1, FivePieces
  <2>3. /\ Places(o)[1] = 0
        /\ Places(o)[2] = Places(o)[1] + Size(front)
        /\ Places(o)[3] = Places(o)[2] + Size(head)
        /\ Places(o)[4] = Places(o)[3] + Size(content)
        /\ Places(o)[5] = Places(o)[4] + Size(ihead)
        /\ Places(o)[6] = Places(o)[5] + Size(icontent)
    BY <2>1, FivePieces
  <2>4. Places(o)[1] = 0 /\ Places(o)[2] = m /\ Places(o)[3] = m + hs /\ Places(o)[4] = m + hs + n /\ Places(o)[5] = m + hs + n + ihs /\ Places(o)[6] = m + hs + n + ihs + in
    BY <1>2, <2>3
  <2>6. m + hs = start =>
          \A k \in DOMAIN o : o[k].src = "file" /\ (k = 1 \/ o[k].from = start) => o[k].from = Places(o)[k]
    BY <2>2, <2>4
  <2>7. ASSUME NEW k \in DOMAIN o, o[k].src = "new"
        PROVE  \E j \in k + 1 .. Len(o) + 1 :
                  /\ Places(o)[k] + o[k].states = Places(o)[j]
                  /\ \A i \in k + 1 .. j - 1 : o[i].from = start \/ o[i].src = "index"
    <3>1. k = 1 \/ k = 2 \/ k = 4
      BY <2>2, <2>7
    <3>2. CASE k = 1
      <4>1. 2 \in k + 1 .. Len(o) + 1 /\ k + 1 .. 2 - 1 = {}
        BY <2>2, <3>2
      <4>2. Places(o)[k] + o[k].states = Places(o)[2]
        BY <2>2, <2>4, <2>7, <3>2
      <4>3. QED
        BY <4>1, <4>2
    <3>3. CASE k = 2
      <4>1. 4 \in k + 1 .. Len(o) + 1 /\ k + 1 .. 4 - 1 = {3}
        BY <2>2, <3>3
      <4>2. Places(o)[k] + o[k].states = Places(o)[4]
        BY <2>2, <2>4, <3>3
      <4>3. QED
        BY <2>2, <4>1, <4>2
    <3>4. CASE k = 4
      <4>1. 6 \in k + 1 .. Len(o) + 1 /\ k + 1 .. 6 - 1 = {5}
        BY <2>2, <3>4
      <4>2. Places(o)[k] + o[k].states = Places(o)[6]
        BY <2>2, <2>4, <3>4
      <4>3. QED
        BY <2>2, <4>1, <4>2
    <3>5. QED
      BY <3>1, <3>2, <3>3, <3>4
  <2>8. QED
    BY <2>2, <2>6, <2>7 DEF IsLed
<1>3. CASE n > 0 /\ ~(in > 0)
  <2>1. o = <<front, head, content, ihead>>
    <3>1. <<front, head, content>> \o <<ihead>> = <<front, head, content, ihead>>
      BY TuplesJoin
    <3>2. QED
      BY <1>3, <3>1 DEF IsJoined
  <2>2. Len(o) = 4 /\ DOMAIN o = 1 .. 4 /\ o[1] = front /\ o[2] = head /\ o[3] = content /\ o[4] = ihead /\ Last(o) = ihead
    BY <2>1, FourPieces
  <2>3. /\ Places(o)[1] = 0
        /\ Places(o)[2] = Places(o)[1] + Size(front)
        /\ Places(o)[3] = Places(o)[2] + Size(head)
        /\ Places(o)[4] = Places(o)[3] + Size(content)
        /\ Places(o)[5] = Places(o)[4] + Size(ihead)
    BY <2>1, FourPieces
  <2>4. Places(o)[1] = 0 /\ Places(o)[2] = m /\ Places(o)[3] = m + hs /\ Places(o)[4] = m + hs + n /\ Places(o)[5] = m + hs + n + ihs
    BY <2>3
  <2>5. in = 0
    BY <1>3
  <2>6. m + hs = start =>
          \A k \in DOMAIN o : o[k].src = "file" /\ (k = 1 \/ o[k].from = start) => o[k].from = Places(o)[k]
    BY <2>2, <2>4
  <2>7. ASSUME NEW k \in DOMAIN o, o[k].src = "new"
        PROVE  \E j \in k + 1 .. Len(o) + 1 :
                  /\ Places(o)[k] + o[k].states = Places(o)[j]
                  /\ \A i \in k + 1 .. j - 1 : o[i].from = start \/ o[i].src = "index"
    <3>1. k = 1 \/ k = 2 \/ k = 4
      BY <2>2, <2>7
    <3>2. CASE k = 1
      <4>1. 2 \in k + 1 .. Len(o) + 1 /\ k + 1 .. 2 - 1 = {}
        BY <2>2, <3>2
      <4>2. Places(o)[k] + o[k].states = Places(o)[2]
        BY <2>2, <2>4, <2>7, <3>2
      <4>3. QED
        BY <4>1, <4>2
    <3>3. CASE k = 2
      <4>1. 4 \in k + 1 .. Len(o) + 1 /\ k + 1 .. 4 - 1 = {3}
        BY <2>2, <3>3
      <4>2. Places(o)[k] + o[k].states = Places(o)[4]
        BY <2>2, <2>4, <3>3, <2>5
      <4>3. QED
        BY <2>2, <4>1, <4>2
    <3>4. CASE k = 4
      <4>1. 5 \in k + 1 .. Len(o) + 1 /\ k + 1 .. 5 - 1 = {}
        BY <2>2, <3>4
      <4>2. Places(o)[k] + o[k].states = Places(o)[5]
        BY <2>2, <2>4, <3>4, <2>5
      <4>3. QED
        BY <2>2, <4>1, <4>2
    <3>5. QED
      BY <3>1, <3>2, <3>3, <3>4
  <2>8. QED
    BY <2>2, <2>6, <2>7 DEF IsLed
<1>4. CASE ~(n > 0) /\ in > 0
  <2>1. o = <<front, head, ihead, icontent>>
    <3>1. <<front, head>> \o <<ihead, icontent>> = <<front, head, ihead, icontent>>
      BY TuplesJoin
    <3>2. QED
      BY <1>4, <3>1 DEF IsJoined
  <2>2. Len(o) = 4 /\ DOMAIN o = 1 .. 4 /\ o[1] = front /\ o[2] = head /\ o[3] = ihead /\ o[4] = icontent /\ Last(o) = icontent
    BY <2>1, FourPieces
  <2>3. /\ Places(o)[1] = 0
        /\ Places(o)[2] = Places(o)[1] + Size(front)
        /\ Places(o)[3] = Places(o)[2] + Size(head)
        /\ Places(o)[4] = Places(o)[3] + Size(ihead)
        /\ Places(o)[5] = Places(o)[4] + Size(icontent)
    BY <2>1, FourPieces
  <2>4. Places(o)[1] = 0 /\ Places(o)[2] = m /\ Places(o)[3] = m + hs /\ Places(o)[4] = m + hs + ihs /\ Places(o)[5] = m + hs + ihs + in
    BY <1>4, <2>3
  <2>5. n = 0
    BY <1>4
  <2>6. m + hs = start =>
          \A k \in DOMAIN o : o[k].src = "file" /\ (k = 1 \/ o[k].from = start) => o[k].from = Places(o)[k]
    BY <2>2, <2>4
  <2>7. ASSUME NEW k \in DOMAIN o, o[k].src = "new"
        PROVE  \E j \in k + 1 .. Len(o) + 1 :
                  /\ Places(o)[k] + o[k].states = Places(o)[j]
                  /\ \A i \in k + 1 .. j - 1 : o[i].from = start \/ o[i].src = "index"
    <3>1. k = 1 \/ k = 2 \/ k = 3
      BY <2>2, <2>7
    <3>2. CASE k = 1
      <4>1. 2 \in k + 1 .. Len(o) + 1 /\ k + 1 .. 2 - 1 = {}
        BY <2>2, <3>2
      <4>2. Places(o)[k] + o[k].states = Places(o)[2]
        BY <2>2, <2>4, <2>7, <3>2
      <4>3. QED
        BY <4>1, <4>2
    <3>3. CASE k = 2
      <4>1. 3 \in k + 1 .. Len(o) + 1 /\ k + 1 .. 3 - 1 = {}
        BY <2>2, <3>3
      <4>2. Places(o)[k] + o[k].states = Places(o)[3]
        BY <2>2, <2>4, <3>3, <2>5
      <4>3. QED
        BY <2>2, <4>1, <4>2
    <3>4. CASE k = 3
      <4>1. 5 \in k + 1 .. Len(o) + 1 /\ k + 1 .. 5 - 1 = {4}
        BY <2>2, <3>4
      <4>2. Places(o)[k] + o[k].states = Places(o)[5]
        BY <2>2, <2>4, <3>4, <2>5
      <4>3. QED
        BY <2>2, <4>1, <4>2
    <3>5. QED
      BY <3>1, <3>2, <3>3, <3>4
  <2>8. QED
    BY <2>2, <2>6, <2>7 DEF IsLed
<1>5. CASE ~(n > 0) /\ ~(in > 0)
  <2>1. o = <<front, head, ihead>>
    <3>1. <<front, head>> \o <<ihead>> = <<front, head, ihead>>
      BY TuplesJoin
    <3>2. QED
      BY <1>5, <3>1 DEF IsJoined
  <2>2. Len(o) = 3 /\ DOMAIN o = 1 .. 3 /\ o[1] = front /\ o[2] = head /\ o[3] = ihead /\ Last(o) = ihead
    BY <2>1, ThreePieces
  <2>3. /\ Places(o)[1] = 0
        /\ Places(o)[2] = Places(o)[1] + Size(front)
        /\ Places(o)[3] = Places(o)[2] + Size(head)
        /\ Places(o)[4] = Places(o)[3] + Size(ihead)
    BY <2>1, ThreePieces
  <2>4. Places(o)[1] = 0 /\ Places(o)[2] = m /\ Places(o)[3] = m + hs /\ Places(o)[4] = m + hs + ihs
    BY <2>3
  <2>5. n = 0 /\ in = 0
    BY <1>5
  <2>6. m + hs = start =>
          \A k \in DOMAIN o : o[k].src = "file" /\ (k = 1 \/ o[k].from = start) => o[k].from = Places(o)[k]
    BY <2>2, <2>4
  <2>7. ASSUME NEW k \in DOMAIN o, o[k].src = "new"
        PROVE  \E j \in k + 1 .. Len(o) + 1 :
                  /\ Places(o)[k] + o[k].states = Places(o)[j]
                  /\ \A i \in k + 1 .. j - 1 : o[i].from = start \/ o[i].src = "index"
    <3>1. k = 1 \/ k = 2 \/ k = 3
      BY <2>2, <2>7
    <3>2. CASE k = 1
      <4>1. 2 \in k + 1 .. Len(o) + 1 /\ k + 1 .. 2 - 1 = {}
        BY <2>2, <3>2
      <4>2. Places(o)[k] + o[k].states = Places(o)[2]
        BY <2>2, <2>4, <2>7, <3>2
      <4>3. QED
        BY <4>1, <4>2
    <3>3. CASE k = 2
      <4>1. 3 \in k + 1 .. Len(o) + 1 /\ k + 1 .. 3 - 1 = {}
        BY <2>2, <3>3
      <4>2. Places(o)[k] + o[k].states = Places(o)[3]
        BY <2>2, <2>4, <3>3, <2>5
      <4>3. QED
        BY <2>2, <4>1, <4>2
    <3>4. CASE k = 3
      <4>1. 4 \in k + 1 .. Len(o) + 1 /\ k + 1 .. 4 - 1 = {}
        BY <2>2, <3>4
      <4>2. Places(o)[k] + o[k].states = Places(o)[4]
        BY <2>2, <2>4, <3>4, <2>5
      <4>3. QED
        BY <2>2, <4>1, <4>2
    <3>5. QED
      BY <3>1, <3>2, <3>3, <3>4
  <2>8. QED
    BY <2>2, <2>6, <2>7 DEF IsLed
<1>6. QED
  BY <1>2, <1>3, <1>4, <1>5
LEMMA UniteTypes ==
    ASSUME IInv, pc = "moov", job.op = "unite", ~(Ranged /\ mdat.start < 8)
    PROVE  /\ mdat.start \in Nat /\ mdat.header \in {8, 16} /\ job.file.size \in Nat
           /\ ContentStart(mdat) = mdat.start + mdat.header /\ ContentStart(mdat) <= job.file.size
           /\ LET a == Updated(mdat, job.file.size)
              IN  /\ a.file_end = job.file.size
                  /\ a.length = 8 + (job.file.size - ContentStart(mdat))
                  /\ ContentStart(a) = ContentStart(mdat)
                  /\ ContentSize(a) = job.file.size - ContentStart(mdat)
<1> DEFINE f == job.file
           m == mdat.start
<1>1. job \in Jobs /\ IsFile(f) /\ f.size \in Nat
  BY MoovTypes, JobTypes
<1>2. ContentStart(mdat) = m + mdat.header
  BY DEF ContentStart
<1>3. CASE Ranged
  <2>1. mdat = FromRange /\ ContentSize(FromRange) > 0
    BY <1>3 DEF IInv, FoundInv, InRange
  <2>2. /\ FromRange.start \in Int /\ FromRange.header = 8 /\ ContentStart(FromRange) \in Nat
        /\ RangeEnd \in Int /\ RangeEnd <= f.size /\ RangeEnd > ContentStart(FromRange)
    BY <1>1, <1>3, <2>1, RangeTypes
  <2>3. m \in Nat /\ mdat.header = 8 /\ ContentStart(mdat) <= f.size
    <3>1. m \in Int /\ ~(m < 8) /\ mdat.header = 8
      BY <1>3, <2>1, <2>2
    <3>2. ContentStart(FromRange) <= f.size
      BY <1>1, <2>2
    <3>3. QED
      BY <2>1, <3>1, <3>2
  <2> DEFINE range == [NewAtom EXCEPT !.start = job.range[1] - 8, !.name = "mdat"]
  <2>4. mdat = WithEnd(range, RangeEnd)
    BY <2>1 DEF FromRange
  <2>5. ContentStart(range) = ContentStart(mdat)
    <3> HIDE DEF range
    <3>1. mdat.start = range.start /\ mdat.header = range.header
      BY <2>4, NewAtomFields
    <3>2. QED
      BY <3>1 DEF ContentStart
  <2> HIDE DEF range
  <2>6. LET a == Updated(mdat, f.size)
        IN  /\ a.file_end = f.size
            /\ a.length = 8 + f.size - ContentStart(range)
            /\ ContentStart(a) = ContentStart(range)
            /\ ContentSize(a) = f.size - ContentStart(range)
    BY <2>4, UpdatedAtom
  <2>7. QED
    BY <1>1, <1>2, <2>3, <2>5, <2>6
<1>4. CASE ~ Ranged
  <2> DEFINE h == HeaderAt(f, m)
  <2>1. m \in DOMAIN f.heads /\ mdat = WithEnd(h, f.size)
    BY <1>4 DEF IInv, FoundInv, InRange
  <2>2. m \in Nat /\ h.start = m /\ h.header \in {8, 16} /\ m + h.header <= f.size
    BY <1>1, <2>1, HeaderTypes
  <2>3. mdat.header = h.header
    <3>1. mdat = WithEnd(h, f.size)
      BY <2>1
    <3> HIDE DEF h, m
    <3>2. mdat.header = WithEnd(h, f.size).header
      BY <3>1
    <3>3. QED
      BY <3>2, NewAtomFields
  <2>4. ContentStart(h) = ContentStart(mdat)
    BY <2>2, <2>3 DEF ContentStart
  <2> HIDE DEF h
  <2>5. LET a == Updated(mdat, f.size)
        IN  /\ a.file_end = f.size
            /\ a.length = 8 + f.size - ContentStart(h)
            /\ ContentStart(a) = ContentStart(h)
            /\ ContentSize(a) = f.size - ContentStart(h)
    <3>1. mdat = WithEnd(h, f.size)
      BY <2>1
    <3> HIDE DEF m
    <3>2. QED
      BY <3>1, UpdatedAtom
  <2>6. QED
    BY <1>1, <1>2, <2>2, <2>3, <2>4, <2>5
<1>5. QED
  BY <1>3, <1>4

LEMMA IndexTypes ==
    ASSUME IInv, pc = "moov", job.op = "unite", atom.name = "moov"
    PROVE  /\ atom.start \in Nat /\ atom.length \in Nat /\ atom.header \in {8, 16}
           /\ LET a == WithEnd(atom, atom.start + atom.length)
              IN  /\ a.length = atom.length /\ a.file_end = atom.start + atom.length
                  /\ ContentStart(a) = ContentStart(atom) /\ ContentStart(atom) = atom.start + atom.header
                  /\ ContentSize(a) = atom.length - atom.header
<1>1. IsFile(MoovFile) /\ OnPath(MoovFile, "moov", atom)
  BY JobTypes DEF IInv, WalkInv
<1>2. IsHeader(MoovFile, atom)
  BY <1>1, NewAtomFields DEF OnPath
<1>3. atom.start \in Nat /\ atom.length \in Nat /\ atom.header \in {8, 16}
  BY <1>1, <1>2, HeaderTypes DEF IsHeader
<1> DEFINE a == WithEnd(atom, atom.start + atom.length)
<1>4. a.start = atom.start /\ a.header = atom.header /\ a.length = atom.length /\ a.file_end = atom.start + atom.length
  BY NewAtomFields
<1> HIDE DEF a
<1>5. ContentStart(a) = atom.start + atom.header /\ ContentStart(atom) = atom.start + atom.header
  BY <1>4 DEF ContentStart
<1>6. ContentSize(a) = (atom.start + atom.length) - (atom.start + atom.header)
  BY <1>4, <1>5 DEF ContentSize
<1>7. ContentSize(a) = atom.length - atom.header
  BY <1>3, <1>6
<1>8. QED
  BY <1>3, <1>4, <1>5, <1>7 DEF a

LEMMA UniteKeeps ==
    ASSUME IInv, Unite
    PROVE  IInv'
<1>1. /\ pc = "moov" /\ job.op = "unite" /\ atom.name = "moov"
      /\ job' = job /\ atom' = atom /\ mdat' = mdat
      /\ \/ pc' \in {"failed", "aborted"} /\ out' = out
         \/ ~(Ranged /\ mdat.start < 8) /\ IsAsStated(Index) /\ pc' = "done" /\ out' = United \o Index
  BY DEF Unite
<1>2. CASE pc' # "done"
  BY <1>1, <1>2, StopsInMoov
<1>3. CASE pc' = "done"
  <2> DEFINE f == job.file
             m == mdat.start
             start == ContentStart(mdat)
             a == Updated(mdat, f.size)
             force_64 == mdat.header > 8
             hs == HeaderSize(a, force_64)
             n == f.size - start
             front == IF Ranged THEN New(m, m) ELSE Bytes("file", 0, m)
             head == HeaderPiece(a, force_64)
             content == Bytes("file", start, f.size)
             i == WithEnd(atom, atom.start + atom.length)
             ihs == HeaderSize(i, FALSE)
             istart == ContentStart(atom)
             iend == atom.start + atom.length
             in == IF ContentSize(i) > 0 THEN ContentSize(i) ELSE 0
             ihead == HeaderPiece(i, FALSE)
             icontent == Bytes("index", istart, iend)
             o == out'
  <2>1. ~(Ranged /\ m < 8) /\ IsAsStated(Index) /\ o = United \o Index
    BY <1>1, <1>3
  <2>2. /\ m \in Nat /\ mdat.header \in {8, 16} /\ f.size \in Nat
        /\ start = m + mdat.header /\ start <= f.size
        /\ a.file_end = f.size /\ a.length = 8 + (f.size - start)
        /\ ContentStart(a) = start /\ ContentSize(a) = n
    BY <1>1, <2>1, UniteTypes
  <2>3. /\ atom.start \in Nat /\ atom.length \in Nat /\ atom.header \in {8, 16}
        /\ i.length = atom.length /\ i.file_end = iend
        /\ ContentStart(i) = istart /\ istart = atom.start + atom.header
        /\ ContentSize(i) = atom.length - atom.header
    BY <1>1, IndexTypes
  <2>4. hs \in {8, 16} /\ ihs \in {8, 16}
    BY HeaderSizes
  <2>5. i.length - 8 = in
    <3>1. Index = Pieces("index", i, FALSE)
      BY DEF Index
    <3>2. i.length \in Int /\ ContentSize(i) \in Int /\ ContentSize(i) = i.file_end - ContentStart(i)
      BY <2>3 DEF ContentSize
    <3>3. QED
      BY <2>1, <3>1, <3>2, StatedAsWritten
  <2>6. start \in Nat /\ n \in Nat /\ in \in Nat /\ istart \in Nat /\ iend \in Nat /\ m + mdat.header = start
    BY <2>2, <2>3
  <2>7. a.length - 8 = n
    <3> HIDE DEF f, start, a
    <3>1. QED
      BY <2>2
  <2>8. /\ front.src \in {"file", "new"} /\ front.from = 0 /\ front.to = m /\ Size(front) = m
        /\ front.src = "new" => front.states = m
    <3>1. New(m, m).src = "new" /\ New(m, m).from = 0 /\ New(m, m).to = m /\ New(m, m).states = m /\ Size(New(m, m)) = m
      BY <2>2, SizesOfPieces
    <3>2. Bytes("file", 0, m).src = "file" /\ Bytes("file", 0, m).from = 0 /\ Bytes("file", 0, m).to = m /\ Size(Bytes("file", 0, m)) = m - 0
      BY SizesOfPieces
    <3>3. m - 0 = m
      BY <2>2
    <3>4. QED
      BY <3>1, <3>2, <3>3
  <2>9. /\ head.src = "new" /\ head.from = 0 /\ head.to = hs /\ Size(head) = hs /\ head.states = n + hs
        /\ content.src = "file" /\ content.from = start /\ content.to = f.size /\ Size(content) = n
    <3>1. head = New(hs, a.length - 8 + hs)
      BY DEF HeaderPiece
    <3> HIDE DEF a, hs, f, start
    <3>2. head.src = "new" /\ head.from = 0 /\ head.to = hs /\ Size(head) = hs /\ head.states = a.length - 8 + hs
      <4> HIDE DEF head
      <4>1. QED
        BY <2>4, <3>1, SizesOfPieces
    <3>3. content.src = "file" /\ content.from = start /\ content.to = f.size /\ Size(content) = n
      BY SizesOfPieces
    <3>4. QED
      BY <2>7, <3>2, <3>3
  <2>10. /\ ihead.src = "new" /\ ihead.from = 0 /\ ihead.to = ihs /\ Size(ihead) = ihs /\ ihead.states = in + ihs
         /\ icontent.src = "index" /\ icontent.from = istart /\ icontent.to = iend
         /\ in > 0 => Size(icontent) = in
    <3>1. ihead = New(ihs, i.length - 8 + ihs)
      BY DEF HeaderPiece
    <3>2. ihead.src = "new" /\ ihead.from = 0 /\ ihead.to = ihs /\ Size(ihead) = ihs /\ ihead.states = i.length - 8 + ihs
      <4> HIDE DEF i, ihead, ihs
      <4>1. QED
        BY <2>4, <3>1, SizesOfPieces
    <3>3. icontent.src = "index" /\ icontent.from = istart /\ icontent.to = iend /\ Size(icontent) = iend - istart
      BY SizesOfPieces
    <3>4. in > 0 => iend - istart = in
      BY <2>3
    <3> HIDE DEF i, ihs, ihead, icontent, istart, iend, in
    <3>5. QED
      BY <2>5, <3>2, <3>3, <3>4
  <2>11. IsJoined(o, front, head, content, n, ihead, icontent, in)
    <3>1. United = <<front>> \o Pieces("file", a, force_64)
      BY DEF United
    <3>2. Pieces("file", a, force_64) = IF n > 0 THEN <<head, content>> ELSE <<head>>
      <4> HIDE DEF a, force_64
      <4>1. QED
        BY <2>2, PiecesAre
    <3>3. <<front>> \o <<head, content>> = <<front, head, content>> /\ <<front>> \o <<head>> = <<front, head>>
      BY TuplesJoin
    <3>4. United = IF n > 0 THEN <<front, head, content>> ELSE <<front, head>>
      <4> HIDE DEF n, front, head, content, a, force_64
      <4>1. QED
        BY <3>1, <3>2, <3>3
    <3>5. Index = IF in > 0 THEN <<ihead, icontent>> ELSE <<ihead>>
      <4>1. Index = Pieces("index", i, FALSE) /\ (in > 0 <=> ContentSize(i) > 0)
        BY DEF Index
      <4> HIDE DEF i, in
      <4>2. QED
        BY <2>3, <4>1, PiecesAre
    <3> HIDE DEF n, in, front, head, content, ihead, icontent
    <3>6. QED
      BY <2>1, <3>4, <3>5 DEF IsJoined
  <2>12. ~ Grows => hs = mdat.header
    <3>1. mdat.header = 16 => hs = 16
      BY DEF HeaderSize
    <3>2. mdat.header = 8 /\ ~(a.length > Limit) => hs = 8
      BY DEF HeaderSize
    <3>3. ~ Grows /\ mdat.header = 8 => ~(a.length > Limit)
      BY <1>1 DEF Grows
    <3>4. QED
      BY <2>2, <3>1, <3>2, <3>3
  <2> HIDE DEF f, m, a, force_64, hs, front, head, content, i, ihs, istart, iend, ihead, icontent, o, start, in, n
  <2>13. IsLed(o, m, hs, start, icontent, {front, head, content, ihead, icontent})
    <3>1. hs \in Nat /\ ihs \in Nat
      BY <2>4
    <3>2. QED
      <4>1. m \in Nat /\ start \in Nat /\ n \in Nat /\ in \in Nat
        BY <2>2, <2>6
      <4>2. /\ front.src \in {"file", "new"} /\ front.from = 0 /\ Size(front) = m
            /\ front.src = "new" => front.states = m
        BY <2>8
      <4>3. /\ head.src = "new" /\ Size(head) = hs /\ head.states = n + hs
            /\ content.src = "file" /\ content.from = start /\ Size(content) = n
        BY <2>9
      <4>4. /\ ihead.src = "new" /\ Size(ihead) = ihs /\ ihead.states = in + ihs
            /\ icontent.src = "index" /\ (in > 0 => Size(icontent) = in)
        BY <2>10
      <4>5. QED
        <5>1. ArePieces(m, start, hs, n, ihs, in, front, head, content, ihead, icontent)
          BY <3>1, <4>1, <4>2, <4>3, <4>4 DEF ArePieces
        <5>2. QED
          BY <2>11, <5>1, UnitedLeads
  <2>14. \A k \in DOMAIN out' : IsPiece(out[k])'
    <3> DEFINE S == {p \in {front, head, content, ihead, icontent} : IsPiece(p)}
    <3>1. m <= f.size /\ start <= f.size
      BY <2>2, <2>6
    <3>2. front.from \in Nat /\ front.to \in Nat /\ front.from <= front.to /\ front.to <= f.size
      BY <2>2, <2>8, <3>1
    <3>3. head.from \in Nat /\ head.to \in Nat /\ head.from <= head.to /\ head.src = "new"
      BY <2>4, <2>9
    <3>4. content.from \in Nat /\ content.to \in Nat /\ content.from <= content.to /\ content.to <= f.size
      BY <2>2, <2>6, <2>9, <3>1
    <3>5. ihead.from \in Nat /\ ihead.to \in Nat /\ ihead.from <= ihead.to /\ ihead.src = "new"
      BY <2>4, <2>10
    <3>6. in > 0 => icontent.from \in Nat /\ icontent.to \in Nat /\ icontent.from <= icontent.to /\ icontent.src = "index"
      <4>1. in > 0 => istart <= iend
        BY <2>6, <2>10 DEF Size
      <4>2. QED
        BY <2>6, <2>10, <4>1
    <3>7. IsPiece(front) /\ IsPiece(head) /\ IsPiece(content) /\ IsPiece(ihead) /\ (in > 0 => IsPiece(icontent))
      BY <3>2, <3>3, <3>4, <3>5, <3>6 DEF IsPiece, f
    <3>8. \A k \in DOMAIN o : o[k] \in S
      <4>1. front \in S /\ head \in S /\ content \in S /\ ihead \in S /\ (in > 0 => icontent \in S)
        BY <3>7
      <4> HIDE DEF S
      <4>2. QED
        BY <2>11, <4>1, JoinedPieces
    <3>9. QED
      BY <1>1, <3>8 DEF o, IsPiece
  <2>15. RebuiltFilesLead'
    <3>1. ContentStart(mdat)' = start /\ (\A k : Place(k)' = Places(o)[k]) /\ Grows' = Grows
      BY <1>1 DEF Place, start, o, ContentStart, Grows, Updated
    <3>2. icontent = Bytes("index", ContentStart(atom), atom.start + atom.length)
      BY DEF icontent, istart, iend
    <3>3. ~ Grows => m + hs = start
      BY <2>6, <2>12
    <3>4. ContentStart(atom)' = ContentStart(atom)
      BY <1>1 DEF ContentStart
    <3>5. QED
      BY <1>1, <1>3, <2>13, <3>1, <3>2, <3>3, <3>4 DEF RebuiltFilesLead, IsLed, o
  <2>16. QED
    BY <1>1, <1>3, <2>14, <2>15, WrittenOnce
<1>4. QED
  BY <1>2, <1>3

-----------------------------------------------------------------------------
(* The theorems                                                            *)

LEMMA InitHolds ==
    ASSUME Init
    PROVE  IInv
<1>1. /\ job \in Jobs /\ pc = "begin" /\ atom = NewAtom /\ mdat = WithEnd(NewAtom, 0) /\ out = <<>>
  BY DEF Init
<1>2. atom.start = -8 /\ mdat.start >= -8 /\ mdat.file_end \in 0 .. job.file.size
  <2>1. atom.start = -8 /\ mdat.start = -8 /\ mdat.file_end = 0 /\ job.file.size \in Nat
    BY <1>1, NewAtomFields, JobTypes
  <2>2. QED
    BY <2>1
<1>3. TypeOK
  BY <1>1, <1>2 DEF TypeOK
<1>4. WalkInv /\ FoundInv /\ FindsRootMdat /\ RebuiltFilesLead
  BY <1>1 DEF WalkInv, FoundInv, FindsRootMdat, SearchedMdat, RebuiltFilesLead
<1>5. QED
  BY <1>1, <1>3, <1>4 DEF IInv

LEMMA NextKeeps ==
    ASSUME IInv, [Next]_vars
    PROVE  IInv'
<1>1. CASE UNCHANGED vars
  <2>1. job' = job /\ pc' = pc /\ atom' = atom /\ mdat' = mdat /\ out' = out
    BY <1>1 DEF vars
  <2>2. TypeOK' /\ WalkInv' /\ FoundInv'
    BY <2>1, JobStays DEF IInv, TypeOK, IsPiece, WalkInv, FoundInv
  <2>3. FindsRootMdat'
    BY <2>1, JobStays DEF IInv, FindsRootMdat, SearchedMdat
  <2>4. RebuiltFilesLead'
    <3>1. Total' = Total /\ Grows' = Grows /\ (\A k : Place(k)' = Place(k))
      BY <2>1 DEF Total, Place, Grows, Updated, ContentStart
    <3>2. QED
      BY <2>1, <3>1 DEF IInv, RebuiltFilesLead
  <2>5. QED
    BY <2>1, <2>2, <2>3, <2>4 DEF IInv
<1>2. CASE SearchMdat
  BY <1>2, SearchMdatKeeps
<1>3. CASE SearchMoov
  BY <1>3, SearchMoovKeeps
<1>4. CASE BeginInRange
  BY <1>4, BeginInRangeKeeps
<1>5. CASE BeginFind
  BY <1>5, BeginFindKeeps
<1>6. CASE EndFind
  BY <1>6, EndFindKeeps
<1>7. CASE BeginShorten
  BY <1>7, BeginShortenKeeps
<1>8. CASE FoundMdat
  BY <1>8, FoundMdatKeeps
<1>9. CASE ShortenPlainly
  BY <1>9, StopsInMoov DEF ShortenPlainly
<1>10. CASE ShortenInMoov
  <2>1. pc = "moov" /\ job.op = "shorten" /\ job' = job /\ atom' = atom /\ mdat' = mdat
    BY <1>10 DEF ShortenInMoov, MoovIsBehind
  <2>2. (pc' = "done" /\ out' = FirstBytes) \/ (pc' = "failed" /\ out' = out)
    BY <1>10 DEF ShortenInMoov
  <2>3. QED
    BY <2>1, <2>2, StopsInMoov
<1>11. CASE ShortenMdat
  BY <1>11, ShortenMdatKeeps
<1>12. CASE BeginUnite
  BY <1>12, BeginUniteKeeps
<1>13. CASE NoMoovToUnite
  BY <1>13, StopsInMoov DEF NoMoovToUnite
<1>14. CASE Unite
  BY <1>14, UniteKeeps
<1>15. CASE Stopped
  BY <1>1, <1>15 DEF Stopped
<1>16. QED
  BY <1>1, <1>2, <1>3, <1>4, <1>5, <1>6, <1>7, <1>8, <1>9, <1>10, <1>11, <1>12, <1>13, <1>14, <1>15 DEF Next

LEMMA Invariance == Spec => []IInv
<1>1. Init => IInv
  BY InitHolds
<1>2. IInv /\ [Next]_vars => IInv'
  BY NextKeeps
<1>3. QED
  BY <1>1, <1>2, PTL DEF Spec

\* The search stands at a header of a file or before it, what is taken for the mdat ends in its
\* file, and each piece that a tool copies from that file lies in it; the index's moov is copied as
\* far as it states (atom.cpp:104-135, mp4_parse.cpp:230-307, mp4_tools.cpp:74-139).
THEOREM SearchTypes == Spec => []TypeOK
<1>1. IInv => TypeOK
  BY DEF IInv
<1>2. QED
  BY <1>1, Invariance, PTL

\* The mdat found is the file's first at its root, when its atoms lead there (atom.cpp:107-133).
THEOREM RootMdatIsFound == Spec => []FindsRootMdat
<1>1. IInv => FindsRootMdat
  BY DEF IInv
<1>2. QED
  BY <1>1, Invariance, PTL

\* The files that shorten and unite write are led through by the headers they write, and have
\* the media data where their moov has them (mp4_tools.cpp:87-104, 121-138).
THEOREM RebuiltFilesAreLed == Spec => []RebuiltFilesLead
<1>1. IInv => RebuiltFilesLead
  BY DEF IInv
<1>2. QED
  BY <1>1, Invariance, PTL
=============================================================================
