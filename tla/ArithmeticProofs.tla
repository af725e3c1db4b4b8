---------------------------- MODULE ArithmeticProofs ----------------------------
(***************************************************************************)
(* The arithmetic the proofs rest on: the epochs of EpochCtx, for every    *)
(* geometry, and sums over finite sets, SumFunctionOnSet of the community  *)
(* module Functions, in which the models add up votes, weights, incomes    *)
(* and rewards: that they are defined, and how they change with the set    *)
(* and the function.  A fact for all finite sets is proved by taking a     *)
(* smallest set that might lack it.                                        *)
(***************************************************************************)
EXTENDS EpochCtx, Integers, Functions, FiniteSetTheorems, TLAPS

-------------------------------------------------------------------------------
(* Epochs. *)

(* Multiplication is monotone (the solver does not use this by itself).    *)
LEMMA MulMono ==
  ASSUME NEW a \in Nat, NEW x \in Nat, NEW y \in Nat, x <= y
  PROVE  a * x <= a * y
<1>1. PICK d \in Nat : y = x + d
  BY y = x + (y - x)
<1>2. a * y = a * x + a * d
  BY <1>1
<1>3. a * d \in Nat /\ a * x \in Nat
  OBVIOUS
<1>. QED  BY <1>2, <1>3

(* ... and strictly so for a positive factor, as in counting whole epochs. *)
LEMMA MulStrict ==
  ASSUME NEW a \in Nat \ {0}, NEW x \in Nat, NEW y \in Nat, x < y
  PROVE  /\ x * a \in Nat
         /\ y * a \in Nat
         /\ x * a < y * a
<1>1. PICK d \in Nat \ {0} : y = x + d
  BY y = x + (y - x)
<1>2. y * a = x * a + d * a
  BY <1>1
<1>3. d * a \in Nat \ {0} /\ x * a \in Nat
  BY <1>1
<1>. QED  BY <1>2, <1>3

(* The quotient is the number of whole multiples below the dividend.       *)
LEMMA DivBounds ==
  ASSUME NEW n \in Nat, NEW a \in Nat \ {0}
  PROVE  /\ n \div a \in Nat
         /\ a * (n \div a) <= n
         /\ n < a * ((n \div a) + 1)
OBVIOUS

(* Dividing twice, as the Go code does, counts blocks of size a * b.       *)
LEMMA DivDivBounds ==
  ASSUME NEW n \in Nat, NEW a \in Nat \ {0}, NEW b \in Nat \ {0}
  PROVE  LET q == (n \div a) \div b
         IN  /\ q \in Nat
             /\ q * (a * b) <= n
             /\ n < (q + 1) * (a * b)
<1> DEFINE m == n \div a
           q == m \div b
<1>1. m \in Nat /\ a * m <= n /\ n < a * (m + 1)
  BY DivBounds
<1>2. q \in Nat /\ b * q <= m /\ m < b * (q + 1)
  <2> HIDE DEF m
  <2> QED  BY <1>1, DivBounds
<1>3. a * (b * q) <= a * m
  <2> HIDE DEF m, q
  <2> QED  BY <1>1, <1>2, MulMono
<1>4. a * (m + 1) <= a * (b * (q + 1))
  <2> HIDE DEF m, q
  <2>1. m + 1 <= b * (q + 1) /\ b * (q + 1) \in Nat
    BY <1>1, <1>2
  <2> QED  BY <2>1, <1>1, MulMono
<1>5. a * (b * q) = q * (a * b) /\ a * (b * (q + 1)) = (q + 1) * (a * b)
  <2> HIDE DEF m, q
  <2> QED  BY <1>2
<1> HIDE DEF m
<1>6. a * m \in Nat /\ a * (m + 1) \in Nat /\ q * (a * b) \in Nat /\ (q + 1) * (a * b) \in Nat
  <2> HIDE DEF q
  <2> QED BY <1>1, <1>2
<1>7. q * (a * b) <= n /\ n < (q + 1) * (a * b)
  <2> HIDE DEF q
  <2> QED  BY <1>1, <1>3, <1>4, <1>5, <1>6
<1> QED  BY <1>2, <1>7 DEF m

-------------------------------------------------------------------------------

(* Epochs are not empty, and the fork falls inside the epoch that is       *)
(* counted as its own, which is not over when the epoch length changes.    *)
LEMMA Geometry ==
  ASSUME ForkIsSafe
  PROVE  /\ EpochLength \in Nat \ {0}
         /\ EpochLengthDardanelles \in Nat \ {0}
         /\ DardanellesEpoch \in Nat \ {0}
         /\ DardanellesEpochHeight \in Nat \ {0}
         /\ DardanellesEpochHeight <= DardanellesHeight
         /\ DardanellesHeight < DardanellesEpochHeight + EpochLength
         /\ DardanellesHeight < DardanellesEpochHeight + EpochLengthDardanelles
<1> USE EpochCtxAssumption
<1>1. EpochLength \in Nat \ {0} /\ EpochLengthDardanelles \in Nat \ {0}
  BY DEF EpochLength, EpochLengthDardanelles
<1> DEFINE q == ((DardanellesHeight - 1) \div NumDelegates) \div NumSubEpochs
<1>2. /\ q \in Nat
      /\ q * EpochLength <= DardanellesHeight - 1
      /\ DardanellesHeight - 1 < (q + 1) * EpochLength
  BY DardanellesHeight - 1 \in Nat, DivDivBounds DEF EpochLength
<1>3. DardanellesEpoch = q + 1
  BY DEF DardanellesEpoch, PreForkEpoch
<1> HIDE DEF q
<1>4. DardanellesEpochHeight = (q * EpochLength) + 1
  BY <1>2, <1>3 DEF DardanellesEpochHeight, PreForkHeight
<1>5. (q + 1) * EpochLength = q * EpochLength + EpochLength
  BY <1>1, <1>2
<1>6. q * EpochLength \in Nat
  BY <1>1, <1>2
<1>7. DardanellesHeight < DardanellesEpochHeight + EpochLength
  BY <1>1, <1>2, <1>4, <1>5, <1>6
<1>8. DardanellesHeight < DardanellesEpochHeight + EpochLengthDardanelles
  <2>1. CASE DardanellesHeight = DardanellesEpochHeight
    BY <1>1, <2>1
  <2>2. CASE NumSubEpochsDardanelles >= NumSubEpochs
    <3>1. EpochLength <= EpochLengthDardanelles
      BY <2>2, MulMono DEF EpochLength, EpochLengthDardanelles
    <3> QED  BY <3>1, <1>7, <1>1, <1>4, <1>6
  <2> QED  BY <2>1, <2>2 DEF ForkIsSafe
<1> QED  BY <1>1, <1>2, <1>3, <1>4, <1>6, <1>7, <1>8

(* Up to the fork, heights are numbered from 1 in epochs of EpochLength.   *)
LEMMA PreForkBounds ==
  ASSUME ForkIsSafe, NEW h \in 1 .. DardanellesHeight
  PROVE  /\ PreForkEpoch(h) \in 1 .. DardanellesEpoch
         /\ PreForkHeight(PreForkEpoch(h)) <= h
         /\ h < PreForkHeight(PreForkEpoch(h) + 1)
<1> USE EpochCtxAssumption, Geometry
<1> DEFINE q == ((h - 1) \div NumDelegates) \div NumSubEpochs
<1>1. /\ q \in Nat
      /\ q * EpochLength <= h - 1
      /\ h - 1 < (q + 1) * EpochLength
  BY h - 1 \in Nat, DivDivBounds DEF EpochLength
<1>2. PreForkEpoch(h) = q + 1
  BY DEF PreForkEpoch
<1> HIDE DEF q
<1>3. PreForkHeight(q + 1) = q * EpochLength + 1
  BY <1>1 DEF PreForkHeight
<1>4. PreForkHeight(q + 1 + 1) = (q + 1) * EpochLength + 1
  BY <1>1 DEF PreForkHeight
<1>5. q + 1 <= DardanellesEpoch
  <2> SUFFICES ASSUME DardanellesEpoch <= q  PROVE FALSE
    BY <1>1
  <2>1. EpochLength * DardanellesEpoch <= EpochLength * q
    BY <1>1, MulMono
  <2>2. DardanellesEpochHeight + EpochLength = EpochLength * DardanellesEpoch + 1
    BY DEF DardanellesEpochHeight, PreForkHeight
  <2>3. EpochLength * q = q * EpochLength /\ q * EpochLength \in Nat
    BY <1>1
  <2> QED  BY <1>1, <2>1, <2>2, <2>3
<1>6. q * EpochLength \in Nat /\ (q + 1) * EpochLength \in Nat
  BY <1>1
<1> QED  BY <1>1, <1>2, <1>3, <1>4, <1>5, <1>6

(* GetEpochHeight yields heights and is strictly increasing.               *)
LEMMA EpochHeightIncreasing ==
  ASSUME ForkIsSafe, NEW e \in Nat \ {0}, NEW f \in Nat, e < f
  PROVE  /\ GetEpochHeight(e) \in Nat \ {0}
         /\ GetEpochHeight(f) \in Nat \ {0}
         /\ GetEpochHeight(e) < GetEpochHeight(f)
<1> USE Geometry
<1> DEFINE d == DardanellesEpoch
<1>1. ASSUME NEW k \in 1 .. d
      PROVE  /\ GetEpochHeight(k) = (k - 1) * EpochLength + 1
             /\ (k - 1) * EpochLength \in Nat
  BY DEF GetEpochHeight, PreForkHeight
<1>2. ASSUME NEW k \in Nat, k > d
      PROVE  /\ GetEpochHeight(k)
                   = DardanellesEpochHeight + (k - d) * EpochLengthDardanelles
             /\ (k - d) * EpochLengthDardanelles \in Nat \ {0}
  <2>1. k - d \in Nat \ {0}
    BY <1>2
  <2>2. (k - d) * EpochLengthDardanelles \in Nat \ {0}
    BY <2>1
  <2> QED  BY <1>2, <2>2 DEF GetEpochHeight
<1>3. CASE f <= d
  <2>1. e \in 1 .. d /\ f \in 1 .. d
    BY <1>3
  <2>2. (e - 1) * EpochLength < (f - 1) * EpochLength
    BY MulStrict, e - 1 \in Nat, f - 1 \in Nat, e - 1 < f - 1
  <2>3. /\ GetEpochHeight(e) = (e - 1) * EpochLength + 1
        /\ (e - 1) * EpochLength \in Nat
        /\ GetEpochHeight(f) = (f - 1) * EpochLength + 1
        /\ (f - 1) * EpochLength \in Nat
    BY <2>1, <1>1
  <2> QED  BY <2>2, <2>3
<1>4. CASE e <= d /\ d < f
  <2>1. EpochLength * (e - 1) <= EpochLength * (d - 1)
    BY <1>4, MulMono, e - 1 \in Nat, d - 1 \in Nat
  <2>2. DardanellesEpochHeight = (d - 1) * EpochLength + 1
    BY DEF DardanellesEpochHeight, PreForkHeight
  <2>3. (d - 1) * EpochLength = EpochLength * (d - 1)
        /\ (e - 1) * EpochLength = EpochLength * (e - 1)
    OBVIOUS
  <2>4. GetEpochHeight(e) <= DardanellesEpochHeight /\ GetEpochHeight(e) \in Nat \ {0}
    <3>1. e \in 1 .. d
      BY <1>4
    <3>2. GetEpochHeight(e) = (e - 1) * EpochLength + 1 /\ (e - 1) * EpochLength \in Nat
      BY <3>1, <1>1
    <3> QED  BY <2>1, <2>2, <2>3, <3>2
  <2> QED  BY <1>2, <1>4, <2>4
<1>5. CASE d < e
  <2>1. f > d /\ e > d
    BY <1>5
  <2>2. (e - d) * EpochLengthDardanelles < (f - d) * EpochLengthDardanelles
    BY <1>5, MulStrict, e - d \in Nat, f - d \in Nat, e - d < f - d
  <2> QED  BY <1>2, <2>1, <2>2
<1> QED  BY <1>3, <1>4, <1>5

-------------------------------------------------------------------------------

(* Every height lies in the epoch GetEpochNumber names: at or after that   *)
(* epoch's first height and before the next one's.                         *)
THEOREM HeightInEpoch ==
  ASSUME ForkIsSafe, NEW h \in Nat \ {0}
  PROVE  /\ GetEpochNumber(h) \in Nat \ {0}
         /\ GetEpochHeight(GetEpochNumber(h)) <= h
         /\ h < GetEpochHeight(GetEpochNumber(h) + 1)
<1> USE EpochCtxAssumption, Geometry
<1> DEFINE d == DardanellesEpoch
           s == DardanellesEpochHeight
           M == EpochLengthDardanelles
<1>1. CASE h <= DardanellesHeight
  <2> DEFINE k == PreForkEpoch(h)
  <2>1. /\ k \in 1 .. d
        /\ PreForkHeight(k) <= h
        /\ h < PreForkHeight(k + 1)
    BY <1>1, PreForkBounds
  <2>2. GetEpochNumber(h) = k
    BY <1>1 DEF GetEpochNumber
  <2> HIDE DEF k
  <2>3. GetEpochHeight(k) = PreForkHeight(k)
    BY <2>1 DEF GetEpochHeight
  <2>4. h < GetEpochHeight(k + 1)
    <3>1. CASE k < d
      BY <2>1, <3>1 DEF GetEpochHeight
    <3>2. CASE k = d
      <4>1. GetEpochHeight(d + 1) = s + (d + 1 - d) * M
        BY DEF GetEpochHeight
      <4> QED  BY <4>1, <3>2, <1>1
    <3> QED  BY <2>1, <3>1, <3>2
  <2> QED  BY <2>1, <2>2, <2>3, <2>4
<1>2. CASE h > DardanellesHeight
  <2> DEFINE q == ((h - s) \div NumDelegates) \div NumSubEpochsDardanelles
  <2>1. /\ q \in Nat
        /\ q * M <= h - s
        /\ h - s < (q + 1) * M
    BY <1>2, h - s \in Nat, DivDivBounds DEF EpochLengthDardanelles
  <2>2. GetEpochNumber(h) = d + q
    BY <1>2 DEF GetEpochNumber
  <2> HIDE DEF q
  <2>3. q * M \in Nat /\ (q + 1) * M \in Nat
    BY <2>1
  <2>4. GetEpochHeight(d + q) <= h
    <3>1. CASE q = 0
      BY <3>1, <1>2 DEF GetEpochHeight, DardanellesEpochHeight
    <3>2. CASE q # 0
      <4>1. GetEpochHeight(d + q) = s + (d + q - d) * M
        BY <3>2, <2>1 DEF GetEpochHeight
      <4>2. d + q - d = q
        BY <2>1
      <4> QED  BY <4>1, <4>2, <2>1, <2>3
    <3> QED  BY <3>1, <3>2
  <2>5. h < GetEpochHeight(d + q + 1)
    <3>1. GetEpochHeight(d + q + 1) = s + (d + q + 1 - d) * M
      BY <2>1 DEF GetEpochHeight
    <3>2. d + q + 1 - d = q + 1
      BY <2>1
    <3> QED  BY <3>1, <3>2, <2>1, <2>3
  <2> QED  BY <2>1, <2>2, <2>4, <2>5
<1> QED  BY <1>1, <1>2

(* A height determines its epoch: the interval it lies in is unique.       *)
LEMMA EpochUnique ==
  ASSUME ForkIsSafe, NEW h \in Nat \ {0}, NEW e \in Nat \ {0},
         GetEpochHeight(e) <= h, h < GetEpochHeight(e + 1)
  PROVE  GetEpochNumber(h) = e
<1> DEFINE k == GetEpochNumber(h)
<1>1. /\ k \in Nat \ {0}
      /\ GetEpochHeight(k) <= h
      /\ h < GetEpochHeight(k + 1)
  BY HeightInEpoch
<1> HIDE DEF k
<1>2. ASSUME NEW a \in Nat \ {0}, NEW b \in Nat \ {0}, a < b,
             h < GetEpochHeight(a + 1), GetEpochHeight(b) <= h
      PROVE  FALSE
  <2>1. /\ GetEpochHeight(a + 1) \in Nat
        /\ GetEpochHeight(b) \in Nat
        /\ a + 1 = b \/ GetEpochHeight(a + 1) < GetEpochHeight(b)
    BY <1>2, EpochHeightIncreasing, a + 1 \in Nat \ {0}
  <2> QED  BY <1>2, <2>1
<1>3. ~ (k < e) /\ ~ (e < k)
  BY <1>1, <1>2
<1>4. k = e
  BY <1>1, <1>3
<1> QED  BY <1>4 DEF k

(* The epoch of an epoch's first height is that epoch.                     *)
THEOREM EpochRoundTrip ==
  ASSUME ForkIsSafe, NEW e \in Nat \ {0}
  PROVE  GetEpochNumber(GetEpochHeight(e)) = e
<1>1. /\ GetEpochHeight(e) \in Nat \ {0}
      /\ GetEpochHeight(e) < GetEpochHeight(e + 1)
  BY EpochHeightIncreasing
<1> QED  BY <1>1, EpochUnique

(* Epoch numbers never decrease along the chain, across the fork included. *)
THEOREM EpochMonotone ==
  ASSUME ForkIsSafe, NEW h \in Nat \ {0}, NEW g \in Nat \ {0}, h <= g
  PROVE  GetEpochNumber(h) <= GetEpochNumber(g)
<1> DEFINE k == GetEpochNumber(h)
           m == GetEpochNumber(g)
<1>1. k \in Nat \ {0} /\ GetEpochHeight(k) <= h
  BY HeightInEpoch
<1>2. m \in Nat \ {0} /\ g < GetEpochHeight(m + 1)
  BY HeightInEpoch
<1> HIDE DEF k, m
<1>3. SUFFICES ASSUME m < k  PROVE FALSE
  BY <1>1, <1>2 DEF k, m
<1>4. /\ GetEpochHeight(m + 1) \in Nat
      /\ GetEpochHeight(k) \in Nat
      /\ m + 1 = k \/ GetEpochHeight(m + 1) < GetEpochHeight(k)
  BY <1>1, <1>2, <1>3, EpochHeightIncreasing, m + 1 \in Nat \ {0}
<1> QED  BY <1>1, <1>2, <1>4

(* The next block is in the same epoch, or it opens the next one: no epoch *)
(* is skipped, none is opened twice, and IsEpochStart recognises exactly   *)
(* the change.                                                             *)
THEOREM EpochStep ==
  ASSUME ForkIsSafe, NEW h \in Nat \ {0}
  PROVE  \/ /\ GetEpochNumber(h + 1) = GetEpochNumber(h)
            /\ ~ IsEpochStart(h + 1)
         \/ /\ GetEpochNumber(h + 1) = GetEpochNumber(h) + 1
            /\ IsEpochStart(h + 1)
<1> DEFINE k == GetEpochNumber(h)
<1>1. /\ k \in Nat \ {0}
      /\ GetEpochHeight(k) <= h
      /\ h < GetEpochHeight(k + 1)
  BY HeightInEpoch
<1> HIDE DEF k
<1>2. GetEpochHeight(k) \in Nat /\ GetEpochHeight(k + 1) \in Nat
  BY <1>1, EpochHeightIncreasing
<1>3. CASE h + 1 < GetEpochHeight(k + 1)
  <2>1. GetEpochNumber(h + 1) = k
    BY <1>1, <1>2, <1>3, EpochUnique
  <2> QED  BY <2>1, <1>1, <1>2 DEF IsEpochStart, k
<1>4. CASE h + 1 = GetEpochHeight(k + 1)
  <2>1. GetEpochNumber(h + 1) = k + 1
    BY <1>1, <1>4, EpochRoundTrip
  <2> QED  BY <2>1, <1>4 DEF IsEpochStart, k
<1> QED  BY <1>1, <1>2, <1>3, <1>4

(* The chain starts with the first block of epoch 1.                       *)
THEOREM FirstEpoch ==
  ASSUME ForkIsSafe
  PROVE  GetEpochNumber(1) = 1 /\ IsEpochStart(1)
<1>1. GetEpochHeight(1) = 1
  BY Geometry DEF GetEpochHeight, PreForkHeight
<1>2. GetEpochNumber(1) = 1
  BY <1>1, EpochRoundTrip
<1> QED  BY <1>1, <1>2 DEF IsEpochStart

(* A Fairbank fork at the start of a post-Dardanelles epoch takes effect   *)
(* exactly at the start of the next one, where the votings protocol looks  *)
(* for it with an equality test (getAllStakingDelegateRewardPortions).     *)
THEOREM FairbankAligned ==
  ASSUME ForkIsSafe, NEW e \in Nat \ {0},
         e >= DardanellesEpoch, FairbankHeight = GetEpochHeight(e)
  PROVE  FairbankEffectiveHeight = GetEpochHeight(e + 1)
<1> DEFINE d == DardanellesEpoch
           s == DardanellesEpochHeight
           M == EpochLengthDardanelles
<1>1. d \in Nat \ {0} /\ s \in Nat \ {0} /\ M \in Nat \ {0}
  BY Geometry
<1>2. s = PreForkHeight(d)
  BY DEF DardanellesEpochHeight
<1>3. GetEpochHeight(e) = s + (e - d) * M
  <2>1. CASE e = d
    BY <1>1, <1>2, <2>1 DEF GetEpochHeight
  <2>2. CASE e # d
    BY <1>1, <2>2 DEF GetEpochHeight
  <2> QED
    BY <2>1, <2>2
<1>4. GetEpochHeight(e + 1) = s + ((e + 1) - d) * M
  BY <1>1 DEF GetEpochHeight
<1>5. ((e + 1) - d) * M = (e - d) * M + M
  BY <1>1
<1> HIDE DEF d, s, M
<1> QED
  BY <1>1, <1>3, <1>4, <1>5 DEF FairbankEffectiveHeight, M

-------------------------------------------------------------------------------
(* Among sets of subsets of a finite set there is a smallest one, and      *)
(* among sets of natural numbers a least one.                              *)
LEMMA SmallestSubset ==
  ASSUME NEW S, IsFiniteSet(S), NEW T, T \subseteq SUBSET S, T # {}
  PROVE  \E X \in T : \A Y \in T : Y \subseteq X => Y = X
<1>1. T \subseteq FiniteSubsetsOf(S)
  BY FS_FiniteSubsetsOfFinite
<1>2. PICK X \in T : \A Y \in T : ~(<<Y, X>> \in StrictSubsetOrdering(S))
  BY <1>1, FS_StrictSubsetOrderingWellFounded, WFMin
<1>3. ASSUME NEW Y \in T, Y \subseteq X, Y # X
      PROVE  FALSE
  BY <1>2, <1>3 DEF StrictSubsetOrdering
<1> QED  BY <1>3

LEMMA LeastNumber ==
  ASSUME NEW T, T \subseteq Nat, T # {}
  PROVE  \E n \in T : \A m \in T : n <= m
<1>1. PICK n \in T : \A m \in T : ~(<<m, n>> \in OpToRel(<, Nat))
  BY NatLessThanWellFounded, WFMin
<1>2. ASSUME NEW m \in T
      PROVE  n <= m
  <2>1. ~(m < n)
    BY <1>1 DEF OpToRel
  <2> QED  BY <2>1
<1> QED  BY <1>2

(* A sum is the last value of the function that adds one element after the *)
(* other, which there is for every finite set.                             *)
ChosenOf(s) == CHOOSE x \in s : TRUE

Solves(g, f, S) ==
  g = [s \in SUBSET S |-> IF s = {} THEN 0 ELSE f[ChosenOf(s)] + g[s \ {ChosenOf(s)}]]

LEMMA SumSolves ==
  ASSUME NEW f, NEW S
  PROVE  SumFunctionOnSet(f, S) = (CHOOSE g : Solves(g, f, S))[S]
BY DEF SumFunctionOnSet, FoldFunctionOnSet, MapThenFoldSet, Solves, ChosenOf

LEMMA SumIsDefined ==
  ASSUME NEW f, NEW S, IsFiniteSet(S)
  PROVE  \E g : Solves(g, f, S)
<1> DEFINE UpTo(n) == {s \in SUBSET S : Cardinality(s) <= n}
           OnUpTo(g, n) == g = [s \in UpTo(n) |->
                                  IF s = {} THEN 0 ELSE f[ChosenOf(s)] + g[s \ {ChosenOf(s)}]]
           Lacks == {n \in Nat : ~ \E g : OnUpTo(g, n)}
<1>1. ASSUME NEW s \in SUBSET S
      PROVE  /\ Cardinality(s) \in Nat /\ Cardinality(s) <= Cardinality(S)
             /\ Cardinality(s) = 0 <=> s = {}
             /\ s # {} => /\ ChosenOf(s) \in s
                         /\ s \ {ChosenOf(s)} \in SUBSET S
                         /\ Cardinality(s \ {ChosenOf(s)}) = Cardinality(s) - 1
  <2>1. IsFiniteSet(s)
    BY FS_Subset
  <2>2. s # {} => ChosenOf(s) \in s
    BY DEF ChosenOf
  <2>3. s # {} => Cardinality(s \ {ChosenOf(s)}) = Cardinality(s) - 1
    BY <2>1, <2>2, FS_RemoveElement
  <2> QED  BY <2>1, <2>2, <2>3, FS_CardinalityType, FS_EmptySet, FS_Subset
<1>2. Lacks = {}
  <2>1. SUFFICES ASSUME Lacks # {}
                 PROVE  FALSE
    OBVIOUS
  <2>2. PICK n \in Lacks : \A m \in Lacks : n <= m
    <3>1. Lacks \subseteq Nat
      OBVIOUS
    <3> HIDE DEF Lacks
    <3> QED  BY <2>1, <3>1, LeastNumber
  <2>3. n # 0
    <3>1. UpTo(0) = {{}}
      <4>1. ASSUME NEW s \in SUBSET S
            PROVE  Cardinality(s) <= 0 <=> s = {}
        <5>1. Cardinality(s) \in Nat /\ (Cardinality(s) = 0 <=> s = {})
          BY <1>1
        <5> QED  BY <5>1
      <4> QED  BY <4>1
    <3> DEFINE g == [s \in UpTo(0) |-> 0]
    <3>2. OnUpTo(g, 0)
      BY <3>1
    <3> QED  BY <3>2
  <2>4. n - 1 \in Nat /\ n - 1 \notin Lacks
    <3>1. n \in Nat /\ n - 1 \in Nat /\ ~(n <= n - 1)
      BY <2>3
    <3> HIDE DEF Lacks
    <3> QED  BY <2>2, <3>1
  <2>5. PICK g : OnUpTo(g, n - 1)
    BY <2>4
  <2> DEFINE h == [s \in UpTo(n) |->
                     IF s = {} THEN 0 ELSE f[ChosenOf(s)] + g[s \ {ChosenOf(s)}]]
  <2>6. ASSUME NEW s \in UpTo(n), s # {}
        PROVE  h[s \ {ChosenOf(s)}] = g[s \ {ChosenOf(s)}]
    <3> DEFINE t == s \ {ChosenOf(s)}
    <3>1. t \in UpTo(n - 1) /\ t \in UpTo(n)
      BY <1>1, <2>4, <2>6
    <3> HIDE DEF t
    <3>2. h[t] = IF t = {} THEN 0 ELSE f[ChosenOf(t)] + g[t \ {ChosenOf(t)}]
      BY <3>1
    <3>3. g[t] = IF t = {} THEN 0 ELSE f[ChosenOf(t)] + g[t \ {ChosenOf(t)}]
      <4> HIDE DEF UpTo
      <4> QED  BY <2>5, <3>1
    <3> QED  BY <3>2, <3>3 DEF t
  <2>7. OnUpTo(h, n)
    <3> HIDE DEF UpTo
    <3> QED  BY <2>6
  <2> QED  BY <2>2, <2>7
<1>3. Cardinality(S) \in Nat
  BY FS_CardinalityType
<1>4. PICK g : OnUpTo(g, Cardinality(S))
  BY <1>2, <1>3
<1>5. UpTo(Cardinality(S)) = SUBSET S
  BY <1>1
<1> QED  BY <1>4, <1>5 DEF Solves

(* There is only one such function, whatever finite set it is defined for. *)
LEMMA SumIsUnique ==
  ASSUME NEW f, NEW S, NEW T \in SUBSET S, IsFiniteSet(S),
         NEW g, Solves(g, f, S), NEW h, Solves(h, f, T)
  PROVE  g[T] = h[T]
<1> DEFINE Differ == {s \in SUBSET T : g[s] # h[s]}
<1>1. SUFFICES ASSUME Differ # {}
               PROVE  FALSE
  OBVIOUS
<1>2. IsFiniteSet(T)
  BY FS_Subset
<1>3. PICK s \in Differ : \A t \in Differ : t \subseteq s => t = s
  <2>1. Differ \subseteq SUBSET T
    OBVIOUS
  <2> HIDE DEF Differ
  <2> QED  BY <1>1, <1>2, <2>1, SmallestSubset
<1>4. /\ g[s] = IF s = {} THEN 0 ELSE f[ChosenOf(s)] + g[s \ {ChosenOf(s)}]
      /\ h[s] = IF s = {} THEN 0 ELSE f[ChosenOf(s)] + h[s \ {ChosenOf(s)}]
  <2>1. s \in SUBSET S /\ s \in SUBSET T
    OBVIOUS
  <2> QED  BY <2>1 DEF Solves
<1>5. s # {} => g[s \ {ChosenOf(s)}] = h[s \ {ChosenOf(s)}]
  BY <1>3 DEF ChosenOf
<1> QED  BY <1>4, <1>5

(* The sum of an empty set is zero; otherwise it is that of the chosen     *)
(* element and the rest.                                                   *)
LEMMA SumUnfolds ==
  ASSUME NEW f, NEW S, IsFiniteSet(S)
  PROVE  SumFunctionOnSet(f, S) =
           IF S = {} THEN 0 ELSE f[ChosenOf(S)] + SumFunctionOnSet(f, S \ {ChosenOf(S)})
<1> DEFINE g == CHOOSE g : Solves(g, f, S)
           T == S \ {ChosenOf(S)}
           h == CHOOSE h : Solves(h, f, T)
<1>1. Solves(g, f, S)
  BY SumIsDefined
<1>2. IsFiniteSet(T) /\ T \in SUBSET S
  BY FS_Subset
<1>3. Solves(h, f, T)
  <2> HIDE DEF T
  <2> QED  BY <1>2, SumIsDefined
<1>4. SumFunctionOnSet(f, S) = g[S] /\ SumFunctionOnSet(f, T) = h[T]
  BY SumSolves
<1>5. g[T] = h[T]
  <2> HIDE DEF g, T, h
  <2> QED  BY <1>1, <1>2, <1>3, SumIsUnique
<1>6. g[S] = IF S = {} THEN 0 ELSE f[ChosenOf(S)] + g[T]
  <2> HIDE DEF g
  <2> QED  BY <1>1 DEF Solves
<1> QED  BY <1>4, <1>5, <1>6

-------------------------------------------------------------------------------
(* What holds of the empty set and is kept by adding an element holds of   *)
(* a finite set; Good is the set of the subsets of which it holds.         *)
LEMMA SubsetInduction ==
  ASSUME NEW S, IsFiniteSet(S), NEW Good, {} \in Good,
         \A X \in SUBSET S : \A x \in S : X \in Good /\ x \notin X => X \cup {x} \in Good
  PROVE  S \in Good
<1> DEFINE Bad == {X \in SUBSET S : X \notin Good}
<1>1. SUFFICES ASSUME Bad # {}
               PROVE  FALSE
  OBVIOUS
<1>2. PICK X \in Bad : \A Y \in Bad : Y \subseteq X => Y = X
  <2>1. Bad \subseteq SUBSET S
    OBVIOUS
  <2> HIDE DEF Bad
  <2> QED  BY <1>1, <2>1, SmallestSubset
<1>3. PICK x \in X : TRUE
  BY <1>2
<1>4. X \ {x} \in Good /\ X \ {x} \in SUBSET S
  BY <1>2
<1>5. (X \ {x}) \cup {x} = X
  OBVIOUS
<1> QED  BY <1>3, <1>4, <1>5

LEMMA SumEmpty ==
  ASSUME NEW f
  PROVE  SumFunctionOnSet(f, {}) = 0
BY SumUnfolds, FS_EmptySet

(* A sum is that of any element and the rest, not only of the chosen one.  *)
LEMMA SumOfInts ==
  ASSUME NEW f, NEW S, IsFiniteSet(S), \A x \in S : f[x] \in Int
  PROVE  /\ SumFunctionOnSet(f, S) \in Int
         /\ \A x \in S : SumFunctionOnSet(f, S) = f[x] + SumFunctionOnSet(f, S \ {x})
<1> DEFINE s(X) == SumFunctionOnSet(f, X)
           Good == {X \in SUBSET S : s(X) \in Int /\ \A x \in X : s(X) = f[x] + s(X \ {x})}
           Bad == {X \in SUBSET S : X \notin Good}
<1>1. SUFFICES ASSUME Bad # {}
               PROVE  FALSE
  OBVIOUS
<1>2. PICK X \in Bad : \A Y \in Bad : Y \subseteq X => Y = X
  <2>1. Bad \subseteq SUBSET S
    OBVIOUS
  <2> HIDE DEF Bad
  <2> QED  BY <1>1, <2>1, SmallestSubset
<1>3. s(X) = IF X = {} THEN 0 ELSE f[ChosenOf(X)] + s(X \ {ChosenOf(X)})
  <2>1. IsFiniteSet(X)
    BY FS_Subset
  <2> QED  BY <2>1, SumUnfolds
<1> HIDE DEF s
<1>4. X # {}
  BY <1>3
<1> DEFINE c == ChosenOf(X)
<1>5. c \in X
  BY <1>4 DEF ChosenOf
<1> HIDE DEF c
<1>6. ASSUME NEW Y \in SUBSET X, Y # X
      PROVE  s(Y) \in Int /\ \A x \in Y : s(Y) = f[x] + s(Y \ {x})
  <2>1. Y \in Good
    BY <1>2, <1>6
  <2> QED  BY <2>1
<1>7. s(X) = f[c] + s(X \ {c}) /\ s(X \ {c}) \in Int /\ f[c] \in Int
  <2>1. X \ {c} \in SUBSET X /\ X \ {c} # X
    BY <1>5
  <2> QED  BY <1>3, <1>4, <1>5, <1>6, <2>1 DEF c
<1>8. ASSUME NEW x \in X
      PROVE  s(X) = f[x] + s(X \ {x})
  <2>1. CASE x = c
    BY <2>1, <1>7
  <2>2. CASE x # c
    <3> DEFINE Z == (X \ {c}) \ {x}
    <3>1. /\ X \ {c} \in SUBSET X /\ X \ {c} # X /\ x \in X \ {c}
          /\ X \ {x} \in SUBSET X /\ X \ {x} # X /\ c \in X \ {x}
          /\ (X \ {x}) \ {c} = Z
          /\ Z \in SUBSET X /\ Z # X
      BY <1>5, <2>2
    <3> HIDE DEF Z
    <3>2. s(X \ {c}) = f[x] + s(Z)
      BY <1>6, <3>1 DEF Z
    <3>3. s(X \ {x}) = f[c] + s(Z)
      BY <1>6, <3>1
    <3>4. s(Z) \in Int /\ f[x] \in Int
      BY <1>6, <3>1
    <3> QED  BY <1>7, <3>2, <3>3, <3>4
  <2> QED  BY <2>1, <2>2
<1>9. s(X) \in Int
  BY <1>7
<1> QED  BY <1>8, <1>9

LEMMA SumAdds ==
  ASSUME NEW f, NEW S, IsFiniteSet(S), NEW y, y \notin S,
         \A x \in S \cup {y} : f[x] \in Int
  PROVE  SumFunctionOnSet(f, S \cup {y}) = f[y] + SumFunctionOnSet(f, S)
<1>1. IsFiniteSet(S \cup {y})
  BY FS_AddElement
<1>2. (S \cup {y}) \ {y} = S /\ y \in S \cup {y}
  OBVIOUS
<1> QED  BY <1>1, <1>2, SumOfInts

(* Only the values at the elements of the set count.                       *)
LEMMA SumSame ==
  ASSUME NEW f, NEW g, NEW S, IsFiniteSet(S), \A x \in S : f[x] \in Int /\ g[x] = f[x]
  PROVE  SumFunctionOnSet(f, S) = SumFunctionOnSet(g, S)
<1> DEFINE Good == {X \in SUBSET S : SumFunctionOnSet(f, X) = SumFunctionOnSet(g, X)}
<1>1. {} \in Good
  BY SumEmpty
<1>2. ASSUME NEW X \in SUBSET S, NEW x \in S, X \in Good, x \notin X
      PROVE  X \cup {x} \in Good
  <2>1. IsFiniteSet(X)
    BY FS_Subset
  <2>2. /\ SumFunctionOnSet(f, X \cup {x}) = f[x] + SumFunctionOnSet(f, X)
        /\ SumFunctionOnSet(g, X \cup {x}) = g[x] + SumFunctionOnSet(g, X)
    BY <2>1, <1>2, SumAdds
  <2> QED  BY <2>2, <1>2
<1> HIDE DEF Good
<1>3. S \in Good
  BY <1>1, <1>2, SubsetInduction
<1> QED  BY <1>3 DEF Good

(* Greater summands make a sum no less.                                    *)
LEMMA SumMonotone ==
  ASSUME NEW f, NEW g, NEW S, IsFiniteSet(S),
         \A x \in S : f[x] \in Int /\ g[x] \in Int /\ f[x] <= g[x]
  PROVE  SumFunctionOnSet(f, S) <= SumFunctionOnSet(g, S)
<1> DEFINE Good == {X \in SUBSET S : SumFunctionOnSet(f, X) <= SumFunctionOnSet(g, X)}
<1>1. {} \in Good
  BY SumEmpty
<1>2. ASSUME NEW X \in SUBSET S, NEW x \in S, X \in Good, x \notin X
      PROVE  X \cup {x} \in Good
  <2>1. IsFiniteSet(X)
    BY FS_Subset
  <2>2. /\ SumFunctionOnSet(f, X \cup {x}) = f[x] + SumFunctionOnSet(f, X)
        /\ SumFunctionOnSet(g, X \cup {x}) = g[x] + SumFunctionOnSet(g, X)
    BY <2>1, <1>2, SumAdds
  <2>3. SumFunctionOnSet(f, X) \in Int /\ SumFunctionOnSet(g, X) \in Int
    BY <2>1, SumOfInts
  <2> QED  BY <2>2, <2>3, <1>2
<1> HIDE DEF Good
<1>3. S \in Good
  BY <1>1, <1>2, SubsetInduction
<1> QED  BY <1>3 DEF Good

(* The sum of zeros, and of natural numbers.                               *)
LEMMA SumOfZeros ==
  ASSUME NEW f, NEW S, IsFiniteSet(S), \A x \in S : f[x] = 0
  PROVE  SumFunctionOnSet(f, S) = 0
<1> DEFINE Good == {X \in SUBSET S : SumFunctionOnSet(f, X) = 0}
<1>1. {} \in Good
  BY SumEmpty
<1>2. ASSUME NEW X \in SUBSET S, NEW x \in S, X \in Good, x \notin X
      PROVE  X \cup {x} \in Good
  <2>1. IsFiniteSet(X)
    BY FS_Subset
  <2>2. SumFunctionOnSet(f, X \cup {x}) = f[x] + SumFunctionOnSet(f, X)
    BY <2>1, <1>2, SumAdds
  <2> QED  BY <2>2, <1>2
<1> HIDE DEF Good
<1>3. S \in Good
  BY <1>1, <1>2, SubsetInduction
<1> QED  BY <1>3 DEF Good

LEMMA SumOfNats ==
  ASSUME NEW f, NEW S, IsFiniteSet(S), \A x \in S : f[x] \in Nat
  PROVE  SumFunctionOnSet(f, S) \in Nat
<1> DEFINE z == [x \in S |-> 0]
<1>1. SumFunctionOnSet(z, S) = 0
  BY SumOfZeros
<1>2. SumFunctionOnSet(z, S) <= SumFunctionOnSet(f, S)
  <2>1. \A x \in S : z[x] \in Int /\ f[x] \in Int /\ z[x] <= f[x]
    OBVIOUS
  <2> HIDE DEF z
  <2> QED  BY <2>1, SumMonotone
<1>3. SumFunctionOnSet(f, S) \in Int
  BY SumOfInts
<1> QED  BY <1>1, <1>2, <1>3

(* Sums of disjoint sets add up.                                           *)
LEMMA SumOfUnion ==
  ASSUME NEW f, NEW S, NEW T, IsFiniteSet(S), IsFiniteSet(T), S \cap T = {},
         \A x \in S \cup T : f[x] \in Int
  PROVE  SumFunctionOnSet(f, S \cup T) = SumFunctionOnSet(f, S) + SumFunctionOnSet(f, T)
<1> DEFINE Good == {X \in SUBSET T : SumFunctionOnSet(f, S \cup X)
                                       = SumFunctionOnSet(f, S) + SumFunctionOnSet(f, X)}
<1>1. {} \in Good
  <2>1. SumFunctionOnSet(f, S) \in Int /\ SumFunctionOnSet(f, {}) = 0 /\ S \cup {} = S
    BY SumEmpty, SumOfInts
  <2> QED  BY <2>1
<1>2. ASSUME NEW X \in SUBSET T, NEW x \in T, X \in Good, x \notin X
      PROVE  X \cup {x} \in Good
  <2>1. IsFiniteSet(X) /\ IsFiniteSet(S \cup X)
    BY FS_Subset, FS_Union
  <2>2. (S \cup X) \cup {x} = S \cup (X \cup {x}) /\ x \notin S \cup X
    BY <1>2
  <2>3. SumFunctionOnSet(f, X \cup {x}) = f[x] + SumFunctionOnSet(f, X)
    BY <2>1, <1>2, SumAdds
  <2>4. SumFunctionOnSet(f, (S \cup X) \cup {x}) = f[x] + SumFunctionOnSet(f, S \cup X)
    <3>1. \A y \in (S \cup X) \cup {x} : f[y] \in Int
      OBVIOUS
    <3> QED  BY <2>1, <2>2, <3>1, SumAdds
  <2>5. SumFunctionOnSet(f, S) \in Int /\ SumFunctionOnSet(f, X) \in Int /\ f[x] \in Int
    BY <2>1, SumOfInts
  <2>6. SumFunctionOnSet(f, S \cup X) = SumFunctionOnSet(f, S) + SumFunctionOnSet(f, X)
    BY <1>2
  <2>7. SumFunctionOnSet(f, S \cup (X \cup {x}))
          = SumFunctionOnSet(f, S) + SumFunctionOnSet(f, X \cup {x})
    <3>1. SumFunctionOnSet(f, S \cup (X \cup {x})) = SumFunctionOnSet(f, (S \cup X) \cup {x})
      BY <2>2
    <3> DEFINE a == SumFunctionOnSet(f, S \cup (X \cup {x}))
               b == SumFunctionOnSet(f, S \cup X)
               c == SumFunctionOnSet(f, X \cup {x})
               d == SumFunctionOnSet(f, X)
               e == SumFunctionOnSet(f, S)
    <3>2. a = f[x] + b /\ b = e + d /\ c = f[x] + d /\ d \in Int /\ e \in Int /\ f[x] \in Int
      BY <3>1, <2>3, <2>4, <2>5, <2>6
    <3> HIDE DEF a, b, c, d, e
    <3>3. a = e + c
      BY <3>2
    <3> QED  BY <3>3 DEF a, c, e
  <2> QED  BY <2>7
<1> HIDE DEF Good
<1>3. T \in Good
  BY <1>1, <1>2, SubsetInduction
<1> QED  BY <1>3 DEF Good

(* The sum of the sums of the parts of a set is the sum of the set: h[k]   *)
(* is the sum of the part that g takes to k.                               *)
SumsOfParts(h, f, g, S, K) ==
  /\ \A x \in S : f[x] \in Int /\ g[x] \in K
  /\ \A k \in K : h[k] = SumFunctionOnSet(f, {x \in S : g[x] = k})

LEMMA SumOfParts ==
  ASSUME NEW f, NEW g, NEW h, NEW S, NEW K, IsFiniteSet(S), IsFiniteSet(K),
         SumsOfParts(h, f, g, S, K)
  PROVE  SumFunctionOnSet(h, K) = SumFunctionOnSet(f, S)
<1> USE DEF SumsOfParts
<1> DEFINE Part(k) == {x \in S : g[x] = k}
           Of(L)   == {x \in S : g[x] \in L}
           Good == {L \in SUBSET K : SumFunctionOnSet(h, L) = SumFunctionOnSet(f, Of(L))}
<1>1. {} \in Good
  <2>1. Of({}) = {}
    OBVIOUS
  <2> QED  BY <2>1, SumEmpty
<1>2. ASSUME NEW L \in SUBSET K, NEW k \in K, L \in Good, k \notin L
      PROVE  L \cup {k} \in Good
  <2>1. IsFiniteSet(L) /\ IsFiniteSet(Part(k)) /\ IsFiniteSet(Of(L))
    BY FS_Subset
  <2>2. \A j \in L \cup {k} : h[j] \in Int
    <3>1. ASSUME NEW j \in K
          PROVE  h[j] \in Int
      <4>1. IsFiniteSet(Part(j))
        BY FS_Subset
      <4>2. SumFunctionOnSet(f, Part(j)) \in Int
        BY <4>1, SumOfInts
      <4> QED  BY <4>2
    <3> QED  BY <3>1
  <2>3. SumFunctionOnSet(h, L \cup {k}) = h[k] + SumFunctionOnSet(h, L)
    BY <2>1, <2>2, <1>2, SumAdds
  <2>4. SumFunctionOnSet(f, Part(k) \cup Of(L))
          = SumFunctionOnSet(f, Part(k)) + SumFunctionOnSet(f, Of(L))
    <3>1. Part(k) \cap Of(L) = {} /\ \A x \in Part(k) \cup Of(L) : f[x] \in Int
      BY <1>2
    <3> HIDE DEF Part, Of
    <3> QED  BY <2>1, <3>1, SumOfUnion
  <2>5. Part(k) \cup Of(L) = Of(L \cup {k})
    OBVIOUS
  <2>6. h[k] = SumFunctionOnSet(f, Part(k))
    OBVIOUS
  <2>7. SumFunctionOnSet(h, L \cup {k}) = SumFunctionOnSet(f, Of(L \cup {k}))
    <3>1. SumFunctionOnSet(h, L) = SumFunctionOnSet(f, Of(L))
      BY <1>2
    <3> HIDE DEF Part, Of
    <3> QED  BY <2>3, <2>4, <2>5, <2>6, <3>1
  <2> QED  BY <2>7
<1> HIDE DEF Good
<1>3. K \in Good
  BY <1>1, <1>2, SubsetInduction
<1>4. Of(K) = S
  OBVIOUS
<1> QED  BY <1>3, <1>4 DEF Good

(* A sum may be taken over another set whose elements stand one for one    *)
(* for those of the first: r[x] for x.                                     *)
Renames(g, T, f, S, r) ==
  /\ T = {r[x] : x \in S}
  /\ \A x, y \in S : r[x] = r[y] => x = y
  /\ \A x \in S : f[x] \in Int /\ g[r[x]] = f[x]

LEMMA SumRenamed ==
  ASSUME NEW f, NEW g, NEW S, NEW T, NEW r, IsFiniteSet(S), Renames(g, T, f, S, r)
  PROVE  /\ SumFunctionOnSet(g, T) = SumFunctionOnSet(f, S)
         /\ IsFiniteSet(T) /\ Cardinality(T) = Cardinality(S)
<1> USE DEF Renames
<1> DEFINE To(X) == {r[x] : x \in X}
           Good == {X \in SUBSET S : /\ IsFiniteSet(To(X))
                                     /\ Cardinality(To(X)) = Cardinality(X)
                                     /\ SumFunctionOnSet(g, To(X)) = SumFunctionOnSet(f, X)}
<1>1. {} \in Good
  <2>1. To({}) = {}
    OBVIOUS
  <2> QED  BY <2>1, SumEmpty, FS_EmptySet
<1>2. ASSUME NEW X \in SUBSET S, NEW x \in S, X \in Good, x \notin X
      PROVE  X \cup {x} \in Good
  <2>1. IsFiniteSet(X) /\ IsFiniteSet(To(X)) /\ Cardinality(To(X)) = Cardinality(X)
    BY <1>2, FS_Subset
  <2>2. To(X \cup {x}) = To(X) \cup {r[x]} /\ r[x] \notin To(X)
    BY <1>2
  <2>3. /\ SumFunctionOnSet(f, X \cup {x}) = f[x] + SumFunctionOnSet(f, X)
        /\ Cardinality(X \cup {x}) = Cardinality(X) + 1
    BY <2>1, <1>2, SumAdds, FS_AddElement
  <2>4. \A y \in To(X) \cup {r[x]} : g[y] \in Int
    OBVIOUS
  <2>5. /\ IsFiniteSet(To(X) \cup {r[x]})
        /\ Cardinality(To(X) \cup {r[x]}) = Cardinality(To(X)) + 1
        /\ SumFunctionOnSet(g, To(X) \cup {r[x]}) = g[r[x]] + SumFunctionOnSet(g, To(X))
    <3> HIDE DEF To
    <3> QED  BY <2>1, <2>2, <2>4, SumAdds, FS_AddElement
  <2>6. SumFunctionOnSet(g, To(X)) = SumFunctionOnSet(f, X) /\ g[r[x]] = f[x]
    BY <1>2
  <2>7. /\ IsFiniteSet(To(X \cup {x}))
        /\ Cardinality(To(X \cup {x})) = Cardinality(X \cup {x})
        /\ SumFunctionOnSet(g, To(X \cup {x})) = SumFunctionOnSet(f, X \cup {x})
    <3> HIDE DEF To
    <3> QED  BY <2>1, <2>2, <2>3, <2>5, <2>6
  <2> QED  BY <2>7
<1> HIDE DEF Good
<1>3. S \in Good
  BY <1>1, <1>2, SubsetInduction
<1> QED  BY <1>3 DEF Good

-------------------------------------------------------------------------------
(* Quotients are rounded down; of a sum, this loses no more than of the    *)
(* parts, and less than one for each part more.                            *)
LEMMA Quotient ==
  ASSUME NEW n \in Nat, NEW a \in Nat \ {0}
  PROVE  /\ n \div a \in Nat
         /\ a * (n \div a) <= n
         /\ n < a * ((n \div a) + 1)
OBVIOUS

LEMMA QuotientOfSum ==
  ASSUME NEW m \in Nat, NEW n \in Nat, NEW a \in Nat \ {0}
  PROVE  /\ (m \div a) + (n \div a) <= (m + n) \div a
         /\ (m + n) \div a <= (m \div a) + (n \div a) + 1
<1> DEFINE p == m \div a
           q == n \div a
           s == (m + n) \div a
<1>1. p \in Nat /\ q \in Nat /\ s \in Nat
  BY Quotient
<1>2. a * p <= m /\ m < a * (p + 1) /\ a * q <= n /\ n < a * (q + 1)
  BY Quotient
<1>3. a * s <= m + n /\ m + n < a * (s + 1)
  BY Quotient
<1> HIDE DEF p, q, s
<1>4. a * (p + q) < a * (s + 1)
  BY <1>1, <1>2, <1>3
<1>5. a * s < a * (p + q + 2)
  BY <1>1, <1>2, <1>3
<1>6. ASSUME NEW x \in Nat, NEW y \in Nat, a * x < a * y
      PROVE  x < y
  <2>1. SUFFICES ASSUME y <= x
                 PROVE  FALSE
    OBVIOUS
  <2>2. a * x = a * y + a * (x - y) /\ x - y \in Nat
    BY <2>1
  <2>3. a * (x - y) >= 0
    BY <2>2
  <2> QED  BY <1>6, <2>2, <2>3
<1>7. p + q < s + 1 /\ s < p + q + 2
  BY <1>1, <1>4, <1>5, <1>6
<1>8. p + q <= s /\ s <= p + q + 1
  BY <1>1, <1>7
<1> QED  BY <1>8 DEF p, q, s

LEMMA QuotientOfProduct ==
  ASSUME NEW n \in Nat, NEW a \in Nat \ {0}
  PROVE  (a * n) \div a = n
<1> DEFINE m == a * n
           q == m \div a
<1>1. m \in Nat
  OBVIOUS
<1>2. q \in Nat /\ a * q <= m /\ m < a * (q + 1)
  <2> HIDE DEF m
  <2> QED  BY <1>1, Quotient
<1> HIDE DEF q
<1>3. q <= n
  <2>1. SUFFICES ASSUME n + 1 <= q
                 PROVE  FALSE
    BY <1>2
  <2>2. a * (n + 1) <= a * q
    <3>1. a * q = a * (n + 1) + a * (q - (n + 1)) /\ q - (n + 1) \in Nat
      BY <2>1, <1>2
    <3>2. a * (q - (n + 1)) \in Nat /\ a * (n + 1) \in Nat
      BY <3>1
    <3> QED  BY <3>1, <3>2
  <2>3. a * (n + 1) = m + a
    OBVIOUS
  <2> HIDE DEF m
  <2>4. a * q \in Nat
    BY <1>2
  <2> QED  BY <1>1, <1>2, <2>2, <2>3, <2>4
<1>4. n <= q
  <2>1. SUFFICES ASSUME q + 1 <= n
                 PROVE  FALSE
    BY <1>2
  <2>2. a * (q + 1) <= m
    <3>1. m = a * (q + 1) + a * (n - (q + 1)) /\ n - (q + 1) \in Nat
      BY <2>1, <1>2
    <3>2. a * (n - (q + 1)) \in Nat /\ a * (q + 1) \in Nat
      BY <3>1, <1>2
    <3> HIDE DEF m
    <3> QED  BY <3>1, <3>2
  <2> HIDE DEF m
  <2>3. a * (q + 1) \in Nat
    BY <1>2
  <2> QED  BY <1>1, <1>2, <2>2, <2>3
<1> QED  BY <1>2, <1>3, <1>4 DEF q

LEMMA SumOfQuotients ==
  ASSUME NEW f, NEW q, NEW S, IsFiniteSet(S), NEW n \in Nat, NEW a \in Nat \ {0},
         \A x \in S : f[x] \in Nat /\ q[x] = (f[x] * n) \div a
  PROVE  LET exact == (SumFunctionOnSet(f, S) * n) \div a
         IN  /\ SumFunctionOnSet(f, S) \in Nat /\ SumFunctionOnSet(q, S) \in Nat /\ exact \in Nat
             /\ SumFunctionOnSet(q, S) <= exact
             /\ S # {} => exact - SumFunctionOnSet(q, S) < Cardinality(S)
<1> DEFINE s(X) == SumFunctionOnSet(f, X)
           p(X) == SumFunctionOnSet(q, X)
           exact(X) == (s(X) * n) \div a
           Good == {X \in SUBSET S : /\ p(X) <= exact(X)
                                     /\ X # {} => exact(X) - p(X) < Cardinality(X)}
<1>1. ASSUME NEW x \in S
      PROVE  f[x] \in Nat /\ f[x] * n \in Nat /\ q[x] \in Nat
  BY Quotient
<1>2. ASSUME NEW X \in SUBSET S
      PROVE  /\ IsFiniteSet(X) /\ Cardinality(X) \in Nat
             /\ s(X) \in Nat /\ p(X) \in Nat /\ s(X) * n \in Nat /\ exact(X) \in Nat
  <2>1. IsFiniteSet(X) /\ Cardinality(X) \in Nat
    BY FS_Subset, FS_CardinalityType
  <2>2. s(X) \in Nat /\ p(X) \in Nat
    BY <2>1, <1>1, SumOfNats
  <2> HIDE DEF s, p
  <2>3. s(X) * n \in Nat
    BY <2>2
  <2> QED  BY <2>1, <2>2, <2>3, Quotient
<1>3. {} \in Good
  <2>1. s({}) = 0 /\ p({}) = 0
    BY SumEmpty
  <2>2. p({}) <= exact({})
    <3> HIDE DEF s, p
    <3> QED  BY <2>1
  <2> QED  BY <2>2
<1>4. ASSUME NEW X \in SUBSET S, NEW x \in S, X \in Good, x \notin X
      PROVE  X \cup {x} \in Good
  <2>1. s(X \cup {x}) = f[x] + s(X) /\ p(X \cup {x}) = q[x] + p(X)
    <3>1. \A y \in X \cup {x} : f[y] \in Int /\ q[y] \in Int
      BY <1>1
    <3> QED  BY <3>1, <1>2, <1>4, SumAdds
  <2>2. Cardinality(X \cup {x}) = Cardinality(X) + 1
    BY <1>2, <1>4, FS_AddElement
  <2>3. /\ p(X) <= exact(X)
        /\ X # {} => exact(X) - p(X) < Cardinality(X)
        /\ X = {} => s(X) = 0 /\ p(X) = 0 /\ Cardinality(X) = 0
    BY <1>4, SumEmpty, FS_EmptySet
  <2> DEFINE Y == X \cup {x}
  <2>4. Y \in SUBSET S
    OBVIOUS
  <2> HIDE DEF s, p, Y
  <2>5. s(Y) * n = f[x] * n + s(X) * n
    <3>1. s(Y) = f[x] + s(X) /\ f[x] \in Nat /\ s(X) \in Nat
      BY <2>1, <1>1, <1>2 DEF Y
    <3> QED  BY <3>1
  <2>6. q[x] + exact(X) <= exact(Y) /\ exact(Y) <= q[x] + exact(X) + 1
    <3> DEFINE u == f[x] * n
               v == s(X) * n
    <3>1. u \in Nat /\ v \in Nat /\ s(Y) * n = u + v /\ q[x] = u \div a
      BY <1>1, <1>2, <2>5
    <3> HIDE DEF u, v
    <3>2. (u \div a) + (v \div a) <= (u + v) \div a /\ (u + v) \div a <= (u \div a) + (v \div a) + 1
      BY <3>1, QuotientOfSum
    <3> QED  BY <3>1, <3>2 DEF v
  <2>7. X = {} => exact(Y) = q[x]
    <3>1. X = {} => s(Y) = f[x] + 0 /\ f[x] \in Nat
      BY <2>1, <2>3, <1>1 DEF Y
    <3>2. X = {} => s(Y) = f[x]
      BY <3>1
    <3> QED  BY <3>2
  <2>8. p(Y) = q[x] + p(X) /\ Cardinality(Y) = Cardinality(X) + 1
    BY <2>1, <2>2 DEF Y
  <2>9. /\ q[x] \in Nat /\ p(X) \in Nat /\ exact(X) \in Nat /\ exact(Y) \in Nat
        /\ Cardinality(X) \in Nat
    BY <1>1, <1>2, <2>4
  <2> HIDE DEF exact
  <2>10. p(Y) <= exact(Y) /\ exact(Y) - p(Y) < Cardinality(Y)
    <3>1. CASE X = {}
      BY <3>1, <2>3, <2>7, <2>8, <2>9
    <3>2. CASE X # {}
      <4> DEFINE c == Cardinality(X)
                 qx == q[x]
                 pX == p(X)
                 eX == exact(X)
                 eY == exact(Y)
      <4>1. /\ pX \in Nat /\ eX \in Nat /\ eY \in Nat /\ qx \in Nat /\ c \in Nat
            /\ pX <= eX /\ eX - pX < c /\ qx + eX <= eY /\ eY <= qx + eX + 1
        BY <3>2, <2>3, <2>6, <2>9
      <4>2. p(Y) = qx + pX /\ Cardinality(Y) = c + 1
        BY <2>8
      <4> HIDE DEF c, qx, pX, eX, eY
      <4>3. qx + pX <= eY /\ eY - (qx + pX) < c + 1
        BY <4>1
      <4> QED  BY <4>2, <4>3 DEF eY
    <3> QED  BY <3>1, <3>2
  <2> QED  BY <2>4, <2>10 DEF Y
<1> HIDE DEF Good
<1>5. S \in Good
  BY <1>3, <1>4, SubsetInduction
<1> QED  BY <1>2, <1>5 DEF Good

(* Shares in proportion to the parts of a whole are no more than there is  *)
(* to share, and less by rounding only.                                    *)
LEMMA SumOfShares ==
  ASSUME NEW f, NEW q, NEW S, IsFiniteSet(S), NEW n \in Nat, SumFunctionOnSet(f, S) > 0,
         \A x \in S : f[x] \in Nat /\ q[x] = (f[x] * n) \div SumFunctionOnSet(f, S)
  PROVE  /\ SumFunctionOnSet(q, S) \in Nat
         /\ SumFunctionOnSet(q, S) <= n
         /\ n - SumFunctionOnSet(q, S) < Cardinality(S)
<1> DEFINE a == SumFunctionOnSet(f, S)
<1>1. a \in Nat \ {0} /\ S # {}
  BY SumOfNats, SumEmpty
<1>2. (a * n) \div a = n
  <2> HIDE DEF a
  <2> QED  BY <1>1, QuotientOfProduct
<1> HIDE DEF a
<1>3. \A x \in S : f[x] \in Nat /\ q[x] = (f[x] * n) \div a
  BY DEF a
<1>4. LET exact == (SumFunctionOnSet(f, S) * n) \div a
      IN  /\ SumFunctionOnSet(f, S) \in Nat /\ SumFunctionOnSet(q, S) \in Nat /\ exact \in Nat
          /\ SumFunctionOnSet(q, S) <= exact
          /\ S # {} => exact - SumFunctionOnSet(q, S) < Cardinality(S)
  BY <1>1, <1>3, SumOfQuotients
<1> QED  BY <1>1, <1>2, <1>4 DEF a

(* Where there is one for each to have, somebody gets a share.             *)
LEMMA SomebodyShares ==
  ASSUME NEW f, NEW q, NEW S, IsFiniteSet(S), NEW n \in Nat, SumFunctionOnSet(f, S) > 0,
         \A x \in S : f[x] \in Nat /\ q[x] = (f[x] * n) \div SumFunctionOnSet(f, S),
         Cardinality(S) <= n
  PROVE  \E x \in S : q[x] # 0
<1> SUFFICES ASSUME \A x \in S : q[x] = 0  PROVE FALSE
  OBVIOUS
<1>1. SumFunctionOnSet(q, S) = 0
  BY SumOfZeros
<1>2. n - SumFunctionOnSet(q, S) < Cardinality(S)
  BY SumOfShares
<1>3. Cardinality(S) \in Nat
  BY FS_CardinalityType
<1> QED  BY <1>1, <1>2, <1>3

(* Finitely many numbers, some, have a greatest.                           *)
LEMMA GreatestExists ==
  ASSUME NEW S, IsFiniteSet(S), S \subseteq Int, S # {}
  PROVE  \E x \in S : \A y \in S : x >= y
<1> DEFINE Good == {X \in SUBSET S : X # {} => \E x \in X : \A y \in X : x >= y}
<1>1. {} \in Good
  OBVIOUS
<1>2. ASSUME NEW X \in SUBSET S, NEW x \in S, X \in Good, x \notin X
      PROVE  X \cup {x} \in Good
  <2>1. CASE X = {}
    BY <2>1
  <2>2. CASE X # {}
    <3>1. PICK z \in X : \A y \in X : z >= y
      BY <2>2, <1>2
    <3>2. CASE x >= z
      BY <3>1, <3>2
    <3>3. CASE z >= x
      BY <3>1, <3>3
    <3> QED  BY <3>2, <3>3
  <2> QED  BY <2>1, <2>2
<1> HIDE DEF Good
<1>3. S \in Good
  BY <1>1, <1>2, SubsetInduction
<1> QED  BY <1>3 DEF Good

(* A sum of ones counts. *)
LEMMA SumOfOnes ==
  ASSUME NEW f, NEW S, IsFiniteSet(S), \A x \in S : f[x] = 1
  PROVE  SumFunctionOnSet(f, S) = Cardinality(S)
<1> DEFINE Good == {X \in SUBSET S : SumFunctionOnSet(f, X) = Cardinality(X)}
<1>1. {} \in Good
  BY SumEmpty, FS_EmptySet
<1>2. ASSUME NEW X \in SUBSET S, NEW x \in S, X \in Good, x \notin X
      PROVE  X \cup {x} \in Good
  <2>1. IsFiniteSet(X) /\ X \cup {x} \in SUBSET S
    BY FS_Subset
  <2>2. SumFunctionOnSet(f, X \cup {x}) = f[x] + SumFunctionOnSet(f, X)
    BY <2>1, <1>2, SumAdds
  <2>3. Cardinality(X \cup {x}) = Cardinality(X) + 1 /\ Cardinality(X) \in Nat
    BY <2>1, <1>2, FS_AddElement, FS_CardinalityType
  <2> QED  BY <1>2, <2>1, <2>2, <2>3
<1> HIDE DEF Good
<1>3. S \in Good
  BY <1>1, <1>2, SubsetInduction
<1> QED  BY <1>3 DEF Good

(* A set of which only some elements get a share. *)
LEMMA SharedAmongSome ==
  ASSUME NEW q, NEW f, NEW S, NEW T \in SUBSET S, IsFiniteSet(S), NEW n \in Nat,
         \A x \in T : f[x] \in Nat,
         \A x \in S : q[x] = IF SumFunctionOnSet(f, T) > 0 /\ x \in T
                               THEN (n * f[x]) \div SumFunctionOnSet(f, T) ELSE 0
  PROVE  /\ SumFunctionOnSet(q, S) \in Nat
         /\ SumFunctionOnSet(q, S) <= n
         /\ SumFunctionOnSet(q, S) = 0 \/ n - SumFunctionOnSet(q, S) < Cardinality(S)
<1> DEFINE total == SumFunctionOnSet(f, T)
<1>1. IsFiniteSet(T) /\ total \in Nat
  BY FS_Subset, SumOfNats
<1>2. CASE ~ (total > 0)
  <2>1. \A x \in S : q[x] = 0
    BY <1>2
  <2>2. SumFunctionOnSet(q, S) = 0
    BY <2>1, SumOfZeros
  <2> QED  BY <2>2
<1>3. CASE total > 0
  <2>1. \A x \in T : f[x] \in Nat /\ q[x] = (f[x] * n) \div total
    BY <1>3
  <2>2. /\ SumFunctionOnSet(q, T) \in Nat
        /\ SumFunctionOnSet(q, T) <= n
        /\ n - SumFunctionOnSet(q, T) < Cardinality(T)
    BY <1>1, <1>3, <2>1, SumOfShares
  <2>3. \A x \in S \ T : q[x] = 0
    OBVIOUS
  <2>4. IsFiniteSet(S \ T) /\ S = T \cup (S \ T) /\ T \cap (S \ T) = {}
    BY FS_Subset
  <2>5. SumFunctionOnSet(q, S \ T) = 0
    BY <2>3, <2>4, SumOfZeros
  <2>6. \A x \in T : q[x] \in Int
    <3>1. ASSUME NEW x \in T
          PROVE  (f[x] * n) \div total \in Int
      <4>1. f[x] * n \in Nat
        BY <2>1
      <4> HIDE DEF total
      <4> QED  BY <1>1, <1>3, <4>1
    <3> QED  BY <2>1, <3>1
  <2>7. \A x \in T \cup (S \ T) : q[x] \in Int
    BY <2>3, <2>6
  <2>8. SumFunctionOnSet(q, T \cup (S \ T))
          = SumFunctionOnSet(q, T) + SumFunctionOnSet(q, S \ T)
    BY <1>1, <2>4, <2>7, SumOfUnion
  <2>9. /\ Cardinality(T) <= Cardinality(S)
        /\ Cardinality(T) \in Nat /\ Cardinality(S) \in Nat
    BY <1>1, FS_Subset, FS_CardinalityType
  <2>10. SumFunctionOnSet(q, S) = SumFunctionOnSet(q, T)
    <3>1. SumFunctionOnSet(q, S) = SumFunctionOnSet(q, T) + SumFunctionOnSet(q, S \ T)
      BY <2>4, <2>8
    <3> QED  BY <2>2, <2>5, <3>1
  <2> QED  BY <2>2, <2>9, <2>10
<1> QED  BY <1>2, <1>3

(* Sums of sums, and sums of terms each of which is less. *)
LEMMA SumOfSums ==
  ASSUME NEW f, NEW g, NEW h, NEW S, IsFiniteSet(S),
         \A x \in S : f[x] \in Int /\ g[x] \in Int /\ h[x] = f[x] + g[x]
  PROVE  SumFunctionOnSet(h, S) = SumFunctionOnSet(f, S) + SumFunctionOnSet(g, S)
<1> DEFINE Good == {X \in SUBSET S : SumFunctionOnSet(h, X) =
                                       SumFunctionOnSet(f, X) + SumFunctionOnSet(g, X)}
<1>1. {} \in Good
  BY SumEmpty
<1>2. ASSUME NEW X \in SUBSET S, NEW x \in S, X \in Good, x \notin X
      PROVE  X \cup {x} \in Good
  <2>1. IsFiniteSet(X) /\ X \cup {x} \in SUBSET S
    BY FS_Subset
  <2>2. \A y \in X \cup {x} : f[y] \in Int /\ g[y] \in Int /\ h[y] \in Int
    OBVIOUS
  <2>3. /\ SumFunctionOnSet(f, X \cup {x}) = f[x] + SumFunctionOnSet(f, X)
        /\ SumFunctionOnSet(g, X \cup {x}) = g[x] + SumFunctionOnSet(g, X)
        /\ SumFunctionOnSet(h, X \cup {x}) = h[x] + SumFunctionOnSet(h, X)
        /\ SumFunctionOnSet(f, X) \in Int /\ SumFunctionOnSet(g, X) \in Int
    BY <2>1, <2>2, <1>2, SumAdds, SumOfInts
  <2>4. h[x] = f[x] + g[x] /\ f[x] \in Int /\ g[x] \in Int
    OBVIOUS
  <2> QED  BY <1>2, <2>1, <2>3, <2>4
<1> HIDE DEF Good
<1>3. S \in Good
  BY <1>1, <1>2, SubsetInduction
<1> QED  BY <1>3 DEF Good

LEMMA SumStrictlyMonotone ==
  ASSUME NEW f, NEW g, NEW S, IsFiniteSet(S), S # {},
         \A x \in S : f[x] \in Int /\ g[x] \in Int /\ f[x] < g[x]
  PROVE  SumFunctionOnSet(f, S) < SumFunctionOnSet(g, S)
<1>1. PICK x \in S : TRUE
  OBVIOUS
<1>2. /\ SumFunctionOnSet(f, S) = f[x] + SumFunctionOnSet(f, S \ {x})
      /\ SumFunctionOnSet(g, S) = g[x] + SumFunctionOnSet(g, S \ {x})
  BY SumOfInts
<1>3. IsFiniteSet(S \ {x})
  BY FS_Subset
<1>4. /\ SumFunctionOnSet(f, S \ {x}) \in Int /\ SumFunctionOnSet(g, S \ {x}) \in Int
      /\ SumFunctionOnSet(f, S \ {x}) <= SumFunctionOnSet(g, S \ {x})
  BY <1>3, SumOfInts, SumMonotone
<1> QED  BY <1>2, <1>4

(* A table may be added up by rows or by columns. *)
InRow(S, V, e) == {v \in V : <<e, v>> \in S}

InColumn(S, E, v) == {e \in E : <<e, v>> \in S}

RowSums(r, f, S, E, V) ==
  \A e \in E : r[e] = SumFunctionOnSet([v \in InRow(S, V, e) |-> f[<<e, v>>]], InRow(S, V, e))

ColumnSums(c, f, S, E, V) ==
  \A v \in V : c[v] = SumFunctionOnSet([e \in InColumn(S, E, v) |-> f[<<e, v>>]], InColumn(S, E, v))

LEMMA SumByRows ==
  ASSUME NEW E, NEW V, IsFiniteSet(E), IsFiniteSet(V), NEW S \in SUBSET (E \X V),
         NEW f, \A p \in S : f[p] \in Int, NEW r, RowSums(r, f, S, E, V)
  PROVE  SumFunctionOnSet(r, E) = SumFunctionOnSet(f, S)
<1>1. IsFiniteSet(S)
  BY FS_Product, FS_Subset
<1> DEFINE g == [p \in S |-> p[1]]
<1>2. ASSUME NEW e \in E
      PROVE  r[e] = SumFunctionOnSet(f, {p \in S : g[p] = e})
  <2> DEFINE row == InRow(S, V, e)
             h == [v \in row |-> f[<<e, v>>]]
             m == [v \in row |-> <<e, v>>]
             T == {p \in S : g[p] = e}
  <2>1. IsFiniteSet(row) /\ \A v \in row : <<e, v>> \in S
    BY FS_Subset DEF InRow
  <2>2. T = {m[v] : v \in row}
    <3>1. ASSUME NEW p \in T
          PROVE  p[2] \in row /\ p = m[p[2]]
      BY <3>1 DEF InRow
    <3>2. \A v \in row : m[v] \in T
      BY <2>1
    <3> HIDE DEF T, m, row
    <3> QED  BY <3>1, <3>2
  <2>3. \A v \in row : m[v] = <<e, v>> /\ h[v] = f[<<e, v>>] /\ h[v] \in Int
    BY <2>1
  <2>4. \A v, w \in row : m[v] = m[w] => v = w
    BY <2>3
  <2> HIDE DEF row, h, m, T
  <2>5. Renames(f, T, h, row, m)
    BY <2>2, <2>3, <2>4 DEF Renames
  <2>6. SumFunctionOnSet(f, T) = SumFunctionOnSet(h, row)
    BY <2>1, <2>5, SumRenamed
  <2> QED  BY <2>6 DEF RowSums, row, h, T
<1>3. \A p \in S : f[p] \in Int /\ g[p] \in E
  OBVIOUS
<1> HIDE DEF g
<1>4. SumsOfParts(r, f, g, S, E)
  BY <1>2, <1>3 DEF SumsOfParts
<1> QED  BY <1>1, <1>4, SumOfParts

LEMMA SumByColumns ==
  ASSUME NEW E, NEW V, IsFiniteSet(E), IsFiniteSet(V), NEW S \in SUBSET (E \X V),
         NEW f, \A p \in S : f[p] \in Int, NEW c, ColumnSums(c, f, S, E, V)
  PROVE  SumFunctionOnSet(c, V) = SumFunctionOnSet(f, S)
<1>1. IsFiniteSet(S)
  BY FS_Product, FS_Subset
<1> DEFINE g == [p \in S |-> p[2]]
<1>2. ASSUME NEW v \in V
      PROVE  c[v] = SumFunctionOnSet(f, {p \in S : g[p] = v})
  <2> DEFINE column == InColumn(S, E, v)
             h == [e \in column |-> f[<<e, v>>]]
             m == [e \in column |-> <<e, v>>]
             T == {p \in S : g[p] = v}
  <2>1. IsFiniteSet(column) /\ \A e \in column : <<e, v>> \in S
    BY FS_Subset DEF InColumn
  <2>2. T = {m[e] : e \in column}
    <3>1. ASSUME NEW p \in T
          PROVE  p[1] \in column /\ p = m[p[1]]
      BY <3>1 DEF InColumn
    <3>2. \A e \in column : m[e] \in T
      BY <2>1
    <3> HIDE DEF T, m, column
    <3> QED  BY <3>1, <3>2
  <2>3. \A e \in column : m[e] = <<e, v>> /\ h[e] = f[<<e, v>>] /\ h[e] \in Int
    BY <2>1
  <2>4. \A d, e \in column : m[d] = m[e] => d = e
    BY <2>3
  <2> HIDE DEF column, h, m, T
  <2>5. Renames(f, T, h, column, m)
    BY <2>2, <2>3, <2>4 DEF Renames
  <2>6. SumFunctionOnSet(f, T) = SumFunctionOnSet(h, column)
    BY <2>1, <2>5, SumRenamed
  <2> QED  BY <2>6 DEF ColumnSums, column, h, T
<1>3. \A p \in S : f[p] \in Int /\ g[p] \in V
  OBVIOUS
<1> HIDE DEF g
<1>4. SumsOfParts(c, f, g, S, V)
  BY <1>2, <1>3 DEF SumsOfParts
<1> QED  BY <1>1, <1>4, SumOfParts
====
