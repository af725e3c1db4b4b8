---------------------------- MODULE PortionsProofs ----------------------------
(***************************************************************************)
(* Proofs about Portions, for every set of delegates, every geometry of    *)
(* epochs with a safe fork, and either reading of ToBlock.                 *)
(***************************************************************************)
EXTENDS Portions, ArithmeticProofs, WellFoundedInduction

-------------------------------------------------------------------------------
(* Sets of naturals have a least and, if bounded, a greatest element.      *)

LEMMA HasMin ==
  ASSUME NEW T, T \subseteq Nat, T # {}
  PROVE  \E x \in T : \A y \in T : x <= y
<1>1. PICK x \in T : \A y \in T : ~ (<<y, x>> \in OpToRel(<, Nat))
  BY NatLessThanWellFounded, WFMin
<1>2. \A y \in T : ~ (y < x)
  BY <1>1 DEF OpToRel
<1>3. \A y \in T : x \in Nat /\ y \in Nat
  OBVIOUS
<1>4. \A y \in T : x <= y
  BY <1>2, <1>3
<1> QED  BY <1>4

LEMMA HasMax ==
  ASSUME NEW T, NEW n \in Nat, T \subseteq 0 .. n, T # {}
  PROVE  \E x \in T : \A y \in T : y <= x
<1> DEFINE U == {m \in 0 .. n : n - m \in T}
<1>1. PICK t \in T : TRUE
  OBVIOUS
<1>2. n - t \in U
  <2>1. t \in 0 .. n /\ n - t \in 0 .. n /\ n - (n - t) = t
    OBVIOUS
  <2> QED  BY <2>1
<1>3. U \subseteq Nat /\ U # {}
  BY <1>2
<1>4. PICK u \in U : \A v \in U : u <= v
  <2> HIDE DEF U
  <2> QED  BY <1>3, HasMin
<1>5. u \in 0 .. n /\ n - u \in T
  BY <1>4
<1>6. ASSUME NEW y \in T
      PROVE  y <= n - u
  <2>1. y \in 0 .. n /\ n - y \in 0 .. n /\ n - (n - y) = y
    OBVIOUS
  <2>2. n - y \in U
    BY <2>1
  <2>3. u <= n - y
    BY <2>2, <1>4
  <2> QED  BY <2>1, <2>3, <1>5
<1> QED  BY <1>5, <1>6

-------------------------------------------------------------------------------
(* The invariant: what is checked, and what the log and the position of    *)
(* the indexer are besides.                                                *)

(* Events are no older than the contract and no newer than the chain, and  *)
(* no two are made at the same time.                                       *)
LogOrdered ==
  /\ \A u \in log : DeployHeight <= u.height /\ u.height <= tip
  /\ \A u, w \in log : u.height = w.height => u = w

IndexedReached == \A e \in IndexedEpochs : GetEpochHeight(e) <= tip

IInv ==
  /\ TypeOK
  /\ LogOrdered
  /\ IndexedReached
  /\ PortionKept
  /\ NeverOutdated

-------------------------------------------------------------------------------
(* Where native staking begins. *)
LEMMA Fairbank ==
  /\ FairbankEffectiveHeight \in Nat \ {0}
  /\ FairbankEpoch \in Nat \ {0}
  /\ GetEpochHeight(FairbankEpoch) = FairbankEffectiveHeight
  /\ GetEpochNumber(MaxHeight) \in Nat
  /\ FairbankEpoch <= GetEpochNumber(MaxHeight)
<1>1. FairbankEffectiveHeight \in Nat \ {0}
  <2>1. EpochLengthDardanelles \in Nat \ {0}
    BY Geometry, PortionsAssumption
  <2> QED  BY <2>1, EpochCtxAssumption DEF FairbankEffectiveHeight
<1>2. FairbankEpoch \in Nat \ {0}
  BY <1>1, HeightInEpoch, PortionsAssumption DEF FairbankEpoch
<1>3. GetEpochHeight(FairbankEpoch) = FairbankEffectiveHeight
  BY PortionsAssumption DEF FairbankEpoch, IsEpochStart
<1>4. MaxHeight \in Nat \ {0} /\ FairbankEffectiveHeight <= MaxHeight
  BY <1>1, PortionsAssumption
<1>5. GetEpochNumber(MaxHeight) \in Nat
  BY <1>4, HeightInEpoch, PortionsAssumption
<1>6. FairbankEpoch <= GetEpochNumber(MaxHeight)
  BY <1>1, <1>4, EpochMonotone, PortionsAssumption DEF FairbankEpoch
<1> QED  BY <1>1, <1>2, <1>3, <1>5, <1>6

(* The epochs after the first one start where the epoch before them ends.  *)
LEMMA StakingEpochHeights ==
  ASSUME NEW e \in Epochs, e >= FairbankEpoch
  PROVE  /\ e - 1 \in Epochs
         /\ GetEpochHeight(e) \in Nat \ {0}
         /\ e > FairbankEpoch =>
              /\ GetEpochHeight(e - 1) \in Nat \ {0}
              /\ GetEpochHeight(e - 1) < GetEpochHeight(e)
<1> USE Fairbank
<1>1. e \in Nat \ {0} /\ e + 1 \in Nat /\ e < e + 1 /\ e - 1 \in Epochs
  BY DEF Epochs
<1>2. GetEpochHeight(e) \in Nat \ {0}
  BY <1>1, EpochHeightIncreasing, PortionsAssumption
<1>3. ASSUME e > FairbankEpoch
      PROVE  /\ GetEpochHeight(e - 1) \in Nat \ {0}
             /\ GetEpochHeight(e - 1) < GetEpochHeight(e)
  <2>1. e - 1 \in Nat \ {0} /\ e - 1 < e
    BY <1>1, <1>3
  <2> QED  BY <2>1, <1>1, EpochHeightIncreasing, PortionsAssumption
<1> QED  BY <1>1, <1>2, <1>3

(* The newest of some events is one of them, and any event that is newest  *)
(* is that one.                                                            *)
LEMMA NewestExists ==
  ASSUME TypeOK, NEW S, S \subseteq log, S # {}
  PROVE  Newest(S) \in S /\ \A w \in S : w.height <= Newest(S).height
<1> DEFINE T == {u.height : u \in S}
<1>1. MaxHeight \in Nat
  BY PortionsAssumption
<1>2. T \subseteq 0 .. MaxHeight /\ T # {}
  BY <1>1 DEF TypeOK
<1>3. PICK x \in T : \A y \in T : y <= x
  <2> HIDE DEF T
  <2> QED  BY <1>1, <1>2, HasMax
<1>4. PICK u \in S : u.height = x
  OBVIOUS
<1>5. \A w \in S : w.height <= u.height
  BY <1>3, <1>4
<1> QED  BY <1>4, <1>5 DEF Newest

LEMMA NewestUnique ==
  ASSUME TypeOK, LogOrdered, NEW S, S \subseteq log,
         NEW u \in S, \A w \in S : w.height <= u.height
  PROVE  Newest(S) = u
<1>1. Newest(S) \in S /\ \A w \in S : w.height <= Newest(S).height
  BY NewestExists
<1>2. u.height <= Newest(S).height /\ Newest(S).height <= u.height
  BY <1>1
<1>3. u.height \in Nat /\ Newest(S).height \in Nat
  BY <1>1 DEF TypeOK
<1> QED  BY <1>1, <1>2, <1>3 DEF LogOrdered

(* The events read for an epoch are all settings made since the epoch      *)
(* before it: none is missed and none older is among them.                 *)
LEMMA WindowFacts ==
  ASSUME TypeOK, LogOrdered, NEW e \in Epochs, e >= FairbankEpoch, PortionsAvailable(e),
         NEW d \in Delegates
  PROVE  /\ UpdatesOf(d, UpdatesFor(e)) \subseteq Settings(d, e)
         /\ e = FairbankEpoch => Settings(d, e) \subseteq UpdatesOf(d, UpdatesFor(e))
         /\ e > FairbankEpoch =>
              /\ Settings(d, e - 1) \subseteq Settings(d, e)
              /\ \A u \in Settings(d, e) :
                   \/ u \in UpdatesOf(d, UpdatesFor(e))
                   \/ u \in Settings(d, e - 1) /\ u.height < GetEpochHeight(e - 1)
              /\ \A u \in UpdatesFor(e) : u.height >= GetEpochHeight(e - 1)
<1> USE Fairbank, StakingEpochHeights
<1>1. \A u \in log : u.height \in Nat /\ DeployHeight <= u.height
  BY DEF TypeOK, LogOrdered
<1>2. DeployHeight \in Nat /\ ToBlockIncluded \in BOOLEAN
  BY PortionsAssumption
<1>3. CASE e = FairbankEpoch
  <2>1. DeployHeight + (GetEpochHeight(e) - DeployHeight) = GetEpochHeight(e)
    BY <1>2
  <2>2. UpdatesFor(e) = {u \in log : u.height <= Horizon(e)}
    BY <1>1, <1>2, <1>3, <2>1 DEF UpdatesFor, getLog, Horizon
  <2> QED  BY <1>3, <2>2 DEF UpdatesOf, Settings
<1>4. CASE e > FairbankEpoch
  <2> DEFINE from == GetEpochHeight(e - 1)
             to == GetEpochHeight(e)
  <2>1. from \in Nat /\ to \in Nat /\ from < to /\ from + (to - from) = to
    BY <1>4
  <2>2. UpdatesFor(e) = {u \in log : from <= u.height /\ u.height <= Horizon(e)}
    BY <1>1, <1>2, <1>4, <2>1 DEF UpdatesFor, getLog, Horizon
  <2>3. Horizon(e - 1) <= Horizon(e) /\ from <= Horizon(e - 1) + 1
    BY <1>2, <2>1 DEF Horizon
  <2>4. Horizon(e) \in Int /\ Horizon(e - 1) \in Int
    BY <1>2, <2>1 DEF Horizon
  <2>5. Settings(d, e - 1) \subseteq Settings(d, e)
    BY <1>1, <2>3, <2>4 DEF Settings, UpdatesOf
  <2>6. ASSUME NEW u \in Settings(d, e), u \notin UpdatesOf(d, UpdatesFor(e))
        PROVE  u \in Settings(d, e - 1) /\ u.height < from
    <3>1. u \in log /\ u.delegate = d /\ u.height <= Horizon(e) /\ u.height \in Nat
      BY <1>1 DEF Settings, UpdatesOf
    <3>2. ~ (from <= u.height)
      BY <2>2, <2>6, <3>1 DEF UpdatesOf
    <3>3. u.height < from /\ u.height <= Horizon(e - 1)
      BY <2>1, <2>3, <2>4, <3>1, <3>2
    <3> QED  BY <3>1, <3>3 DEF Settings, UpdatesOf
  <2>7. UpdatesOf(d, UpdatesFor(e)) \subseteq Settings(d, e)
    BY <2>2 DEF UpdatesOf, Settings
  <2>8. \A u \in UpdatesFor(e) : u.height >= from
    BY <2>2, <2>1, <1>1
  <2> QED  BY <1>4, <2>5, <2>6, <2>7, <2>8
<1>5. e \in Nat /\ FairbankEpoch \in Nat
  BY DEF Epochs
<1> QED  BY <1>3, <1>4, <1>5

(* What a row of epoch e is computed from: the newest setting if one was   *)
(* read for e, and the row of the epoch before if not.                     *)
LEMMA RowOf ==
  ASSUME TypeOK, LogOrdered, NEW e \in Epochs, e >= FairbankEpoch, PortionsAvailable(e),
         NEW d \in Delegates
  PROVE  LET read == UpdatesOf(d, UpdatesFor(e))
             row == getAllStakingDelegateRewardPortions(e)[d]
         IN  /\ row \in Values
             /\ read # {} => Settings(d, e) # {} /\ row = Newest(Settings(d, e)).value
             /\ read = {} /\ e = FairbankEpoch => Settings(d, e) = {} /\ row = 0
             /\ read = {} /\ e > FairbankEpoch =>
                  /\ Settings(d, e) = Settings(d, e - 1)
                  /\ row = getLastEpochPortion(e - 1)[d]
<1> DEFINE read == UpdatesOf(d, UpdatesFor(e))
           row == getAllStakingDelegateRewardPortions(e)[d]
           old == IF e = FairbankEpoch THEN 0 ELSE getLastEpochPortion(e - 1)[d]
<1>1. row = IF read = {} THEN old ELSE Newest(read).value
  BY DEF getAllStakingDelegateRewardPortions, Updated
<1>2. read \subseteq log /\ Settings(d, e) \subseteq log
  BY DEF UpdatesOf, UpdatesFor, getLog, Settings
<1>3. e - 1 \in Epochs
  BY StakingEpochHeights
<1>4. old \in Values
  BY <1>3, PortionsAssumption DEF getLastEpochPortion, TypeOK
<1>5. ASSUME read # {}
      PROVE  Settings(d, e) # {} /\ row = Newest(Settings(d, e)).value /\ row \in Values
  <2>1. Newest(read) \in read /\ \A w \in read : w.height <= Newest(read).height
    BY <1>2, <1>5, NewestExists
  <2>2. Newest(read) \in Settings(d, e)
    BY <2>1, WindowFacts
  <2>3. ASSUME NEW w \in Settings(d, e)
        PROVE  w.height <= Newest(read).height
    <3>1. CASE w \in read
      BY <2>1, <3>1
    <3>2. CASE w \notin read
      <4>1. e > FairbankEpoch
        BY <3>2, WindowFacts, Fairbank DEF Epochs
      <4>2. w.height < GetEpochHeight(e - 1)
        BY <3>2, <4>1, WindowFacts
      <4>3. Newest(read).height >= GetEpochHeight(e - 1)
        BY <2>1, <4>1, WindowFacts DEF UpdatesOf
      <4>4. GetEpochHeight(e - 1) \in Nat
        BY <4>1, StakingEpochHeights
      <4>5. w.height \in Nat /\ Newest(read).height \in Nat
        BY <1>2, <2>1 DEF TypeOK
      <4> QED  BY <4>2, <4>3, <4>4, <4>5
    <3> QED  BY <3>1, <3>2
  <2>4. Newest(Settings(d, e)) = Newest(read)
    BY <1>2, <2>2, <2>3, NewestUnique
  <2>5. Newest(read).value \in Values
    BY <1>2, <2>1 DEF TypeOK
  <2> QED  BY <1>1, <1>5, <2>2, <2>4, <2>5
<1>6. ASSUME read = {}, e = FairbankEpoch
      PROVE  Settings(d, e) = {} /\ row = 0
  BY <1>1, <1>6, WindowFacts
<1>7. ASSUME read = {}, e > FairbankEpoch
      PROVE  Settings(d, e) = Settings(d, e - 1) /\ row = getLastEpochPortion(e - 1)[d]
  <2>1. e # FairbankEpoch
    BY <1>7, Fairbank DEF Epochs
  <2>2. Settings(d, e) = Settings(d, e - 1)
    BY <1>7, WindowFacts
  <2> QED  BY <1>1, <1>7, <2>1, <2>2
<1> HIDE DEF read, row, old
<1>8. row \in Values
  BY <1>1, <1>4, <1>5
<1> QED  BY <1>5, <1>6, <1>7, <1>8 DEF read, row

-------------------------------------------------------------------------------

LEMMA InitInv == Init => IInv
<1> SUFFICES ASSUME Init PROVE IInv
  OBVIOUS
<1> USE Fairbank, PortionsAssumption DEF Init
<1>1. TypeOK
  <2>1. NoRows \in UNION {[S -> Values] : S \in SUBSET Delegates}
    <3>1. NoRows \in [{} -> Values] /\ {} \in SUBSET Delegates
      BY DEF NoRows
    <3> QED  BY <3>1
  <2>2. voting_result \in [Epochs -> UNION {[S -> Values] : S \in SUBSET Delegates}]
    BY <2>1
  <2>3. standing \in [Epochs -> SUBSET Delegates]
    BY DEF Epochs
  <2>4. indexed \in (FairbankEpoch - 1) .. GetEpochNumber(MaxHeight)
    OBVIOUS
  <2>5. /\ tip \in 0 .. MaxHeight
        /\ log \subseteq [height : 1 .. MaxHeight, delegate : Delegates, value : Values]
        /\ candidates \subseteq Delegates
        /\ changes \in 0 .. MaxChanges
    OBVIOUS
  <2> QED  BY <2>2, <2>3, <2>4, <2>5 DEF TypeOK
<1>2. IndexedEpochs = {}
  BY DEF IndexedEpochs
<1>3. LogOrdered
  BY DEF LogOrdered
<1> QED  BY <1>1, <1>2, <1>3 DEF IInv, IndexedReached, PortionKept, NeverOutdated

(* A new block changes nothing that an indexed epoch has read. *)
LEMMA NewBlockInv == IInv /\ NewBlock => IInv'
<1> SUFFICES ASSUME IInv, NewBlock PROVE IInv'
  OBVIOUS
<1> USE DEF IInv
<1>1. tip' = tip + 1 /\ tip' \in 1 .. MaxHeight /\ tip \in Nat /\ MaxHeight \in Nat
  BY PortionsAssumption DEF NewBlock, TypeOK
<1>2. \/ log' = log
      \/ /\ tip' >= DeployHeight
         /\ \E d \in Delegates, v \in Values :
              log' = log \cup {[height |-> tip', delegate |-> d, value |-> v]}
  BY DEF NewBlock
<1>3. TypeOK'
  <2>1. log' \subseteq [height : 1 .. MaxHeight, delegate : Delegates, value : Values]
    BY <1>1, <1>2 DEF TypeOK
  <2>2. candidates' \subseteq Delegates
    BY DEF NewBlock, TypeOK
  <2>3. changes' \in 0 .. MaxChanges
    BY PortionsAssumption DEF NewBlock, TypeOK
  <2>4. standing' \in [Epochs -> SUBSET Delegates]
    BY <2>2 DEF NewBlock, TypeOK
  <2>5. voting_result' = voting_result /\ indexed' = indexed
    BY DEF NewBlock
  <2> QED  BY <1>1, <2>1, <2>2, <2>3, <2>4, <2>5 DEF TypeOK
<1>4. LogOrdered'
  <2>1. \A u \in log : u.height \in Nat /\ u.height <= tip /\ DeployHeight <= u.height
    BY DEF TypeOK, LogOrdered
  <2>2. \A u \in log' : u \in log \/ u.height = tip + 1
    BY <1>1, <1>2
  <2>3. \A u \in log' : DeployHeight <= u.height /\ u.height <= tip'
    BY <1>1, <1>2, <2>1, PortionsAssumption
  <2>4. ASSUME NEW u \in log', NEW w \in log', u.height = w.height
        PROVE  u = w
    <3>1. CASE u.height = tip + 1
      <4>1. u \notin log /\ w \notin log
        <5>1. tip \in Nat /\ ~ (tip + 1 <= tip)
          BY <1>1
        <5>2. u \in log => u.height <= tip
          BY <2>1
        <5>3. w \in log => w.height <= tip
          BY <2>1
        <5> QED  BY <2>4, <3>1, <5>1, <5>2, <5>3
      <4>2. CASE log' = log
        BY <4>1, <4>2
      <4>3. CASE log' # log
        <5>1. PICK dd \in Delegates, v \in Values :
                log' = log \cup {[height |-> tip', delegate |-> dd, value |-> v]}
          BY <1>2, <4>3
        <5> QED  BY <4>1, <5>1
      <4> QED  BY <4>2, <4>3
    <3>2. CASE u.height # tip + 1
      BY <2>2, <2>4, <3>2 DEF LogOrdered
    <3> QED  BY <3>1, <3>2
  <2> QED  BY <2>3, <2>4 DEF LogOrdered
<1>5. UNCHANGED <<voting_result, indexed>> /\ IndexedEpochs' = IndexedEpochs
  BY DEF NewBlock, IndexedEpochs
<1>6. ASSUME NEW e \in IndexedEpochs
      PROVE  e \in Epochs /\ e >= FairbankEpoch /\ GetEpochHeight(e) \in Nat /\ GetEpochHeight(e) <= tip
  <2>1. e \in Epochs /\ e >= FairbankEpoch
    BY Fairbank DEF IndexedEpochs, Epochs, TypeOK
  <2> QED  BY <2>1, StakingEpochHeights DEF IndexedReached
<1>7. IndexedReached'
  BY <1>1, <1>5, <1>6 DEF IndexedReached
<1>8. ASSUME NEW e \in IndexedEpochs, NEW d
      PROVE  Settings(d, e)' = Settings(d, e)
  <2>1. Horizon(e) <= tip /\ Horizon(e) \in Int
    BY <1>1, <1>6, PortionsAssumption DEF Horizon
  <2>2. \A u \in log' : u.height <= Horizon(e) => u \in log
    BY <1>1, <1>2, <2>1
  <2>3. log \subseteq log'
    BY <1>2
  <2> QED  BY <2>2, <2>3 DEF Settings, UpdatesOf
<1>9. \A e \in IndexedEpochs, d \in Delegates : Kept(d, e)' <=> Kept(d, e)
  BY <1>5, <1>8 DEF Kept
<1>10. \A e \in IndexedEpochs : DOMAIN voting_result[e] \subseteq Delegates
  BY <1>6 DEF TypeOK
<1>11. PortionKept'
  BY <1>5, <1>8, <1>9, <1>10 DEF PortionKept
<1>12. NeverOutdated'
  BY <1>5, <1>8 DEF NeverOutdated
<1> QED  BY <1>3, <1>4, <1>7, <1>11, <1>12

(* Indexing an epoch adds rows that follow from the log and from the rows  *)
(* of the epoch before, and leaves the older ones alone.                   *)
LEMMA ProcessStakingInv == IInv /\ processStaking => IInv'
<1> SUFFICES ASSUME IInv, processStaking PROVE IInv'
  OBVIOUS
<1> USE DEF IInv
<1>1. PICK e \in Epochs :
      /\ e = indexed + 1
      /\ tip >= GetEpochHeight(e)
      /\ PortionsAvailable(e)
      /\ voting_result' = [voting_result EXCEPT ![e] =
           [d \in GetAllStakingCandidates(e) |-> getAllStakingDelegateRewardPortions(e)[d]]]
      /\ indexed' = e
      /\ UNCHANGED <<tip, log, candidates, standing, changes>>
  BY DEF processStaking, chain
<1>2. indexed \in Int /\ e \in Nat /\ e >= FairbankEpoch
  BY Fairbank, <1>1 DEF TypeOK, Epochs
<1>3. e - 1 \in Epochs /\ GetEpochHeight(e) \in Nat
  BY <1>1, <1>2, StakingEpochHeights
<1>4. GetAllStakingCandidates(e) \subseteq Delegates
  BY <1>3 DEF TypeOK, GetAllStakingCandidates
<1>5. \A d \in Delegates : getAllStakingDelegateRewardPortions(e)[d] \in Values
  BY <1>1, <1>2, RowOf
<1>6. TypeOK'
  <2> DEFINE rows == [d \in GetAllStakingCandidates(e) |-> getAllStakingDelegateRewardPortions(e)[d]]
  <2>1. rows \in [GetAllStakingCandidates(e) -> Values]
    BY <1>4, <1>5
  <2>2. rows \in UNION {[S -> Values] : S \in SUBSET Delegates}
    BY <1>4, <2>1
  <2>3. voting_result' \in [Epochs -> UNION {[S -> Values] : S \in SUBSET Delegates}]
    <3> HIDE DEF rows
    <3>1. voting_result' = [voting_result EXCEPT ![e] = rows]
      BY <1>1 DEF rows
    <3> QED  BY <2>2, <3>1 DEF TypeOK
  <2>4. indexed' \in (FairbankEpoch - 1) .. GetEpochNumber(MaxHeight)
    BY <1>1, <1>2, Fairbank DEF Epochs
  <2> QED  BY <1>1, <2>3, <2>4 DEF TypeOK
<1>7. LogOrdered'
  BY <1>1 DEF LogOrdered
<1>8. \A f \in IndexedEpochs' : f = e \/ (f # e /\ f \in IndexedEpochs)
  BY <1>1, <1>2, Fairbank DEF IndexedEpochs
<1>9. IndexedReached'
  BY <1>1, <1>8 DEF IndexedReached
<1>10. \A f, d : Settings(d, f)' = Settings(d, f)
  BY <1>1 DEF Settings, UpdatesOf
<1>11. ASSUME NEW f \in IndexedEpochs
       PROVE  /\ voting_result'[f] = voting_result[f]
              /\ DOMAIN voting_result[f] \subseteq Delegates
              /\ \A d : Kept(d, f)' <=> Kept(d, f)
  <2>1. \A g \in FairbankEpoch .. f : g \in Epochs /\ g # e
    BY <1>1, <1>2, Fairbank DEF IndexedEpochs, Epochs, TypeOK
  <2>2. f \in FairbankEpoch .. f
    BY Fairbank DEF IndexedEpochs, TypeOK
  <2>3. \A g \in FairbankEpoch .. f : voting_result'[g] = voting_result[g]
    BY <1>1, <2>1 DEF TypeOK
  <2> QED  BY <1>10, <2>1, <2>2, <2>3 DEF Kept, TypeOK
<1>12. ASSUME NEW d \in DOMAIN voting_result'[e]
       PROVE  /\ d \in Delegates
              /\ voting_result'[e][d] = getAllStakingDelegateRewardPortions(e)[d]
  BY <1>1, <1>4 DEF TypeOK
<1>13. PortionKept'
  <2> SUFFICES ASSUME NEW f \in IndexedEpochs', NEW d \in DOMAIN voting_result'[f],
                      Settings(d, f) # {}, Kept(d, f)'
               PROVE  voting_result'[f][d] = Newest(Settings(d, f)).value
    BY <1>10 DEF PortionKept
  <2>1. CASE f \in IndexedEpochs
    BY <1>11, <2>1 DEF PortionKept
  <2>2. CASE f = e
    <3> DEFINE read == UpdatesOf(d, UpdatesFor(e))
    <3>1. CASE read # {}
      BY <1>1, <1>2, <1>12, <2>2, <3>1, RowOf
    <3>2. CASE read = {} /\ e = FairbankEpoch
      BY <1>1, <1>2, <1>12, <2>2, <3>2, RowOf
    <3>3. CASE read = {} /\ e > FairbankEpoch
      <4>1. /\ d \in Delegates
            /\ Settings(d, e) = Settings(d, e - 1)
            /\ voting_result'[e][d] = getLastEpochPortion(e - 1)[d]
        BY <1>1, <1>2, <1>12, <2>2, <3>3, RowOf
      <4>2. e - 1 \in IndexedEpochs /\ e - 1 \in FairbankEpoch .. e
        BY <1>1, <1>2, <3>3, Fairbank DEF IndexedEpochs
      <4>3. Newest(Settings(d, e - 1)) \in Settings(d, e - 1)
        <5>1. Settings(d, e - 1) \subseteq log
          BY DEF Settings, UpdatesOf
        <5> QED  BY <2>2, <4>1, <5>1, NewestExists
      <4>4. Kept(d, e - 1)'
        <5>1. \A g \in FairbankEpoch .. (e - 1) : g \in FairbankEpoch .. e
          BY <1>2, Fairbank
        <5> QED  BY <1>10, <2>2, <4>1, <5>1 DEF Kept
      <4>5. d \in DOMAIN voting_result'[e - 1]
        <5>1. Newest(Settings(d, e - 1)).height <= Horizon(e - 1)
          BY <4>3 DEF Settings
        <5> QED  BY <1>10, <2>2, <4>1, <4>2, <5>1 DEF Kept
      <4>6. voting_result[e - 1][d] = Newest(Settings(d, e - 1)).value
        BY <1>11, <2>2, <4>1, <4>2, <4>4, <4>5 DEF PortionKept
      <4>7. getLastEpochPortion(e - 1)[d] = voting_result[e - 1][d]
        BY <1>11, <4>1, <4>2, <4>5 DEF getLastEpochPortion
      <4> QED  BY <2>2, <4>1, <4>6, <4>7
    <3> QED  BY <1>2, <3>1, <3>2, <3>3, Fairbank
  <2> QED  BY <1>8, <2>1, <2>2
<1>14. NeverOutdated'
  <2> SUFFICES ASSUME NEW f \in IndexedEpochs', NEW d \in DOMAIN voting_result'[f],
                      voting_result'[f][d] # 0
               PROVE  /\ Settings(d, f) # {}
                      /\ voting_result'[f][d] = Newest(Settings(d, f)).value
    BY <1>10 DEF NeverOutdated
  <2>1. CASE f \in IndexedEpochs
    BY <1>11, <2>1 DEF NeverOutdated
  <2>2. CASE f = e
    <3> DEFINE read == UpdatesOf(d, UpdatesFor(e))
    <3>1. CASE read # {}
      BY <1>1, <1>2, <1>12, <2>2, <3>1, RowOf
    <3>2. CASE read = {} /\ e = FairbankEpoch
      BY <1>1, <1>2, <1>12, <2>2, <3>2, RowOf
    <3>3. CASE read = {} /\ e > FairbankEpoch
      <4>1. /\ d \in Delegates
            /\ Settings(d, e) = Settings(d, e - 1)
            /\ voting_result'[e][d] = getLastEpochPortion(e - 1)[d]
        BY <1>1, <1>2, <1>12, <2>2, <3>3, RowOf
      <4>2. e - 1 \in IndexedEpochs
        BY <1>1, <1>2, <3>3, Fairbank DEF IndexedEpochs
      <4>3. /\ d \in DOMAIN voting_result[e - 1]
            /\ getLastEpochPortion(e - 1)[d] = voting_result[e - 1][d]
        BY <2>2, <4>1 DEF getLastEpochPortion
      <4> QED  BY <2>2, <4>1, <4>2, <4>3 DEF NeverOutdated
    <3> QED  BY <1>2, <3>1, <3>2, <3>3, Fairbank
  <2> QED  BY <1>8, <2>1, <2>2
<1> QED  BY <1>6, <1>7, <1>9, <1>13, <1>14

LEMMA StutterInv == IInv /\ UNCHANGED vars => IInv'
<1> SUFFICES ASSUME IInv, UNCHANGED vars PROVE IInv'
  OBVIOUS
<1> USE DEF vars, chain
<1>1. TypeOK' /\ LogOrdered' /\ IndexedEpochs' = IndexedEpochs
  BY DEF IInv, TypeOK, LogOrdered, IndexedEpochs
<1>2. \A e, d : Settings(d, e)' = Settings(d, e) /\ (Kept(d, e)' <=> Kept(d, e))
  BY DEF Settings, UpdatesOf, Kept
<1> QED  BY <1>1, <1>2 DEF IInv, IndexedReached, PortionKept, NeverOutdated

-------------------------------------------------------------------------------
(* The invariant holds in every behaviour. *)
THEOREM PortionsInvariant == Spec => []IInv
<1>1. IInv /\ [Next]_vars => IInv'
  BY NewBlockInv, ProcessStakingInv, StutterInv DEF Next
<1> QED  BY InitInv, <1>1, PTL DEF Spec

(* Reading the log epoch by epoch loses nothing for a delegate that stays  *)
(* a candidate, wherever the epochs and the delays fall.                   *)
THEOREM PortionsAreKept == Spec => []PortionKept
<1>1. IInv => PortionKept
  BY DEF IInv
<1> QED  BY PortionsInvariant, <1>1, PTL

(* No row shows a portion that has been changed since. *)
THEOREM PortionsAreNeverOutdated == Spec => []NeverOutdated
<1>1. IInv => NeverOutdated
  BY DEF IInv
<1> QED  BY PortionsInvariant, <1>1, PTL

===============================================================================
