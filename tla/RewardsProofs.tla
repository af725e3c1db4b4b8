----------------------------- MODULE RewardsProofs -----------------------------
(***************************************************************************)
(* The rewards protocol and the queries that split rewards, proved for any *)
(* candidates, votes and grants, any number of epochs, and every order in  *)
(* which Go may put delegates of equal votes.                              *)
(***************************************************************************)
EXTENDS Bookkeeping, ArithmeticProofs, SequenceTheorems

-------------------------------------------------------------------------------
(* The blocks of the node. *)
Grants == UNION {[A -> Rewards] : A \in SUBSET Addresses}

Blocks == [producer : Delegates, granted : Grants, closing : Grants]

ChainFormed ==
  /\ height \in Nat /\ Len(chain) \in {height, height + 1}
  /\ chain \in Seq(Blocks)
  /\ snapshots \in Seq(Snapshots)
  /\ Len(snapshots) = EpochOf(Len(chain)) /\ EpochOf(Len(chain)) <= MaxEpoch

(* What the tables owe to them: a row for each block, the votes of each    *)
(* epoch begun, and rewards under the names of their own epoch.            *)
TablesFormed ==
  /\ block_history \in Seq([producer : Delegates, expected : Delegates])
  /\ Len(block_history) = height
  /\ voting_result = [e \in 1 .. EpochOf(height) |-> snapshots[e].result]
  /\ aggregate_voting = [e \in 1 .. EpochOf(height) |-> snapshots[e].voters]
  /\ IsFiniteSet(reward_history)
  /\ \A r \in reward_history :
       /\ r.epoch \in 1 .. EpochOf(height) /\ r.address \in Addresses /\ r.reward \in Rewards
       /\ r.name = candidateName(r.address, updateCandidateRewardAddress(r.epoch))

(* The map in memory is that of some epoch.                                *)
MapFormed ==
  RewardAddrToName # Nil =>
    \E e \in 1 .. EpochOf(Len(chain)) : RewardAddrToName = updateCandidateRewardAddress(e)

(* And if the next block does not refresh it, it is that of the block's.   *)
MapIsFresh ==
  RewardAddrToName # Nil /\ ~ OpensEpoch(height + 1) =>
    RewardAddrToName = updateCandidateRewardAddress(EpochOf(height + 1))

(* The rewards of a closed epoch are still those that the rows of the      *)
(* epoch give, in some order of the delegates.                             *)
ClosedAsRebuilt ==
  /\ DOMAIN account_reward = Epochs
  /\ \A e \in Closed : \E rank \in Ranks(e) :
       account_reward[e] = rebuildAccountRewardTable(e, rank)

(* Of any other epoch there are none yet.                                  *)
OpenIsEmpty ==
  \A e \in Epochs \ Closed : account_reward[e] = <<>>

RInv ==
  ChainFormed /\ TablesFormed /\ MapFormed /\ MapIsFresh /\ ClosedAsRebuilt /\ OpenIsEmpty

-------------------------------------------------------------------------------
(* Heights and epochs.                                                     *)
LEMMA EpochOfHeights ==
  ASSUME NEW h \in Nat
  PROVE  /\ EpochOf(0) = 0 /\ EpochOf(h) \in Nat
         /\ h > 0 => EpochOf(h) > 0
         /\ EpochOf(h + 1) = IF OpensEpoch(h + 1) THEN EpochOf(h) + 1 ELSE EpochOf(h)
<1>1. BlocksPerEpoch \in Nat \ {0}
  BY RewardsAssumption
<1>2. EpochOf(0) = 0
  BY <1>1 DEF EpochOf
<1>3. CASE h = 0
  <2>1. EpochOf(1) = 1 /\ OpensEpoch(1) /\ h + 1 = 1
    BY <1>1, <1>3 DEF EpochOf, OpensEpoch
  <2> QED  BY <1>2, <1>3, <2>1
<1>4. CASE h > 0
  <2> DEFINE q == (h - 1) \div BlocksPerEpoch
  <2>1. q \in Nat
    BY <1>1, <1>4
  <2>2. /\ (h % BlocksPerEpoch = 0) => h \div BlocksPerEpoch = q + 1
        /\ (h % BlocksPerEpoch # 0) => h \div BlocksPerEpoch = q
    BY <1>1, <1>4
  <2>3. (h + 1) - 1 = h
    OBVIOUS
  <2>4. /\ OpensEpoch(h + 1) <=> h % BlocksPerEpoch = 0
        /\ EpochOf(h + 1) = (h \div BlocksPerEpoch) + 1
        /\ EpochOf(h) = q + 1
    BY <2>3 DEF OpensEpoch, EpochOf
  <2> HIDE DEF q
  <2> QED  BY <1>2, <1>4, <2>1, <2>2, <2>4
<1> QED  BY <1>3, <1>4

LEMMA EpochEnds ==
  ASSUME NEW h \in Nat
  PROVE  ClosesEpoch(h) <=> OpensEpoch(h + 1)
<1>1. (h + 1) - 1 = h
  OBVIOUS
<1> QED  BY <1>1 DEF ClosesEpoch, OpensEpoch

(* Rewards are triples.                                                    *)
LEMMA RewardParts ==
  /\ \A r \in Rewards : /\ r.block \in Nat /\ r.epoch \in Nat /\ r.bonus \in Nat
                        /\ r["block"] = r.block /\ r["epoch"] = r.epoch /\ r["bonus"] = r.bonus
                        /\ r = Reward(r.block, r.epoch, r.bonus)
  /\ \A x, y, z \in Nat : /\ Reward(x, y, z) \in Rewards
                          /\ Reward(x, y, z).block = x
                          /\ Reward(x, y, z).epoch = y
                          /\ Reward(x, y, z).bonus = z
  /\ \A r \in Rewards : \A k \in Kinds : r[k] \in Nat
  /\ Zero \in Rewards /\ \A k \in Kinds : Zero[k] = 0
BY DEF Rewards, Reward, Kinds, Zero

(* The rewards of a set of rows.                                           *)
LEMMA TotalType ==
  ASSUME NEW rows, IsFiniteSet(rows), \A r \in rows : r.reward \in Rewards
  PROVE  /\ Total(rows) \in Rewards
         /\ rows = {} => Total(rows) = Zero
<1> DEFINE f(k) == [r \in rows |-> r.reward[k]]
<1>1. ASSUME NEW k \in Kinds
      PROVE  SumFunction(f(k)) \in Nat /\ (rows = {} => SumFunction(f(k)) = 0)
  <2>1. DOMAIN f(k) = rows /\ \A r \in rows : f(k)[r] \in Nat
    BY RewardParts
  <2>2. SumFunction(f(k)) = SumFunctionOnSet(f(k), rows)
    BY <2>1 DEF SumFunction
  <2> HIDE DEF f
  <2>3. SumFunctionOnSet(f(k), rows) \in Nat
    BY <2>1, SumOfNats
  <2>4. rows = {} => SumFunctionOnSet(f(k), rows) = 0
    BY SumEmpty
  <2> QED  BY <2>2, <2>3, <2>4
<1>2. Total(rows) = [k \in Kinds |-> SumFunction(f(k))]
  BY DEF Total
<1> HIDE DEF f
<1>3. Total(rows) \in Rewards
  BY <1>1, <1>2 DEF Rewards
<1>4. ASSUME rows = {}
      PROVE  Total(rows) = Zero
  <2>1. \A k \in Kinds : Total(rows)[k] = 0
    BY <1>1, <1>2, <1>4
  <2>2. Total(rows).block = 0 /\ Total(rows).epoch = 0 /\ Total(rows).bonus = 0
    BY <1>3, <2>1, RewardParts DEF Kinds
  <2> QED  BY <1>3, <2>2, RewardParts DEF Zero
<1> QED  BY <1>3, <1>4

(* The constants.                                                          *)
LEMMA SnapshotTypes ==
  ASSUME NEW s \in Snapshots
  PROVE  /\ IsFiniteSet(DOMAIN s.result) /\ Nobody \notin DOMAIN s.result
         /\ DOMAIN s.result \subseteq Delegates
         /\ \A d \in DOMAIN s.result : s.result[d].address \in Addresses /\ s.result[d].votes \in Nat
<1>1. /\ ActiveBlockProducers \in Seq(DOMAIN s.result)
      /\ IsFiniteSet(DOMAIN s.result) /\ Nobody \notin DOMAIN s.result
  BY RewardsAssumption, AmountsAssumption DEF Nobody
<1>2. \A d \in DOMAIN s.result : s.result[d].address \in Addresses /\ s.result[d].votes \in Nat
  BY AmountsAssumption
<1>3. DOMAIN s.result \subseteq Delegates
  BY DEF Delegates
<1> QED  BY <1>1, <1>2, <1>3

LEMMA ExpectedProducers ==
  ASSUME NEW s \in Snapshots, NEW h \in Nat
  PROVE  expectedProducer(h) \in DOMAIN s.result
<1> DEFINE n == Len(ActiveBlockProducers)
<1>1. /\ ActiveBlockProducers \in Seq(DOMAIN s.result) /\ n \in Nat \ {0}
  BY RewardsAssumption
<1>2. (h % n) + 1 \in 1 .. n
  <2> HIDE DEF n
  <2> QED  BY <1>1
<1> QED  BY <1>1, <1>2 DEF expectedProducer

(* No grant is one, too. *)
LEMMA NoGrant == <<>> \in Grants /\ DOMAIN <<>> = {}
<1>1. <<>> \in [{} -> Rewards]
  OBVIOUS
<1>2. {} \in SUBSET Addresses
  OBVIOUS
<1> QED  BY <1>1, <1>2 DEF Grants

-------------------------------------------------------------------------------
(* A step that leaves the rows of an epoch alone leaves alone what they    *)
(* give.                                                                   *)
HeightsOf(e) == {h \in DOMAIN block_history : EpochOf(h) = e}

LEMMA ProductivitySame ==
  ASSUME NEW e, HeightsOf(e)' = HeightsOf(e),
         \A h \in HeightsOf(e) : block_history'[h] = block_history[h]
  PROVE  getProductivity(e)' = getProductivity(e)
<1> DEFINE H == HeightsOf(e)
           E == {block_history[h].expected : h \in H}
           p(d) == {h \in H : block_history[h].producer = d}
           x(d) == {h \in H : block_history[h].expected = d}
           E1 == {block_history'[h].expected : h \in H}
           p1(d) == {h \in H : block_history'[h].producer = d}
           x1(d) == {h \in H : block_history'[h].expected = d}
<1>1. getProductivity(e) =
        [d \in E |-> [Production |-> Cardinality(p(d)), ExpectedProduction |-> Cardinality(x(d))]]
  BY DEF getProductivity, HeightsOf
<1>2. getProductivity(e)' =
        [d \in E1 |-> [Production |-> Cardinality(p1(d)), ExpectedProduction |-> Cardinality(x1(d))]]
  <2>1. H = {h \in DOMAIN block_history' : EpochOf(h) = e}
    BY DEF HeightsOf
  <2> HIDE DEF H
  <2> QED  BY <2>1 DEF getProductivity
<1>3. E1 = E /\ \A d : p1(d) = p(d) /\ x1(d) = x(d)
  OBVIOUS
<1> HIDE DEF E, p, x, E1, p1, x1
<1> QED  BY <1>1, <1>2, <1>3

Assembled(parts) ==
  [d \in UNION {DOMAIN p : p \in parts} |-> (CHOOSE p \in parts : d \in DOMAIN p)[d]]

LEMMA RebuildSame ==
  ASSUME NEW e, HeightsOf(e)' = HeightsOf(e),
         \A h \in HeightsOf(e) : block_history'[h] = block_history[h],
         voting_result'[e] = voting_result[e],
         {r \in reward_history' : r.epoch = e} = {r \in reward_history : r.epoch = e}
  PROVE  /\ AddressesPaid(e)' = AddressesPaid(e)
         /\ \A a : AggregateReward(e, a)' = AggregateReward(e, a)
         /\ Ranks(e)' = Ranks(e)
         /\ \A rank : rebuildAccountRewardTable(e, rank)' = rebuildAccountRewardTable(e, rank)
<1>1. AddressesPaid(e)' = AddressesPaid(e)
  BY DEF AddressesPaid
<1>2. \A a : {r \in reward_history' : r.epoch = e /\ r.address = a}
               = {r \in reward_history : r.epoch = e /\ r.address = a}
  OBVIOUS
<1>3. \A a : AggregateReward(e, a)' = AggregateReward(e, a)
  BY <1>2 DEF AggregateReward
<1>4. getProductivity(e)' = getProductivity(e)
  BY ProductivitySame
<1>5. ASSUME NEW a, NEW rank
      PROVE  RewardsOf(e, a, rank)' = RewardsOf(e, a, rank)
  BY <1>3, <1>4 DEF RewardsOf
<1>6. \A rank : {RewardsOf(e, a, rank[a]) : a \in AddressesPaid(e)}'
                  = {RewardsOf(e, a, rank[a]) : a \in AddressesPaid(e)}
  BY <1>1, <1>5
<1>7. Ranks(e)' = Ranks(e)
  BY DEF Ranks
<1>8. ASSUME NEW rank
      PROVE  rebuildAccountRewardTable(e, rank)' = rebuildAccountRewardTable(e, rank)
  <2> DEFINE parts == {RewardsOf(e, a, rank[a]) : a \in AddressesPaid(e)}
  <2>1. rebuildAccountRewardTable(e, rank) = Assembled(parts)
    BY DEF rebuildAccountRewardTable, Assembled
  <2>2. rebuildAccountRewardTable(e, rank)' = Assembled(parts')
    BY DEF rebuildAccountRewardTable, Assembled
  <2>3. parts' = parts
    BY <1>6
  <2> HIDE DEF parts
  <2> QED  BY <2>1, <2>2, <2>3
<1> QED  BY <1>1, <1>3, <1>7, <1>8

-------------------------------------------------------------------------------
(* The invariant.                                                          *)
LEMMA InitRewards == Init => RInv
<1> SUFFICES ASSUME Init  PROVE RInv
  OBVIOUS
<1>1. EpochOf(0) = 0 /\ MaxEpoch \in Nat
  BY EpochOfHeights, RewardsAssumption
<1>2. Len(chain) = 0 /\ Len(snapshots) = 0 /\ height = 0 /\ chain \in Seq(Blocks)
      /\ snapshots \in Seq(Snapshots)
  BY DEF Init
<1>3. ChainFormed
  BY <1>1, <1>2 DEF ChainFormed
<1>4. 1 .. EpochOf(height) = {}
  BY <1>1, <1>2
<1>5. TablesFormed
  <2>1. voting_result = [e \in 1 .. EpochOf(height) |-> snapshots[e].result]
    BY <1>4 DEF Init
  <2>2. aggregate_voting = [e \in 1 .. EpochOf(height) |-> snapshots[e].voters]
    BY <1>4 DEF Init
  <2>3. IsFiniteSet(reward_history) /\ reward_history = {}
    BY FS_EmptySet DEF Init
  <2>4. /\ block_history \in Seq([producer : Delegates, expected : Delegates])
        /\ Len(block_history) = height
    BY DEF Init
  <2> QED  BY <2>1, <2>2, <2>3, <2>4 DEF TablesFormed
<1>6. MapFormed /\ MapIsFresh /\ ClosedAsRebuilt /\ OpenIsEmpty
  <2>1. Closed = {}
    BY <1>1, <1>2 DEF Closed
  <2> QED  BY <2>1 DEF MapFormed, MapIsFresh, ClosedAsRebuilt, OpenIsEmpty, Init
<1> QED  BY <1>3, <1>5, <1>6 DEF RInv

LEMMA ChosenFrom ==
  ASSUME NEW S, S # {}, NEW h
  PROVE  Chosen(S, h) \subseteq S
BY DEF Chosen

(* What a block grants, and what the end of an epoch does. *)
LEMMA GrantTypes ==
  /\ \A a \in Addresses : BlockGrants(a) \subseteq Grants /\ BlockGrants(a) # {}
  /\ EpochGrants \subseteq Grants
<1>1. ASSUME NEW a \in Addresses
      PROVE  [x \in {a} |-> Reward(BlockReward, 0, 0)] \in Grants
  <2>1. Reward(BlockReward, 0, 0) \in Rewards
    BY RewardParts, AmountsAssumption
  <2>2. [x \in {a} |-> Reward(BlockReward, 0, 0)] \in [{a} -> Rewards] /\ {a} \in SUBSET Addresses
    BY <2>1
  <2> QED  BY <2>2 DEF Grants
<1>2. \A a \in Addresses : BlockGrants(a) \subseteq Grants /\ BlockGrants(a) # {}
  BY <1>1, NoGrant DEF BlockGrants
<1>3. ASSUME NEW g \in EpochGrants
      PROVE  g \in Grants
  <2>1. DOMAIN g \in SUBSET Addresses /\ g \in [DOMAIN g -> Rewards]
    BY AmountsAssumption DEF Rewards, Kinds
  <2> QED  BY <2>1 DEF Grants
<1> QED  BY <1>2, <1>3

(* The node has one more block, whose epoch is one more if it opens one.   *)
LEMMA BlockAdded ==
  ASSUME RInv, NewBlock
  PROVE  /\ ChainFormed'
         /\ height = Len(chain) /\ Len(chain') = height + 1
         /\ \A e \in 1 .. EpochOf(height) : snapshots'[e] = snapshots[e]
<1> DEFINE h == Len(chain) + 1
           begun == IF OpensEpoch(h) THEN Chosen(Snapshots, h) ELSE {snapshots[EpochOf(h)]}
<1>1. /\ height = Len(chain)
      /\ EpochOf(h) < MaxEpoch \/ (EpochOf(h) = MaxEpoch /\ OpensEpoch(h))
      /\ \E s \in begun :
           /\ snapshots' = IF OpensEpoch(h) THEN Append(snapshots, s) ELSE snapshots
           /\ \E p \in Chosen(Range(ActiveBlockProducers), h) :
                \E r \in Chosen(BlockGrants(s.result[p].address), h),
                   g \in IF ClosesEpoch(h) THEN EpochGrants ELSE {<<>>} :
                  chain' = Append(chain, [producer |-> p, granted |-> r, closing |-> g])
      /\ height' = height
  BY DEF NewBlock
<1>2. PICK s \in begun :
           /\ snapshots' = IF OpensEpoch(h) THEN Append(snapshots, s) ELSE snapshots
           /\ \E p \in Chosen(Range(ActiveBlockProducers), h) :
                \E r \in Chosen(BlockGrants(s.result[p].address), h),
                   g \in IF ClosesEpoch(h) THEN EpochGrants ELSE {<<>>} :
                  chain' = Append(chain, [producer |-> p, granted |-> r, closing |-> g])
  BY <1>1
<1>3. PICK p \in Chosen(Range(ActiveBlockProducers), h) :
                \E r \in Chosen(BlockGrants(s.result[p].address), h),
                   g \in IF ClosesEpoch(h) THEN EpochGrants ELSE {<<>>} :
                  chain' = Append(chain, [producer |-> p, granted |-> r, closing |-> g])
  BY <1>2
<1>4. PICK r \in Chosen(BlockGrants(s.result[p].address), h),
           g \in IF ClosesEpoch(h) THEN EpochGrants ELSE {<<>>} :
                  chain' = Append(chain, [producer |-> p, granted |-> r, closing |-> g])
  BY <1>3
<1>5. /\ height \in Nat /\ chain \in Seq(Blocks) /\ snapshots \in Seq(Snapshots)
      /\ Len(snapshots) = EpochOf(Len(chain)) /\ h = height + 1 /\ h \in Nat
  BY <1>1 DEF RInv, ChainFormed
<1>6. /\ EpochOf(height) \in Nat /\ EpochOf(h) > 0
      /\ EpochOf(h) = IF OpensEpoch(h) THEN EpochOf(height) + 1 ELSE EpochOf(height)
  BY <1>5, EpochOfHeights
<1>7. s \in Snapshots
  <2>1. CASE OpensEpoch(h)
    BY <2>1, RewardsAssumption, ChosenFrom
  <2>2. CASE ~ OpensEpoch(h)
    <3>1. EpochOf(h) \in 1 .. Len(snapshots)
      BY <1>1, <1>5, <1>6, <2>2
    <3> QED  BY <1>5, <2>2, <3>1
  <2> QED  BY <2>1, <2>2
<1>8. p \in DOMAIN s.result
  <2>1. ActiveBlockProducers \in Seq(DOMAIN s.result) /\ ActiveBlockProducers # <<>>
    BY <1>7, RewardsAssumption
  <2>2. Range(ActiveBlockProducers) # {} /\ Range(ActiveBlockProducers) \subseteq DOMAIN s.result
    <3>1. 1 \in DOMAIN ActiveBlockProducers
      BY <2>1
    <3>2. ActiveBlockProducers[1] \in Range(ActiveBlockProducers)
      BY <3>1 DEF Range
    <3>3. \A i \in DOMAIN ActiveBlockProducers : ActiveBlockProducers[i] \in DOMAIN s.result
      BY <2>1
    <3> QED  BY <3>2, <3>3 DEF Range
  <2>3. Chosen(Range(ActiveBlockProducers), h) \subseteq Range(ActiveBlockProducers)
    BY <2>2, ChosenFrom
  <2> QED  BY <2>2, <2>3
<1>9. p \in Delegates /\ s.result[p].address \in Addresses
  BY <1>7, <1>8, SnapshotTypes
<1>10. r \in Grants
  BY <1>9, GrantTypes, ChosenFrom
<1>11. g \in Grants
  BY GrantTypes, NoGrant
<1>12. [producer |-> p, granted |-> r, closing |-> g] \in Blocks
  BY <1>9, <1>10, <1>11 DEF Blocks
<1>13. chain' \in Seq(Blocks) /\ Len(chain') = Len(chain) + 1
  BY <1>4, <1>5, <1>12, AppendProperties
<1>14. /\ snapshots' \in Seq(Snapshots)
       /\ Len(snapshots') = IF OpensEpoch(h) THEN Len(snapshots) + 1 ELSE Len(snapshots)
       /\ \A e \in 1 .. Len(snapshots) : snapshots'[e] = snapshots[e]
  BY <1>2, <1>5, <1>7, AppendProperties
<1>15. EpochOf(h) <= MaxEpoch /\ Len(snapshots') = EpochOf(h) /\ Len(chain') = h
  BY <1>1, <1>5, <1>6, <1>13, <1>14, RewardsAssumption
<1> HIDE DEF h, begun
<1>16. ChainFormed'
  BY <1>1, <1>5, <1>13, <1>14, <1>15 DEF ChainFormed
<1> QED  BY <1>1, <1>5, <1>13, <1>14, <1>16

(* The names of an epoch are those of its snapshot. *)
LEMMA NamesSame ==
  ASSUME NEW e, snapshots'[e] = snapshots[e]
  PROVE  updateCandidateRewardAddress(e)' = updateCandidateRewardAddress(e)
BY DEF updateCandidateRewardAddress

(* What the tables owe to the chain they still owe when only the chain and *)
(* the snapshots have grown.                                               *)
LEMMA TablesKept ==
  ASSUME RInv, UNCHANGED <<height, tables>>,
         \A e \in 1 .. EpochOf(height) : snapshots'[e] = snapshots[e]
  PROVE  TablesFormed' /\ ClosedAsRebuilt' /\ OpenIsEmpty'
<1>1. /\ height' = height /\ block_history' = block_history /\ reward_history' = reward_history
      /\ voting_result' = voting_result /\ aggregate_voting' = aggregate_voting
      /\ account_reward' = account_reward /\ EpochOf(height)' = EpochOf(height)
      /\ Closed' = Closed
  BY DEF tables, Closed
<1>2. \A e \in 1 .. EpochOf(height) :
        updateCandidateRewardAddress(e)' = updateCandidateRewardAddress(e)
  BY NamesSame
<1>3. /\ [e \in 1 .. EpochOf(height) |-> snapshots'[e].result]
           = [e \in 1 .. EpochOf(height) |-> snapshots[e].result]
      /\ [e \in 1 .. EpochOf(height) |-> snapshots'[e].voters]
           = [e \in 1 .. EpochOf(height) |-> snapshots[e].voters]
  OBVIOUS
<1>4. \A r \in reward_history' :
       /\ r.epoch \in 1 .. EpochOf(height) /\ r.address \in Addresses /\ r.reward \in Rewards
       /\ r.name = candidateName(r.address, updateCandidateRewardAddress(r.epoch)')
  BY <1>1, <1>2 DEF RInv, TablesFormed
<1>5. TablesFormed'
  BY <1>1, <1>3, <1>4 DEF RInv, TablesFormed
<1>6. \A e : Ranks(e)' = Ranks(e)
             /\ \A rank : rebuildAccountRewardTable(e, rank)' = rebuildAccountRewardTable(e, rank)
  BY <1>1, RebuildSame DEF HeightsOf
<1>7. ClosedAsRebuilt'
  BY <1>1, <1>6 DEF RInv, ClosedAsRebuilt
<1>8. OpenIsEmpty'
  BY <1>1 DEF RInv, OpenIsEmpty, Closed, Epochs
<1> QED  BY <1>5, <1>7, <1>8

LEMMA NewBlockKeeps ==
  ASSUME RInv, NewBlock
  PROVE  RInv'
<1>1. /\ ChainFormed' /\ height = Len(chain)
      /\ \A e \in 1 .. EpochOf(height) : snapshots'[e] = snapshots[e]
  BY BlockAdded
<1>2. UNCHANGED <<height, RewardAddrToName, tables>>
  BY DEF NewBlock
<1>3. TablesFormed' /\ ClosedAsRebuilt' /\ OpenIsEmpty'
  BY <1>1, <1>2, TablesKept
<1>4. MapIsFresh'
  <2>1. SUFFICES ASSUME RewardAddrToName # Nil, ~ OpensEpoch(height + 1)
                 PROVE  RewardAddrToName = updateCandidateRewardAddress(EpochOf(height + 1))'
    BY <1>2 DEF MapIsFresh, OpensEpoch
  <2>2. RewardAddrToName = updateCandidateRewardAddress(EpochOf(height + 1))
    BY <2>1 DEF RInv, MapIsFresh
  <2>3. height \in Nat /\ height + 1 \in Nat /\ height + 1 > 0
    BY DEF RInv, ChainFormed
  <2>4. EpochOf(height + 1) = EpochOf(height) /\ EpochOf(height) \in Nat /\ EpochOf(height + 1) > 0
    BY <2>1, <2>3, EpochOfHeights
  <2>5. PICK e \in 1 .. EpochOf(height) : e = EpochOf(height + 1)
    BY <2>4
  <2>6. updateCandidateRewardAddress(e)' = updateCandidateRewardAddress(e)
    BY <1>1, NamesSame
  <2>7. EpochOf(height + 1)' = e
    BY <1>2, <2>5
  <2>8. updateCandidateRewardAddress(EpochOf(height + 1))' = updateCandidateRewardAddress(e)'
    BY <2>7 DEF updateCandidateRewardAddress
  <2> QED  BY <2>2, <2>5, <2>6, <2>8
<1>5. MapFormed'
  <2>1. SUFFICES ASSUME RewardAddrToName # Nil
                 PROVE  \E e \in 1 .. EpochOf(Len(chain')) :
                          RewardAddrToName = updateCandidateRewardAddress(e)'
    BY <1>2 DEF MapFormed
  <2>2. PICK e \in 1 .. EpochOf(height) : RewardAddrToName = updateCandidateRewardAddress(e)
    BY <1>1, <2>1 DEF RInv, MapFormed
  <2>3. updateCandidateRewardAddress(e)' = updateCandidateRewardAddress(e)
    BY <1>1, NamesSame
  <2>4. Len(chain') = height + 1 /\ height \in Nat
    BY BlockAdded DEF RInv, ChainFormed
  <2>5. EpochOf(height) \in Nat /\ EpochOf(height + 1) \in {EpochOf(height), EpochOf(height) + 1}
    BY <2>4, EpochOfHeights
  <2>6. e \in 1 .. EpochOf(Len(chain'))
    BY <2>4, <2>5
  <2> QED  BY <2>2, <2>3, <2>6
<1> QED  BY <1>1, <1>3, <1>4, <1>5 DEF RInv

(* Whether it was refreshed or not, the map a block is indexed with is     *)
(* that of its epoch.                                                      *)
LEMMA MapOfBlock ==
  ASSUME RInv
  PROVE  AddrToNameAfter(height + 1) = updateCandidateRewardAddress(EpochOf(height + 1))
BY DEF RInv, MapIsFresh, AddrToNameAfter, MustRefresh

LEMMA HandleBlockFailsKeeps ==
  ASSUME RInv, HandleBlockFails \/ Restart
  PROVE  RInv'
<1>1. /\ RewardAddrToName' \in {AddrToNameAfter(height + 1), Nil}
      /\ chain' = chain /\ snapshots' = snapshots /\ UNCHANGED <<height, tables>>
  BY DEF HandleBlockFails, Restart, node
<1>2. ChainFormed'
  BY <1>1 DEF RInv, ChainFormed
<1>3. TablesFormed' /\ ClosedAsRebuilt' /\ OpenIsEmpty'
  BY <1>1, TablesKept
<1>4. \A e : updateCandidateRewardAddress(e)' = updateCandidateRewardAddress(e)
  BY <1>1, NamesSame
<1>5. MapIsFresh'
  <2>1. EpochOf(height + 1)' = EpochOf(height + 1)
    BY <1>1
  <2>2. updateCandidateRewardAddress(EpochOf(height + 1))'
          = updateCandidateRewardAddress(EpochOf(height + 1))
    BY <1>1, <2>1 DEF updateCandidateRewardAddress
  <2> QED  BY <1>1, <2>2, MapOfBlock DEF MapIsFresh
<1>6. MapFormed'
  <2>1. CASE RewardAddrToName' = Nil
    BY <2>1 DEF MapFormed
  <2>2. CASE RewardAddrToName' # Nil
    <3>1. HandleBlockFails /\ height < Len(chain)
      BY <2>2 DEF HandleBlockFails, Restart
    <3>2. Len(chain) = height + 1 /\ height \in Nat
      BY <3>1 DEF RInv, ChainFormed
    <3>3. EpochOf(height + 1) \in Nat /\ EpochOf(height + 1) > 0
      BY <3>2, EpochOfHeights
    <3>4. PICK e \in 1 .. EpochOf(Len(chain)) : e = EpochOf(height + 1)
      BY <3>2, <3>3
    <3>5. RewardAddrToName' = updateCandidateRewardAddress(e)
      BY <3>1, <3>4, MapOfBlock DEF HandleBlockFails
    <3>6. updateCandidateRewardAddress(e)' = updateCandidateRewardAddress(e)
      BY <1>4
    <3> QED  BY <1>1, <3>5, <3>6 DEF MapFormed
  <2> QED  BY <2>1, <2>2
<1> QED  BY <1>2, <1>3, <1>5, <1>6 DEF RInv

(* A sequence that is a table of values grows by the next one. *)
LEMMA AppendNext ==
  ASSUME NEW n \in Nat, NEW g
  PROVE  /\ Append([i \in 1 .. n |-> g[i]], g[n + 1]) = [i \in 1 .. n + 1 |-> g[i]]
         /\ Len([i \in 1 .. n |-> g[i]]) = n
<1> DEFINE s == [i \in 1 .. n |-> g[i]]
           S == {g[i] : i \in 1 .. n + 1}
<1>1. s \in Seq(S) /\ Len(s) = n /\ DOMAIN s = 1 .. n
  <2>1. \A i \in 1 .. n : g[i] \in S
    OBVIOUS
  <2> HIDE DEF S
  <2> QED  BY <2>1
<1>2. g[n + 1] \in S
  OBVIOUS
<1> HIDE DEF S
<1>3. /\ Append(s, g[n + 1]) \in Seq(S)
      /\ Len(Append(s, g[n + 1])) = n + 1
      /\ \A i \in 1 .. n : Append(s, g[n + 1])[i] = s[i]
      /\ Append(s, g[n + 1])[n + 1] = g[n + 1]
  <2> HIDE DEF s
  <2> QED  BY <1>1, <1>2, AppendProperties
<1>4. \A i \in 1 .. n + 1 : Append(s, g[n + 1])[i] = g[i]
  <2>1. \A i \in 1 .. n : s[i] = g[i]
    OBVIOUS
  <2> HIDE DEF s
  <2> QED  BY <1>3, <2>1
<1>5. Append(s, g[n + 1]) = [i \in 1 .. n + 1 |-> Append(s, g[n + 1])[i]]
  <2> HIDE DEF s
  <2> QED  BY <1>3
<1>6. Append(s, g[n + 1]) = [i \in 1 .. n + 1 |-> g[i]]
  <2> HIDE DEF s
  <2> QED  BY <1>4, <1>5
<1> QED  BY <1>1, <1>6

(* The rows of a grant.                                                    *)
LEMMA GrantRows ==
  ASSUME NEW h, NEW kind, NEW g \in Grants, NEW names
  PROVE  /\ IsFiniteSet(RewardRows(h, kind, g, names))
         /\ \A r \in RewardRows(h, kind, g, names) :
              /\ r.epoch = EpochOf(h) /\ r.address \in Addresses /\ r.reward \in Rewards
              /\ r.name = candidateName(r.address, names)
<1>1. DOMAIN g \subseteq Addresses /\ \A a \in DOMAIN g : g[a] \in Rewards
  BY DEF Grants
<1> DEFINE row(a) == [epoch |-> EpochOf(h), action |-> <<h, kind>>, address |-> a,
                      name |-> candidateName(a, names), reward |-> g[a]]
<1>2. RewardRows(h, kind, g, names) = {row(a) : a \in DOMAIN g}
  BY DEF RewardRows
<1>3. IsFiniteSet(DOMAIN g)
  BY <1>1, AmountsAssumption, FS_Subset
<1>4. \A a \in DOMAIN g :
              /\ row(a).epoch = EpochOf(h) /\ row(a).address \in Addresses /\ row(a).reward \in Rewards
              /\ row(a).name = candidateName(row(a).address, names)
  BY <1>1
<1> HIDE DEF row
<1>5. IsFiniteSet({row(a) : a \in DOMAIN g})
  <2> DEFINE f == [a \in DOMAIN g |-> row(a)]
  <2>1. IsFiniteSet({f[a] : a \in DOMAIN g})
    <3>1. DOMAIN f = DOMAIN g /\ f = [a \in DOMAIN f |-> f[a]]
      OBVIOUS
    <3> HIDE DEF f
    <3>2. f \in Surjection(DOMAIN g, {f[a] : a \in DOMAIN g})
      BY <3>1 DEF Surjection
    <3> QED  BY <1>3, <3>2, FS_Surjection
  <2>2. {f[a] : a \in DOMAIN g} = {row(a) : a \in DOMAIN g}
    OBVIOUS
  <2> QED  BY <2>1, <2>2
<1> QED  BY <1>2, <1>4, <1>5

(* What a block adds to the tables. *)
LEMMA BlockHandled ==
  ASSUME RInv, HandleBlock
  PROVE  LET h == height + 1
         IN  /\ height' = h /\ UNCHANGED <<chain, snapshots>> /\ h \in DOMAIN chain /\ Len(chain) = h
             /\ block_history' = Append(block_history,
                  [producer |-> chain[h].producer, expected |-> expectedProducer(h)])
             /\ RewardAddrToName' = updateCandidateRewardAddress(EpochOf(h))
             /\ IF OpensEpoch(h) THEN CloseEpoch(EpochOf(h) - 1) ELSE UNCHANGED account_reward
             /\ reward_history' = updateRewardHistory(h, updateCandidateRewardAddress(EpochOf(h)))
             /\ IF OpensEpoch(h)
                  THEN /\ voting_result' = Append(voting_result, snapshots[EpochOf(h)].result)
                       /\ aggregate_voting' = Append(aggregate_voting, snapshots[EpochOf(h)].voters)
                  ELSE UNCHANGED <<voting_result, aggregate_voting>>
<1>1. /\ height \in Nat /\ chain \in Seq(Blocks) /\ Len(chain) \in {height, height + 1}
  BY DEF RInv, ChainFormed
<1>2. height < Len(chain)
  BY DEF HandleBlock
<1>3. Len(chain) = height + 1 /\ height + 1 \in DOMAIN chain
  BY <1>1, <1>2
<1> QED  BY <1>3, MapOfBlock DEF HandleBlock, node

LEMMA HandledTables ==
  ASSUME RInv, HandleBlock
  PROVE  TablesFormed'
<1> DEFINE h == height + 1
           e == EpochOf(h)
           names == updateCandidateRewardAddress(e)
<1>1. /\ height' = h /\ chain' = chain /\ snapshots' = snapshots /\ h \in DOMAIN chain
      /\ block_history' = Append(block_history,
           [producer |-> chain[h].producer, expected |-> expectedProducer(h)])
      /\ reward_history' = updateRewardHistory(h, names)
      /\ IF OpensEpoch(h)
           THEN /\ voting_result' = Append(voting_result, snapshots[e].result)
                /\ aggregate_voting' = Append(aggregate_voting, snapshots[e].voters)
           ELSE UNCHANGED <<voting_result, aggregate_voting>>
      /\ Len(chain) = h
  BY BlockHandled
<1>2. /\ height \in Nat /\ chain \in Seq(Blocks) /\ h \in Nat /\ h > 0
  BY DEF RInv, ChainFormed
<1>3. /\ EpochOf(height) \in Nat /\ e \in Nat /\ e > 0
      /\ e = IF OpensEpoch(h) THEN EpochOf(height) + 1 ELSE EpochOf(height)
  BY <1>2, EpochOfHeights
<1>4. chain[h].producer \in Delegates /\ chain[h].granted \in Grants /\ chain[h].closing \in Grants
  <2> HIDE DEF h
  <2>1. chain[h] \in Blocks
    BY <1>1, <1>2
  <2> QED  BY <2>1 DEF Blocks
<1>5. expectedProducer(h) \in Delegates
  <2>1. PICK s \in Snapshots : TRUE
    BY RewardsAssumption
  <2>2. expectedProducer(h) \in DOMAIN s.result
    BY <1>2, ExpectedProducers
  <2> QED  BY <2>2, SnapshotTypes
<1> HIDE DEF h, e, names
<1>6. /\ block_history' \in Seq([producer : Delegates, expected : Delegates])
      /\ Len(block_history') = height'
  <2>1. /\ block_history \in Seq([producer : Delegates, expected : Delegates])
        /\ Len(block_history) = height
    BY DEF RInv, TablesFormed
  <2>2. [producer |-> chain[h].producer, expected |-> expectedProducer(h)]
          \in [producer : Delegates, expected : Delegates]
    BY <1>4, <1>5
  <2>3. /\ block_history' \in Seq([producer : Delegates, expected : Delegates])
        /\ Len(block_history') = Len(block_history) + 1
    BY <1>1, <2>1, <2>2, AppendProperties
  <2> QED  BY <1>1, <2>1, <2>3 DEF h
<1>7. /\ voting_result' = [i \in 1 .. e |-> snapshots[i].result]
      /\ aggregate_voting' = [i \in 1 .. e |-> snapshots[i].voters]
  <2>1. /\ voting_result = [i \in 1 .. EpochOf(height) |-> snapshots[i].result]
        /\ aggregate_voting = [i \in 1 .. EpochOf(height) |-> snapshots[i].voters]
    BY DEF RInv, TablesFormed
  <2>2. CASE ~ OpensEpoch(h)
    BY <1>1, <1>3, <2>1, <2>2
  <2>3. CASE OpensEpoch(h)
    <3> DEFINE n == EpochOf(height)
               g == [i \in 1 .. n + 1 |-> snapshots[i].result]
               f == [i \in 1 .. n + 1 |-> snapshots[i].voters]
    <3>1. /\ Append([i \in 1 .. n |-> g[i]], g[n + 1]) = [i \in 1 .. n + 1 |-> g[i]]
          /\ Append([i \in 1 .. n |-> f[i]], f[n + 1]) = [i \in 1 .. n + 1 |-> f[i]]
      <4> HIDE DEF f, g
      <4> QED  BY <1>3, AppendNext
    <3>2. /\ [i \in 1 .. n |-> g[i]] = voting_result /\ g[n + 1] = snapshots[e].result
          /\ [i \in 1 .. n |-> f[i]] = aggregate_voting /\ f[n + 1] = snapshots[e].voters
          /\ [i \in 1 .. n + 1 |-> g[i]] = [i \in 1 .. e |-> snapshots[i].result]
          /\ [i \in 1 .. n + 1 |-> f[i]] = [i \in 1 .. e |-> snapshots[i].voters]
      BY <1>3, <2>1, <2>3
    <3> QED  BY <1>1, <2>3, <3>1, <3>2
  <2> QED  BY <2>2, <2>3
<1>8. /\ IsFiniteSet(reward_history')
      /\ \A r \in reward_history' :
           /\ r.epoch \in 1 .. e /\ r.address \in Addresses /\ r.reward \in Rewards
           /\ r.name = candidateName(r.address, updateCandidateRewardAddress(r.epoch))
  <2> DEFINE G == RewardRows(h, "block", chain[h].granted, names)
             C == RewardRows(h, "epoch", chain[h].closing, names)
  <2>1. reward_history' = reward_history \cup G \cup C
    BY <1>1 DEF updateRewardHistory
  <2>2. /\ IsFiniteSet(reward_history)
        /\ \A r \in reward_history :
           /\ r.epoch \in 1 .. EpochOf(height) /\ r.address \in Addresses /\ r.reward \in Rewards
           /\ r.name = candidateName(r.address, updateCandidateRewardAddress(r.epoch))
    BY DEF RInv, TablesFormed
  <2>3. /\ IsFiniteSet(G) /\ IsFiniteSet(C)
        /\ \A r \in G \cup C :
              /\ r.epoch = EpochOf(h) /\ r.address \in Addresses /\ r.reward \in Rewards
              /\ r.name = candidateName(r.address, names)
    BY <1>4, GrantRows
  <2> HIDE DEF G, C
  <2>4. IsFiniteSet(reward_history')
    BY <2>1, <2>2, <2>3, FS_Union
  <2>5. 1 .. EpochOf(height) \subseteq 1 .. e /\ e \in 1 .. e /\ EpochOf(h) = e
    BY <1>3 DEF e
  <2>6. \A r \in G \cup C :
           /\ r.epoch \in 1 .. e /\ r.address \in Addresses /\ r.reward \in Rewards
           /\ r.name = candidateName(r.address, updateCandidateRewardAddress(r.epoch))
    BY <2>3, <2>5 DEF names
  <2>7. \A r \in reward_history :
           /\ r.epoch \in 1 .. e /\ r.address \in Addresses /\ r.reward \in Rewards
           /\ r.name = candidateName(r.address, updateCandidateRewardAddress(r.epoch))
    BY <2>2, <2>5
  <2> QED  BY <2>1, <2>4, <2>6, <2>7
<1>9. /\ EpochOf(height)' = e
      /\ \A i : updateCandidateRewardAddress(i)' = updateCandidateRewardAddress(i)
  BY <1>1, NamesSame DEF e
<1> QED  BY <1>1, <1>6, <1>7, <1>8, <1>9 DEF TablesFormed

(* A block changes nothing that an earlier epoch is closed from. *)
LEMMA EarlierEpochsKept ==
  ASSUME RInv, HandleBlock, NEW e \in Nat \ {0}, e < EpochOf(height + 1)
  PROVE  /\ Ranks(e)' = Ranks(e)
         /\ \A rank : rebuildAccountRewardTable(e, rank)' = rebuildAccountRewardTable(e, rank)
<1> DEFINE h == height + 1
<1>1. /\ chain' = chain /\ snapshots' = snapshots /\ h \in DOMAIN chain
      /\ block_history' = Append(block_history,
           [producer |-> chain[h].producer, expected |-> expectedProducer(h)])
      /\ reward_history' = updateRewardHistory(h, updateCandidateRewardAddress(EpochOf(h)))
      /\ IF OpensEpoch(h)
           THEN voting_result' = Append(voting_result, snapshots[EpochOf(h)].result)
           ELSE voting_result' = voting_result
      /\ height' = h
  BY BlockHandled
<1>2. /\ height \in Nat /\ chain \in Seq(Blocks) /\ h \in Nat
  BY DEF RInv, ChainFormed
<1>3. /\ EpochOf(height) \in Nat /\ e <= EpochOf(height)
      /\ EpochOf(h) = IF OpensEpoch(h) THEN EpochOf(height) + 1 ELSE EpochOf(height)
  <2>1. /\ EpochOf(height) \in Nat
        /\ EpochOf(h) = IF OpensEpoch(h) THEN EpochOf(height) + 1 ELSE EpochOf(height)
    BY <1>2, EpochOfHeights
  <2>2. e < EpochOf(h)
    OBVIOUS
  <2> HIDE DEF h
  <2> QED  BY <2>1, <2>2
<1>4. /\ block_history \in Seq([producer : Delegates, expected : Delegates])
      /\ Len(block_history) = height
      /\ block_history' \in Seq([producer : Delegates, expected : Delegates])
      /\ Len(block_history') = h
  BY <1>1, HandledTables DEF RInv, TablesFormed
<1> DEFINE row == [producer |-> chain[h].producer, expected |-> expectedProducer(h)]
<1>5. \A i \in 1 .. height : block_history'[i] = block_history[i]
  <2> HIDE DEF row
  <2>1. block_history' = Append(block_history, row)
    BY <1>1 DEF row
  <2> QED  BY <1>4, <2>1, AppendProperties
<1>6. /\ HeightsOf(e)' = HeightsOf(e)
      /\ \A i \in HeightsOf(e) : block_history'[i] = block_history[i]
  <2>1. DOMAIN block_history = 1 .. height /\ DOMAIN block_history' = 1 .. h
    BY <1>4
  <2>2. 1 .. h = (1 .. height) \cup {h} /\ EpochOf(h) # e
    BY <1>2
  <2> HIDE DEF h
  <2> QED  BY <1>5, <2>1, <2>2 DEF HeightsOf
<1>7. voting_result'[e] = voting_result[e]
  <2>1. voting_result = [i \in 1 .. EpochOf(height) |-> snapshots[i].result]
    BY DEF RInv, TablesFormed
  <2>2. voting_result' = [i \in 1 .. EpochOf(h) |-> snapshots[i].result]
    BY <1>1, HandledTables DEF TablesFormed
  <2>3. e \in 1 .. EpochOf(height) /\ e \in 1 .. EpochOf(h)
    BY <1>3
  <2> QED  BY <2>1, <2>2, <2>3
<1>8. {r \in reward_history' : r.epoch = e} = {r \in reward_history : r.epoch = e}
  <2> DEFINE names == updateCandidateRewardAddress(EpochOf(h))
             G == RewardRows(h, "block", chain[h].granted, names)
             C == RewardRows(h, "epoch", chain[h].closing, names)
  <2>1. reward_history' = reward_history \cup G \cup C
    BY <1>1 DEF updateRewardHistory
  <2>2. chain[h].granted \in Grants /\ chain[h].closing \in Grants
    <3> HIDE DEF h
    <3>1. chain[h] \in Blocks
      BY <1>1, <1>2
    <3> QED  BY <3>1 DEF Blocks
  <2>3. \A r \in G \cup C : r.epoch = EpochOf(h)
    BY <2>2, GrantRows
  <2> HIDE DEF G, C, h
  <2> QED  BY <1>3, <2>1, <2>3 DEF h
<1> QED  BY <1>6, <1>7, <1>8, RebuildSame

LEMMA HandleBlockKeeps ==
  ASSUME RInv, HandleBlock
  PROVE  RInv'
<1> DEFINE h == height + 1
           c == EpochOf(height)
<1>1. /\ height' = h /\ chain' = chain /\ snapshots' = snapshots /\ Len(chain) = h
      /\ RewardAddrToName' = updateCandidateRewardAddress(EpochOf(h))
      /\ IF OpensEpoch(h) THEN CloseEpoch(EpochOf(h) - 1) ELSE account_reward' = account_reward
  BY BlockHandled
<1>2. /\ height \in Nat /\ h \in Nat /\ EpochOf(h) <= MaxEpoch /\ MaxEpoch \in Nat
  BY <1>1, RewardsAssumption DEF RInv, ChainFormed
<1>3. /\ c \in Nat
      /\ EpochOf(h) = IF OpensEpoch(h) THEN c + 1 ELSE c
      /\ EpochOf(h + 1) = IF OpensEpoch(h + 1) THEN EpochOf(h) + 1 ELSE EpochOf(h)
      /\ EpochOf(h) \in Nat
  BY <1>2, EpochOfHeights
<1> HIDE DEF h, c
<1>4. ChainFormed'
  <2>1. Len(chain') \in {height', height' + 1} /\ height' \in Nat
    BY <1>1, <1>2
  <2> QED  BY <1>1, <2>1 DEF RInv, ChainFormed
<1>5. TablesFormed'
  BY HandledTables
<1>6. MapIsFresh'
  <2>1. SUFFICES ASSUME ~ OpensEpoch(h + 1)
                 PROVE  RewardAddrToName' = updateCandidateRewardAddress(EpochOf(height + 1))'
    BY <1>1 DEF MapIsFresh, OpensEpoch
  <2>2. EpochOf(height + 1)' = EpochOf(h)
    BY <1>1, <1>3, <2>1
  <2>3. updateCandidateRewardAddress(EpochOf(height + 1))' = updateCandidateRewardAddress(EpochOf(h))
    BY <1>1, <2>2 DEF updateCandidateRewardAddress
  <2> QED  BY <1>1, <2>3
<1>7. ASSUME NEW e \in 1 .. EpochOf(h) - 1
      PROVE  /\ Ranks(e)' = Ranks(e)
             /\ \A rank : rebuildAccountRewardTable(e, rank)' = rebuildAccountRewardTable(e, rank)
  <2>1. e \in Nat \ {0} /\ e < EpochOf(height + 1)
    BY <1>3 DEF h
  <2> QED  BY <2>1, EarlierEpochsKept
<1>8. /\ DOMAIN account_reward = Epochs
      /\ \A e \in 1 .. c - 1 : \E rank \in Ranks(e) :
           account_reward[e] = rebuildAccountRewardTable(e, rank)
  BY DEF RInv, ClosedAsRebuilt, Closed, c
<1>9. /\ DOMAIN account_reward' = Epochs
      /\ \A e \in 1 .. EpochOf(h) - 1 : \E rank \in Ranks(e) :
           account_reward'[e] = rebuildAccountRewardTable(e, rank)
  <2>1. CASE ~ OpensEpoch(h)
    BY <1>1, <1>3, <1>8, <2>1
  <2>2. CASE OpensEpoch(h)
    <3>1. EpochOf(h) - 1 = c /\ CloseEpoch(c)
      BY <1>1, <1>3, <2>2
    <3>2. CASE c = 0
      <4>1. account_reward' = account_reward
        BY <3>1, <3>2 DEF CloseEpoch
      <4> QED  BY <1>8, <3>1, <3>2, <4>1
    <3>3. CASE c # 0
      <4>1. PICK rank \in Ranks(c) :
              account_reward' = [account_reward EXCEPT ![c] = rebuildAccountRewardTable(c, rank)]
        BY <3>1, <3>3 DEF CloseEpoch
      <4>2. c \in Epochs
        BY <1>2, <1>3, <2>2, <3>3 DEF Epochs
      <4>3. DOMAIN account_reward' = Epochs
        BY <1>8, <4>1
      <4>4. account_reward'[c] = rebuildAccountRewardTable(c, rank)
        BY <1>8, <4>1, <4>2
      <4>5. \A e \in 1 .. c - 1 : account_reward'[e] = account_reward[e]
        <5>1. 1 .. c - 1 \subseteq Epochs /\ c \notin 1 .. c - 1
          BY <1>2, <1>3, <2>2 DEF Epochs
        <5> QED  BY <1>8, <4>1, <5>1
      <4>6. \A e \in 1 .. c : e \in 1 .. c - 1 \/ e = c
        BY <1>3
      <4> QED  BY <1>8, <3>1, <4>1, <4>3, <4>4, <4>5, <4>6
    <3> QED  BY <3>2, <3>3
  <2> QED  BY <2>1, <2>2
<1>10. ClosedAsRebuilt'
  <2>1. Closed' = 1 .. EpochOf(h) - 1
    BY <1>1 DEF Closed
  <2>2. Epochs' = Epochs
    BY DEF Epochs
  <2>3. \A e \in 1 .. EpochOf(h) - 1 :
          (\E rank \in Ranks(e) : account_reward[e] = rebuildAccountRewardTable(e, rank))'
    <3>1. ASSUME NEW e \in 1 .. EpochOf(h) - 1
          PROVE  (\E rank \in Ranks(e) : account_reward[e] = rebuildAccountRewardTable(e, rank))'
      <4>1. PICK rank \in Ranks(e) : account_reward'[e] = rebuildAccountRewardTable(e, rank)
        BY <1>9
      <4>2. rank \in Ranks(e)' /\ account_reward'[e] = rebuildAccountRewardTable(e, rank)'
        BY <1>7, <4>1
      <4> QED  BY <4>2
    <3> QED  BY <3>1
  <2> QED  BY <1>9, <2>1, <2>2, <2>3 DEF ClosedAsRebuilt
<1>11. MapFormed'
  <2>1. EpochOf(h) > 0
    BY <1>2, EpochOfHeights DEF h, RInv, ChainFormed
  <2>2. PICK e \in 1 .. EpochOf(Len(chain)) : e = EpochOf(h)
    BY <1>1, <1>3, <2>1
  <2>3. updateCandidateRewardAddress(e)' = updateCandidateRewardAddress(e)
    BY <1>1, NamesSame
  <2> QED  BY <1>1, <2>2, <2>3 DEF MapFormed
<1>12. OpenIsEmpty'
  <2>1. \A e \in Epochs \ (1 .. EpochOf(h) - 1) : account_reward'[e] = <<>>
    <3>1. SUFFICES ASSUME NEW e \in Epochs, e \notin 1 .. EpochOf(h) - 1
                   PROVE  account_reward'[e] = <<>>
      OBVIOUS
    <3>2. e \notin 1 .. c - 1 /\ (OpensEpoch(h) => e # c)
      BY <1>3, <3>1 DEF Epochs
    <3>3. account_reward[e] = <<>>
      BY <3>2 DEF RInv, OpenIsEmpty, Closed, c
    <3>4. CASE ~ OpensEpoch(h)
      BY <1>1, <3>3, <3>4
    <3>5. CASE OpensEpoch(h)
      <4>1. EpochOf(h) - 1 = c /\ CloseEpoch(c)
        BY <1>1, <1>3, <3>5
      <4>2. \/ account_reward' = account_reward
            \/ \E rank \in Ranks(c) :
                 account_reward' = [account_reward EXCEPT ![c] = rebuildAccountRewardTable(c, rank)]
        BY <4>1 DEF CloseEpoch
      <4>3. e # c /\ e \in DOMAIN account_reward
        BY <1>8, <3>1, <3>2, <3>5
      <4> QED  BY <3>3, <4>2, <4>3
    <3> QED  BY <3>4, <3>5
  <2>2. Closed' = 1 .. EpochOf(h) - 1 /\ Epochs' = Epochs
    BY <1>1 DEF Closed, Epochs
  <2> QED  BY <2>1, <2>2 DEF OpenIsEmpty
<1> QED  BY <1>4, <1>5, <1>6, <1>10, <1>11, <1>12 DEF RInv

(* The inductive invariant holds in every reachable state. *)
THEOREM RewardsInvariant == Spec => []RInv
<1>1. Init => RInv
  BY InitRewards
<1>2. RInv /\ [Next]_vars => RInv'
  <2> SUFFICES ASSUME RInv, [Next]_vars  PROVE RInv'
    OBVIOUS
  <2>1. CASE NewBlock
    BY <2>1, NewBlockKeeps
  <2>2. CASE HandleBlock
    BY <2>2, HandleBlockKeeps
  <2>3. CASE HandleBlockFails \/ Restart
    BY <2>3, HandleBlockFailsKeeps
  <2>4. CASE UNCHANGED vars
    <3>1. /\ chain' = chain /\ snapshots' = snapshots /\ height' = height
          /\ RewardAddrToName' = RewardAddrToName /\ UNCHANGED tables
      BY <2>4 DEF vars, node
    <3>2. ChainFormed'
      BY <3>1 DEF RInv, ChainFormed
    <3>3. TablesFormed' /\ ClosedAsRebuilt' /\ OpenIsEmpty'
      BY <3>1, TablesKept
    <3>4. updateCandidateRewardAddress(EpochOf(height + 1))'
            = updateCandidateRewardAddress(EpochOf(height + 1))
      BY <3>1 DEF updateCandidateRewardAddress
    <3>5. MapIsFresh'
      BY <3>1, <3>4 DEF RInv, MapIsFresh, OpensEpoch
    <3>6. MapFormed'
      <4>1. \A e : updateCandidateRewardAddress(e)' = updateCandidateRewardAddress(e)
        BY <3>1, NamesSame
      <4> QED  BY <3>1, <4>1 DEF RInv, MapFormed
    <3> QED  BY <3>2, <3>3, <3>5, <3>6 DEF RInv
  <2> QED  BY <2>1, <2>2, <2>3, <2>4 DEF Next
<1> QED  BY <1>1, <1>2, PTL DEF Spec

-------------------------------------------------------------------------------
(* What an epoch begun has in the tables.                                  *)
LEMMA IndexedEpochs ==
  ASSUME RInv, NEW e \in 1 .. EpochOf(height)
  PROVE  /\ snapshots[e] \in Snapshots
         /\ voting_result[e] = snapshots[e].result /\ aggregate_voting[e] = snapshots[e].voters
         /\ IsFiniteSet(DOMAIN voting_result[e]) /\ Nobody \notin DOMAIN voting_result[e]
         /\ \A d \in DOMAIN voting_result[e] :
              voting_result[e][d].address \in Addresses /\ voting_result[e][d].votes \in Nat
         /\ \A a \in Addresses : AggregateReward(e, a) \in Rewards
         /\ \A a : a \notin AddressesPaid(e) => AggregateReward(e, a) = Zero
<1>1. /\ height \in Nat /\ Len(chain) \in {height, height + 1} /\ snapshots \in Seq(Snapshots)
      /\ Len(snapshots) = EpochOf(Len(chain))
  BY DEF RInv, ChainFormed
<1>2. EpochOf(height) \in Nat /\ EpochOf(height + 1) \in {EpochOf(height), EpochOf(height) + 1}
  BY <1>1, EpochOfHeights
<1>3. e \in 1 .. Len(snapshots)
  BY <1>1, <1>2
<1>4. snapshots[e] \in Snapshots
  BY <1>1, <1>3
<1>5. voting_result[e] = snapshots[e].result /\ aggregate_voting[e] = snapshots[e].voters
  BY DEF RInv, TablesFormed
<1>6. ASSUME NEW a
      PROVE  /\ AggregateReward(e, a) \in Rewards
             /\ a \notin AddressesPaid(e) => AggregateReward(e, a) = Zero
  <2> DEFINE rows == {r \in reward_history : r.epoch = e /\ r.address = a}
  <2>1. IsFiniteSet(reward_history) /\ \A r \in reward_history : r.reward \in Rewards
    BY DEF RInv, TablesFormed
  <2>2. IsFiniteSet(rows) /\ \A r \in rows : r.reward \in Rewards
    BY <2>1, FS_Subset
  <2>3. AggregateReward(e, a) = Total(rows)
    BY DEF AggregateReward
  <2>4. a \notin AddressesPaid(e) => rows = {}
    BY DEF AddressesPaid
  <2> HIDE DEF rows
  <2> QED  BY <2>2, <2>3, <2>4, TotalType
<1> QED  BY <1>4, <1>5, <1>6, SnapshotTypes

LEMMA ClosedEpochs ==
  ASSUME RInv, NEW e \in Closed
  PROVE  /\ e \in 1 .. EpochOf(height) /\ e \in Epochs
         /\ \E rank \in Ranks(e) : account_reward[e] = rebuildAccountRewardTable(e, rank)
<1>1. /\ height \in Nat /\ Len(chain) \in {height, height + 1} /\ EpochOf(Len(chain)) <= MaxEpoch
  BY DEF RInv, ChainFormed
<1>2. EpochOf(height) \in Nat /\ EpochOf(height + 1) \in {EpochOf(height), EpochOf(height) + 1}
  BY <1>1, EpochOfHeights
<1>3. MaxEpoch \in Nat
  BY RewardsAssumption
<1>4. e \in 1 .. EpochOf(height) /\ e \in Epochs
  BY <1>1, <1>2, <1>3 DEF Closed, Epochs
<1> QED  BY <1>4 DEF RInv, ClosedAsRebuilt

(* Delegates earn by blocks produced. *)
LEMMA Productivity ==
  ASSUME RInv, NEW e
  PROVE  \A d \in DOMAIN getProductivity(e) : getProductivity(e)[d].Production \in Nat
<1> DEFINE H == {h \in DOMAIN block_history : EpochOf(h) = e}
           X == {block_history[h].expected : h \in H}
           P(d) == {h \in H : block_history[h].producer = d}
           E(d) == {h \in H : block_history[h].expected = d}
<1>1. getProductivity(e) =
        [d \in X |-> [Production |-> Cardinality(P(d)), ExpectedProduction |-> Cardinality(E(d))]]
  BY DEF getProductivity
<1>2. DOMAIN block_history = 1 .. height /\ height \in Nat
  BY DEF RInv, TablesFormed, ChainFormed
<1>3. \A d : IsFiniteSet(P(d))
  <2>1. IsFiniteSet(1 .. height)
    BY <1>2, FS_Interval
  <2>2. \A d : P(d) \subseteq 1 .. height
    BY <1>2
  <2> QED  BY <2>1, <2>2, FS_Subset
<1>4. \A d : Cardinality(P(d)) \in Nat
  BY <1>3, FS_CardinalityType
<1> HIDE DEF P, X, E
<1> QED  BY <1>1, <1>4

-------------------------------------------------------------------------------
(* The parts of a breakdown.                                               *)
Productive(productivity, d) ==
  d \in DOMAIN productivity =>
    (productivity[d].Production * 100) \div productivity[d].ExpectedProduction
      >= ProductivityThreshold

EarnBlock(productivity, names) == {d \in names : d \in DOMAIN productivity}

EarnEpoch(productivity, names, rank) ==
  {d \in names : /\ rank[d] <= NumDelegatesForEpochReward
                 /\ d \notin ExemptCandidatesFromEpochReward
                 /\ Productive(productivity, d)}

EarnBonus(names, rank) ==
  {d \in names : /\ rank[d] <= NumDelegatesForFoundationBonus
                 /\ d \notin ExemptCandidatesFromEpochReward}

ProductionOf(productivity, names) ==
  [d \in EarnBlock(productivity, names) |-> productivity[d].Production]

VotesOf(productivity, result, names, rank) ==
  [d \in EarnEpoch(productivity, names, rank) |-> result[d].votes]

SharesOf(productivity, result, names, total, rank) ==
  LET production == SumFunction(ProductionOf(productivity, names))
      votes      == SumFunction(VotesOf(productivity, result, names, rank))
      bonus      == EarnBonus(names, rank)
  IN  [d \in names |->
         Reward(IF production > 0 /\ d \in EarnBlock(productivity, names)
                  THEN (total.block * productivity[d].Production) \div production ELSE 0,
                IF votes > 0 /\ d \in EarnEpoch(productivity, names, rank)
                  THEN (total.epoch * result[d].votes) \div votes ELSE 0,
                IF d \in bonus THEN total.bonus \div Cardinality(bonus) ELSE 0)]

LEMMA BreakdownIs ==
  ASSUME NEW productivity, NEW result, NEW names, NEW total, NEW rank
  PROVE  breakdownRewards(productivity, result, names, total, rank)
           = WithoutZero(SharesOf(productivity, result, names, total, rank))
BY DEF breakdownRewards, SharesOf, EarnBlock, EarnEpoch, EarnBonus, ProductionOf, VotesOf,
       Productive, EpochShare

(* Shares of nothing are not written, and count for nothing. *)
LEMMA ZeroIsLeftOut ==
  ASSUME NEW f
  PROVE  /\ DOMAIN WithoutZero(f) = {d \in DOMAIN f : f[d] # Zero}
         /\ \A d \in DOMAIN WithoutZero(f) : WithoutZero(f)[d] = f[d]
BY DEF WithoutZero, Restrict

(* What is shared of each kind is what there was of it, but for rounding.  *)
SharedOut(f, names, n) ==
  /\ SumFunctionOnSet(f, names) \in Nat
  /\ SumFunctionOnSet(f, names) <= n
  /\ SumFunctionOnSet(f, names) = 0 \/ n - SumFunctionOnSet(f, names) < Cardinality(names)

LEMMA BlockShared ==
  ASSUME NEW productivity, NEW names, IsFiniteSet(names), NEW n \in Nat,
         \A d \in DOMAIN productivity : productivity[d].Production \in Nat,
         NEW q,
         \A d \in names : q[d] =
           IF SumFunction(ProductionOf(productivity, names)) > 0 /\ d \in EarnBlock(productivity, names)
             THEN (n * productivity[d].Production) \div SumFunction(ProductionOf(productivity, names))
             ELSE 0
  PROVE  SharedOut(q, names, n)
<1> DEFINE T == EarnBlock(productivity, names)
           f == ProductionOf(productivity, names)
<1>1. T \in SUBSET names /\ DOMAIN f = T
      /\ \A d \in T : f[d] = productivity[d].Production /\ f[d] \in Nat
  BY DEF EarnBlock, ProductionOf
<1>2. SumFunction(f) = SumFunctionOnSet(f, T)
  BY <1>1 DEF SumFunction
<1> HIDE DEF T, f
<1>3. \A d \in names : q[d] = IF SumFunctionOnSet(f, T) > 0 /\ d \in T
                                THEN (n * f[d]) \div SumFunctionOnSet(f, T) ELSE 0
  BY <1>1, <1>2 DEF T, f
<1> QED  BY <1>1, <1>3, SharedAmongSome DEF SharedOut

LEMMA EpochShared ==
  ASSUME NEW productivity, NEW result, NEW names, NEW rank, IsFiniteSet(names), NEW n \in Nat,
         \A d \in names : result[d].votes \in Nat,
         NEW q,
         \A d \in names : q[d] =
           IF /\ SumFunction(VotesOf(productivity, result, names, rank)) > 0
              /\ d \in EarnEpoch(productivity, names, rank)
             THEN (n * result[d].votes) \div SumFunction(VotesOf(productivity, result, names, rank))
             ELSE 0
  PROVE  SharedOut(q, names, n)
<1> DEFINE T == EarnEpoch(productivity, names, rank)
           f == VotesOf(productivity, result, names, rank)
<1>1. T \in SUBSET names /\ DOMAIN f = T
      /\ \A d \in T : f[d] = result[d].votes /\ f[d] \in Nat
  BY DEF EarnEpoch, VotesOf
<1>2. SumFunction(f) = SumFunctionOnSet(f, T)
  BY <1>1 DEF SumFunction
<1> HIDE DEF T, f
<1>3. \A d \in names : q[d] = IF SumFunctionOnSet(f, T) > 0 /\ d \in T
                                THEN (n * f[d]) \div SumFunctionOnSet(f, T) ELSE 0
  BY <1>1, <1>2 DEF T, f
<1> QED  BY <1>1, <1>3, SharedAmongSome DEF SharedOut

LEMMA BonusShared ==
  ASSUME NEW names, NEW rank, IsFiniteSet(names), NEW n \in Nat, NEW q,
         \A d \in names : q[d] =
           IF d \in EarnBonus(names, rank) THEN n \div Cardinality(EarnBonus(names, rank)) ELSE 0
  PROVE  SharedOut(q, names, n)
<1> DEFINE T == EarnBonus(names, rank)
           f == [d \in T |-> 1]
<1>1. T \in SUBSET names
  BY DEF EarnBonus
<1> HIDE DEF T
<1>2. IsFiniteSet(T) /\ \A d \in T : f[d] = 1 /\ f[d] \in Nat
  BY <1>1, FS_Subset
<1> HIDE DEF f
<1>3. SumFunctionOnSet(f, T) = Cardinality(T)
  BY <1>2, SumOfOnes
<1>4. Cardinality(T) \in Nat /\ (T # {} => Cardinality(T) > 0)
  BY <1>2, FS_CardinalityType, FS_EmptySet
<1>5. \A d \in names : q[d] = IF SumFunctionOnSet(f, T) > 0 /\ d \in T
                                THEN (n * f[d]) \div SumFunctionOnSet(f, T) ELSE 0
  <2>1. SUFFICES ASSUME NEW d \in names
                 PROVE  q[d] = IF Cardinality(T) > 0 /\ d \in T
                                 THEN (n * f[d]) \div Cardinality(T) ELSE 0
    BY <1>3
  <2>2. q[d] = IF d \in T THEN n \div Cardinality(T) ELSE 0
    BY DEF T
  <2>3. d \in T => Cardinality(T) > 0 /\ n * f[d] = n
    BY <1>2, <1>4
  <2> QED  BY <2>2, <2>3
<1> QED  BY <1>1, <1>2, <1>5, SharedAmongSome DEF SharedOut

(* What an address got goes to its delegates.                              *)
LEMMA OnlyOwnNames ==
  ASSUME NEW e, NEW a, NEW rank
  PROVE  DOMAIN RewardsOf(e, a, rank) \subseteq NamesAt(voting_result[e], a)
<1> DEFINE names == NamesAt(voting_result[e], a)
           f == SharesOf(getProductivity(e), voting_result[e], names, AggregateReward(e, a), rank)
<1>1. RewardsOf(e, a, rank) =
        IF Cardinality(names) = 1 THEN [d \in names |-> AggregateReward(e, a)] ELSE WithoutZero(f)
  BY BreakdownIs DEF RewardsOf
<1>2. DOMAIN f = names
  BY DEF SharesOf
<1> HIDE DEF f, names
<1>3. DOMAIN WithoutZero(f) \subseteq names
  BY <1>2, ZeroIsLeftOut
<1> QED  BY <1>1, <1>3 DEF names

(* A row of a closed epoch comes from the delegate's own address. *)
LEMMA RowOf ==
  ASSUME RInv, NEW e \in Closed, NEW rank, account_reward[e] = rebuildAccountRewardTable(e, rank)
  PROVE  /\ DOMAIN account_reward[e] \subseteq DOMAIN voting_result[e]
         /\ \A a : \A d \in NamesAt(voting_result[e], a) :
              /\ d \in DOMAIN account_reward[e] <=>
                   a \in AddressesPaid(e) /\ d \in DOMAIN RewardsOf(e, a, rank[a])
              /\ d \in DOMAIN account_reward[e] =>
                   account_reward[e][d] = RewardsOf(e, a, rank[a])[d]
<1> DEFINE part(a) == RewardsOf(e, a, rank[a])
           parts == {part(a) : a \in AddressesPaid(e)}
<1>1. account_reward[e] = Assembled(parts)
  BY DEF rebuildAccountRewardTable, Assembled
<1>2. \A a : \A d \in DOMAIN part(a) : d \in DOMAIN voting_result[e] /\ voting_result[e][d].address = a
  BY OnlyOwnNames DEF NamesAt
<1> HIDE DEF part
<1>3. DOMAIN account_reward[e] = UNION {DOMAIN p : p \in parts}
  <2> HIDE DEF parts
  <2> QED  BY <1>1 DEF Assembled
<1>4. DOMAIN account_reward[e] \subseteq DOMAIN voting_result[e]
  BY <1>2, <1>3
<1>5. ASSUME NEW a, NEW d \in NamesAt(voting_result[e], a)
      PROVE  /\ d \in DOMAIN account_reward[e] <=> a \in AddressesPaid(e) /\ d \in DOMAIN part(a)
             /\ d \in DOMAIN account_reward[e] => account_reward[e][d] = part(a)[d]
  <2>1. \A p \in parts : d \in DOMAIN p => a \in AddressesPaid(e) /\ p = part(a)
    <3>1. ASSUME NEW b \in AddressesPaid(e), d \in DOMAIN part(b)
          PROVE  b = a
      BY <1>2, <3>1 DEF NamesAt
    <3> QED  BY <3>1
  <2>2. a \in AddressesPaid(e) /\ d \in DOMAIN part(a) => d \in DOMAIN account_reward[e]
    BY <1>3
  <2>3. ASSUME d \in DOMAIN account_reward[e]
        PROVE  /\ a \in AddressesPaid(e) /\ d \in DOMAIN part(a)
               /\ account_reward[e][d] = part(a)[d]
    <3>1. PICK p \in parts : d \in DOMAIN p
      BY <1>3, <2>3
    <3>2. a \in AddressesPaid(e) /\ d \in DOMAIN part(a)
      BY <2>1, <3>1
    <3> DEFINE chosen == CHOOSE x \in parts : d \in DOMAIN x
    <3>3. chosen \in parts /\ d \in DOMAIN chosen
      BY <3>1
    <3>4. chosen = part(a)
      BY <2>1, <3>3
    <3>5. account_reward[e][d] = chosen[d]
      <4>1. d \in UNION {DOMAIN x : x \in parts}
        BY <1>3, <2>3
      <4> HIDE DEF parts
      <4> QED  BY <1>1, <4>1 DEF Assembled
    <3> QED  BY <3>2, <3>4, <3>5
  <2> QED  BY <2>2, <2>3
<1> QED  BY <1>4, <1>5 DEF part

(* What a delegate that shares its address is credited with. *)
LEMMA SharerRow ==
  ASSUME RInv, NEW e \in Closed, NEW rank, account_reward[e] = rebuildAccountRewardTable(e, rank),
         NEW a, a \in AddressesPaid(e), Cardinality(NamesAt(voting_result[e], a)) # 1
  PROVE  \A d \in NamesAt(voting_result[e], a) :
           Row(e, d) = SharesOf(getProductivity(e), voting_result[e], NamesAt(voting_result[e], a),
                                AggregateReward(e, a), rank[a])[d]
<1> DEFINE names == NamesAt(voting_result[e], a)
           f == SharesOf(getProductivity(e), voting_result[e], names, AggregateReward(e, a), rank[a])
<1>1. RewardsOf(e, a, rank[a]) = WithoutZero(f)
  BY BreakdownIs DEF RewardsOf
<1>2. DOMAIN f = names
  BY DEF SharesOf
<1> HIDE DEF f
<1>3. SUFFICES ASSUME NEW d \in names
               PROVE  Row(e, d) = f[d]
  BY DEF f
<1>4. d \in DOMAIN account_reward[e] <=> d \in DOMAIN WithoutZero(f)
  BY <1>1, RowOf
<1>5. d \in DOMAIN account_reward[e] => account_reward[e][d] = WithoutZero(f)[d]
  BY <1>1, RowOf
<1> HIDE DEF names
<1> QED  BY <1>2, <1>4, <1>5, ZeroIsLeftOut DEF Row

(* One that has an address of its own. *)
LEMMA SoleRow ==
  ASSUME RInv, NEW e \in Closed, NEW rank, account_reward[e] = rebuildAccountRewardTable(e, rank),
         NEW a \in Addresses, Cardinality(NamesAt(voting_result[e], a)) = 1
  PROVE  \A d \in NamesAt(voting_result[e], a) : Row(e, d) = AggregateReward(e, a)
<1>1. SUFFICES ASSUME NEW d \in NamesAt(voting_result[e], a)
               PROVE  Row(e, d) = AggregateReward(e, a)
  OBVIOUS
<1>2. RewardsOf(e, a, rank[a]) = [c \in NamesAt(voting_result[e], a) |-> AggregateReward(e, a)]
  BY DEF RewardsOf
<1>3. d \in DOMAIN account_reward[e] <=> a \in AddressesPaid(e)
  BY <1>2, RowOf
<1>4. d \in DOMAIN account_reward[e] => account_reward[e][d] = AggregateReward(e, a)
  BY <1>2, RowOf
<1>5. a \notin AddressesPaid(e) => AggregateReward(e, a) = Zero
  BY ClosedEpochs, IndexedEpochs
<1> QED  BY <1>3, <1>4, <1>5 DEF Row

(* And one whose address got nothing. *)
LEMMA UnpaidRow ==
  ASSUME RInv, NEW e \in Closed, NEW rank, account_reward[e] = rebuildAccountRewardTable(e, rank),
         NEW a, a \notin AddressesPaid(e)
  PROVE  \A d \in NamesAt(voting_result[e], a) : Row(e, d) = Zero
BY RowOf DEF Row

-------------------------------------------------------------------------------
(* What the delegates of an address are credited with is what the address  *)
(* was granted, never more, and less by rounding only.                     *)
LEMMA SharesOfAddress ==
  ASSUME RInv, NEW e \in Closed, NEW a \in Addresses, NEW k \in Kinds
  PROVE  LET names == NamesAt(voting_result[e], a)
         IN  SharedOut([d \in names |-> Row(e, d)[k]], names, AggregateReward(e, a)[k])
<1> DEFINE result == voting_result[e]
           names == NamesAt(result, a)
           total == AggregateReward(e, a)
           q == [d \in names |-> Row(e, d)[k]]
<1>1. /\ IsFiniteSet(names) /\ total \in Rewards /\ total[k] \in Nat
      /\ \A d \in names : result[d].votes \in Nat
      /\ a \notin AddressesPaid(e) => total = Zero
  <2>1. /\ IsFiniteSet(DOMAIN result) /\ total \in Rewards
        /\ \A d \in DOMAIN result : result[d].votes \in Nat
        /\ a \notin AddressesPaid(e) => total = Zero
    BY ClosedEpochs, IndexedEpochs
  <2>2. names \subseteq DOMAIN result
    BY DEF NamesAt
  <2>3. IsFiniteSet(names)
    BY <2>1, <2>2, FS_Subset
  <2>4. total[k] \in Nat
    BY <2>1, RewardParts
  <2> QED  BY <2>1, <2>2, <2>3, <2>4
<1>2. PICK rank : account_reward[e] = rebuildAccountRewardTable(e, rank)
  BY ClosedEpochs
<1>3. \A d \in names : q[d] = Row(e, d)[k]
  OBVIOUS
<1>4. CASE a \notin AddressesPaid(e)
  <2>1. \A d \in names : q[d] = 0
    BY <1>2, <1>3, <1>4, UnpaidRow, RewardParts
  <2> HIDE DEF q, names, total
  <2>2. SumFunctionOnSet(q, names) = 0
    BY <1>1, <2>1, SumOfZeros
  <2>3. SharedOut(q, names, total[k])
    BY <1>1, <2>2 DEF SharedOut
  <2> QED  BY <2>3 DEF q, names, total
<1>5. CASE a \in AddressesPaid(e) /\ Cardinality(names) = 1
  <2>1. PICK d : names = {d}
    BY <1>1, <1>5, FS_Singleton
  <2>2. q[d] = total[k]
    BY <1>2, <1>3, <1>5, <2>1, SoleRow
  <2> HIDE DEF q, names, total
  <2>3. SumFunctionOnSet(q, {d}) = q[d] + SumFunctionOnSet(q, {d} \ {d})
    <3>1. \A x \in {d} : q[x] \in Int
      BY <1>1, <2>2
    <3> QED  BY <1>1, <2>1, <3>1, SumOfInts
  <2>4. {d} \ {d} = {}
    OBVIOUS
  <2>5. SumFunctionOnSet(q, names) = total[k]
    BY <1>1, <2>1, <2>2, <2>3, <2>4, SumEmpty
  <2>6. SharedOut(q, names, total[k])
    BY <1>1, <1>5, <2>5 DEF SharedOut
  <2> QED  BY <2>6 DEF q, names, total
<1>6. CASE a \in AddressesPaid(e) /\ Cardinality(names) # 1
  <2> DEFINE prod == getProductivity(e)
             shares == SharesOf(prod, result, names, total, rank[a])
  <2>1. \A d \in names : q[d] = shares[d][k]
    BY <1>2, <1>3, <1>6, SharerRow
  <2>2. \A d \in DOMAIN prod : prod[d].Production \in Nat
    BY Productivity
  <2>3. \A d \in names :
          /\ shares[d]["block"] =
               IF SumFunction(ProductionOf(prod, names)) > 0 /\ d \in EarnBlock(prod, names)
                 THEN (total.block * prod[d].Production) \div SumFunction(ProductionOf(prod, names))
                 ELSE 0
          /\ shares[d]["epoch"] =
               IF /\ SumFunction(VotesOf(prod, result, names, rank[a])) > 0
                  /\ d \in EarnEpoch(prod, names, rank[a])
                 THEN (total.epoch * result[d].votes)
                        \div SumFunction(VotesOf(prod, result, names, rank[a]))
                 ELSE 0
          /\ shares[d]["bonus"] =
               IF d \in EarnBonus(names, rank[a])
                 THEN total.bonus \div Cardinality(EarnBonus(names, rank[a])) ELSE 0
    BY DEF SharesOf, Reward
  <2>4. /\ total["block"] = total.block /\ total["epoch"] = total.epoch
        /\ total["bonus"] = total.bonus
        /\ total.block \in Nat /\ total.epoch \in Nat /\ total.bonus \in Nat
    BY <1>1, RewardParts
  <2> HIDE DEF shares, q, names, total, result, prod
  <2>5. CASE k = "block"
    <3>1. \A d \in names : q[d] =
            IF SumFunction(ProductionOf(prod, names)) > 0 /\ d \in EarnBlock(prod, names)
              THEN (total.block * prod[d].Production) \div SumFunction(ProductionOf(prod, names))
              ELSE 0
      BY <2>1, <2>3, <2>5
    <3>2. SharedOut(q, names, total.block)
      BY <1>1, <2>2, <2>4, <3>1, BlockShared
    <3> QED  BY <2>4, <2>5, <3>2 DEF q, names, total, result
  <2>6. CASE k = "epoch"
    <3>1. \A d \in names : q[d] =
               IF /\ SumFunction(VotesOf(prod, result, names, rank[a])) > 0
                  /\ d \in EarnEpoch(prod, names, rank[a])
                 THEN (total.epoch * result[d].votes)
                        \div SumFunction(VotesOf(prod, result, names, rank[a]))
                 ELSE 0
      BY <2>1, <2>3, <2>6
    <3>2. SharedOut(q, names, total.epoch)
      BY <1>1, <2>4, <3>1, EpochShared
    <3> QED  BY <2>4, <2>6, <3>2 DEF q, names, total, result
  <2>7. CASE k = "bonus"
    <3>1. \A d \in names : q[d] =
               IF d \in EarnBonus(names, rank[a])
                 THEN total.bonus \div Cardinality(EarnBonus(names, rank[a])) ELSE 0
      BY <2>1, <2>3, <2>7
    <3>2. SharedOut(q, names, total.bonus)
      BY <1>1, <2>4, <3>1, BonusShared
    <3> QED  BY <2>4, <2>7, <3>2 DEF q, names, total, result
  <2> QED  BY <2>5, <2>6, <2>7 DEF Kinds
<1> QED  BY <1>4, <1>5, <1>6

LEMMA SharesFollow == RInv => SharesAddUp
<1> SUFFICES ASSUME RInv, NEW e \in Closed, NEW a \in Addresses, NEW k \in Kinds
             PROVE  LET names   == NamesAt(voting_result[e], a)
                        granted == AggregateReward(e, a)[k]
                        shared  == SumFunction([d \in names |-> Row(e, d)[k]])
                    IN  /\ shared <= granted
                        /\ shared = 0 \/ granted - shared < Cardinality(names)
  BY DEF SharesAddUp
<1> DEFINE names == NamesAt(voting_result[e], a)
           q == [d \in names |-> Row(e, d)[k]]
<1>1. SharedOut(q, names, AggregateReward(e, a)[k])
  BY SharesOfAddress
<1>2. SumFunction(q) = SumFunctionOnSet(q, names)
  BY DEF SumFunction
<1> QED  BY <1>1, <1>2 DEF SharedOut

(* What the delegates of an address are credited with in a closed epoch is *)
(* what the address was granted, for any candidates, votes and grants and  *)
(* any order of the sort: breakdownRewards never gives away more than      *)
(* there is, and loses less than a unit for each of them.                  *)
THEOREM SharesAlwaysAddUp == Spec => []SharesAddUp
BY RewardsInvariant, SharesFollow, PTL

-------------------------------------------------------------------------------
(* Those ahead of a delegate have better ranks.                            *)
LEMMA RankCounts ==
  ASSUME NEW result, IsFiniteSet(DOMAIN result), NEW rank \in candidateRank(result),
         NEW d \in DOMAIN result
  PROVE  /\ rank[d] \in Nat
         /\ Cardinality({c \in DOMAIN result : result[c].votes > result[d].votes}) < rank[d]
<1> DEFINE n == Cardinality(DOMAIN result)
           ahead == {c \in DOMAIN result : result[c].votes > result[d].votes}
           f == [c \in ahead |-> rank[c]]
<1>1. /\ rank \in Bijection(DOMAIN result, 1 .. n)
      /\ \A c \in ahead : rank[c] < rank[d]
  BY DEF candidateRank
<1>2. /\ \A c \in DOMAIN result : rank[c] \in 1 .. n
      /\ \A b, c \in DOMAIN result : rank[b] = rank[c] => b = c
  BY <1>1 DEF Bijection, Injection, IsInjective
<1>3. n \in Nat
  BY FS_CardinalityType
<1>4. rank[d] \in Nat /\ rank[d] > 0 /\ IsFiniteSet(1 .. rank[d] - 1)
      /\ Cardinality(1 .. rank[d] - 1) = rank[d] - 1
  <2> HIDE DEF n
  <2>1. rank[d] \in 1 .. n
    BY <1>2
  <2>2. PICK i \in 1 .. n : i = rank[d]
    BY <2>1
  <2>3. i \in Nat /\ i > 0 /\ i - 1 \in Int
    BY <1>3, <2>2
  <2>4. /\ IsFiniteSet(1 .. i - 1)
        /\ Cardinality(1 .. i - 1) = IF 1 > i - 1 THEN 0 ELSE (i - 1) - 1 + 1
    BY <2>3, FS_Interval
  <2>5. Cardinality(1 .. i - 1) = i - 1
    BY <2>3, <2>4
  <2> QED  BY <2>2, <2>3, <2>4, <2>5
<1>5. f \in Injection(ahead, 1 .. rank[d] - 1)
  <2>1. \A c \in ahead : f[c] \in 1 .. rank[d] - 1
    <3> HIDE DEF n
    <3> QED  BY <1>1, <1>2, <1>3, <1>4
  <2>2. f \in [ahead -> 1 .. rank[d] - 1]
    BY <2>1
  <2>3. \A b, c \in ahead : f[b] = f[c] => b = c
    BY <1>2
  <2>4. DOMAIN f = ahead
    OBVIOUS
  <2> HIDE DEF f, ahead
  <2> QED  BY <2>2, <2>3, <2>4 DEF Injection, IsInjective
<1> HIDE DEF f, ahead
<1>6. Cardinality(ahead) <= rank[d] - 1 /\ IsFiniteSet(ahead)
  BY <1>4, <1>5, FS_Injection
<1>7. Cardinality(ahead) \in Nat
  BY <1>6, FS_CardinalityType
<1> QED  BY <1>4, <1>6, <1>7 DEF ahead

LEMMA TopFollows == RInv => OnlyTopEarn
<1> SUFFICES ASSUME RInv, NEW e \in Closed, NEW d \in DOMAIN account_reward[e],
                    Cardinality(NamesAt(voting_result[e], voting_result[e][d].address)) > 1
             PROVE  LET result == voting_result[e]
                        ahead  == Cardinality({c \in DOMAIN result : result[c].votes > result[d].votes})
                    IN  /\ account_reward[e][d].epoch > 0 =>
                             ahead < NumDelegatesForEpochReward /\ d \notin ExemptCandidatesFromEpochReward
                        /\ account_reward[e][d].bonus > 0 =>
                             ahead < NumDelegatesForFoundationBonus /\ d \notin ExemptCandidatesFromEpochReward
  BY DEF OnlyTopEarn
<1> DEFINE result == voting_result[e]
           a == result[d].address
           names == NamesAt(result, a)
           ahead == Cardinality({c \in DOMAIN result : result[c].votes > result[d].votes})
<1>1. PICK rank \in Ranks(e) : account_reward[e] = rebuildAccountRewardTable(e, rank)
  BY ClosedEpochs
<1>2. d \in DOMAIN result /\ d \in names
  BY <1>1, RowOf DEF NamesAt
<1>3. a \in Addresses /\ IsFiniteSet(DOMAIN result)
  BY <1>2, ClosedEpochs, IndexedEpochs
<1>4. rank[a] \in candidateRank(result)
  BY <1>1, <1>3 DEF Ranks
<1>5. rank[a][d] \in Nat /\ ahead < rank[a][d] /\ ahead \in Nat
  <2>1. IsFiniteSet({c \in DOMAIN result : result[c].votes > result[d].votes})
    BY <1>3, FS_Subset
  <2> HIDE DEF result, a
  <2> QED  BY <1>2, <1>3, <1>4, <2>1, RankCounts, FS_CardinalityType
<1>6. a \in AddressesPaid(e)
  BY <1>1, <1>2, RowOf
<1>7. Cardinality(names) # 1
  <2>1. IsFiniteSet(names)
    BY <1>3, FS_Subset DEF NamesAt
  <2> QED  OBVIOUS
<1> DEFINE f == SharesOf(getProductivity(e), result, names, AggregateReward(e, a), rank[a])
<1>8. account_reward[e][d] = f[d]
  BY <1>1, <1>2, <1>6, <1>7, SharerRow DEF Row
<1>9. /\ d \notin EarnEpoch(getProductivity(e), names, rank[a]) => f[d].epoch = 0
      /\ d \notin EarnBonus(names, rank[a]) => f[d].bonus = 0
  <2> HIDE DEF names, result, a
  <2> QED  BY <1>2 DEF SharesOf, Reward
<1>10. /\ d \in EarnEpoch(getProductivity(e), names, rank[a]) =>
            rank[a][d] <= NumDelegatesForEpochReward /\ d \notin ExemptCandidatesFromEpochReward
       /\ d \in EarnBonus(names, rank[a]) =>
            rank[a][d] <= NumDelegatesForFoundationBonus /\ d \notin ExemptCandidatesFromEpochReward
  BY DEF EarnEpoch, EarnBonus
<1>11. NumDelegatesForEpochReward \in Nat /\ NumDelegatesForFoundationBonus \in Nat
  BY AmountsAssumption
<1> HIDE DEF f, ahead, names, a
<1> QED  BY <1>5, <1>8, <1>9, <1>10, <1>11 DEF ahead, result

(* Whatever order Go puts delegates of equal votes into, one that shares   *)
(* its address is credited with an epoch reward or a bonus only if fewer   *)
(* have more votes than earn one, and it is not exempt.                    *)
THEOREM OnlyTopEverEarn == Spec => []OnlyTopEarn
BY RewardsInvariant, TopFollows, PTL

-------------------------------------------------------------------------------
(* The name of an address, which is one of its delegates or nobody.        *)
LEMMA NamesOfRows ==
  ASSUME RInv, NEW r \in reward_history
  PROVE  LET result == voting_result[r.epoch]
         IN  /\ r.epoch \in 1 .. EpochOf(height) /\ Nobody \notin DOMAIN result
             /\ r.name \in NamesAt(result, r.address)
                  \/ (r.name = Nobody /\ NamesAt(result, r.address) = {})
<1> DEFINE e == r.epoch
           result == voting_result[e]
<1>1. /\ e \in 1 .. EpochOf(height)
      /\ r.name = candidateName(r.address, updateCandidateRewardAddress(e))
  BY DEF RInv, TablesFormed
<1> HIDE DEF e
<1>2. result = snapshots[e].result /\ Nobody \notin DOMAIN result
  BY <1>1, IndexedEpochs
<1> DEFINE names == updateCandidateRewardAddress(e)
<1>3. names = [a \in {result[d].address : d \in DOMAIN result} |-> NamesAt(result, a)]
  BY <1>2 DEF updateCandidateRewardAddress
<1> HIDE DEF names, result
<1>4. /\ r.address \in DOMAIN names <=> NamesAt(result, r.address) # {}
      /\ r.address \in DOMAIN names => names[r.address] = NamesAt(result, r.address)
  BY <1>3 DEF NamesAt
<1>5. r.name = IF r.address \in DOMAIN names THEN CHOOSE d \in names[r.address] : TRUE ELSE Nobody
  BY <1>1 DEF candidateName, names
<1>6. r.name \in NamesAt(result, r.address)
        \/ (r.name = Nobody /\ NamesAt(result, r.address) = {})
  BY <1>4, <1>5
<1> QED  BY <1>1, <1>2, <1>6 DEF result, e

LEMMA HistoryFollows == RInv => HistoryAgrees
<1> SUFFICES ASSUME RInv  PROVE HistoryAgrees
  OBVIOUS
<1>1. ASSUME NEW e \in Closed, NEW d \in DOMAIN voting_result[e],
             NamesAt(voting_result[e], voting_result[e][d].address) = {d}
      PROVE  Total({r \in reward_history : r.epoch = e /\ r.name = d}) = Row(e, d)
  <2> DEFINE a == voting_result[e][d].address
  <2>1. /\ e \in 1 .. EpochOf(height) /\ a \in Addresses /\ Nobody # d
    BY ClosedEpochs, IndexedEpochs
  <2>2. PICK rank : account_reward[e] = rebuildAccountRewardTable(e, rank)
    BY ClosedEpochs
  <2>3. Row(e, d) = AggregateReward(e, a)
    <3>1. Cardinality(NamesAt(voting_result[e], a)) = 1
      BY <1>1, FS_Singleton
    <3> QED  BY <1>1, <2>1, <2>2, <3>1, SoleRow
  <2>4. ASSUME NEW r \in reward_history, r.epoch = e
        PROVE  r.name = d <=> r.address = a
    <3>1. /\ Nobody \notin DOMAIN voting_result[e]
          /\ r.name \in NamesAt(voting_result[e], r.address)
               \/ (r.name = Nobody /\ NamesAt(voting_result[e], r.address) = {})
      BY <2>4, NamesOfRows
    <3>2. r.address = a => r.name = d
      BY <1>1, <3>1
    <3>3. r.name = d => r.address = a
      BY <2>1, <3>1 DEF NamesAt
    <3> QED  BY <3>2, <3>3
  <2>5. {r \in reward_history : r.epoch = e /\ r.name = d}
          = {r \in reward_history : r.epoch = e /\ r.address = a}
    BY <2>4
  <2> QED  BY <2>3, <2>5 DEF AggregateReward
<1>2. ASSUME NEW r \in reward_history
      PROVE  r.name = Nobody <=> NamesAt(voting_result[r.epoch], r.address) = {}
  BY NamesOfRows DEF NamesAt
<1> QED  BY <1>1, <1>2 DEF HistoryAgrees

(* The reward history and the account rewards tell the same about a        *)
(* delegate with an address of its own, whatever blocks were rolled back   *)
(* and however often the process lost the map of updateRewardHistory.      *)
THEOREM HistoryAlwaysAgrees == Spec => []HistoryAgrees
BY RewardsInvariant, HistoryFollows, PTL

(* A delegate in turn for a block that produced one counts as productive.  *)
LEMMA ProducersCount ==
  ASSUME RInv, NEW e, NEW g \in DOMAIN block_history, NEW h \in DOMAIN block_history,
         EpochOf(g) = e, EpochOf(h) = e, block_history[h].expected = block_history[g].producer
  PROVE  /\ block_history[g].producer \in DOMAIN getProductivity(e)
         /\ getProductivity(e)[block_history[g].producer].Production \in Nat \ {0}
<1> DEFINE H == {x \in DOMAIN block_history : EpochOf(x) = e}
           X == {block_history[x].expected : x \in H}
           P(d) == {x \in H : block_history[x].producer = d}
           E(d) == {x \in H : block_history[x].expected = d}
           p == block_history[g].producer
<1>1. getProductivity(e) =
        [d \in X |-> [Production |-> Cardinality(P(d)), ExpectedProduction |-> Cardinality(E(d))]]
  BY DEF getProductivity
<1>2. p \in X /\ g \in P(p)
  <2>1. block_history[h].expected \in X
    OBVIOUS
  <2> QED  BY <2>1
<1>3. DOMAIN block_history = 1 .. height /\ height \in Nat
  BY DEF RInv, TablesFormed, ChainFormed
<1>4. IsFiniteSet(P(p))
  <2>1. IsFiniteSet(1 .. height)
    BY <1>3, FS_Interval
  <2>2. P(p) \subseteq 1 .. height
    BY <1>3
  <2> QED  BY <2>1, <2>2, FS_Subset
<1> HIDE DEF P, X, E, p
<1>5. Cardinality(P(p)) \in Nat \ {0}
  <2>1. P(p) # {}
    BY <1>2
  <2> QED  BY <1>4, <2>1, FS_CardinalityType, FS_EmptySet
<1>6. getProductivity(e)[p].Production = Cardinality(P(p)) /\ p \in DOMAIN getProductivity(e)
  BY <1>1, <1>2
<1> QED  BY <1>5, <1>6 DEF p

(* The delegates of an address share what it got for blocks, if one of     *)
(* them is productive and there is one for each.                           *)
LEMMA BlocksAreShared ==
  ASSUME NEW productivity, NEW result, NEW names, IsFiniteSet(names), NEW total \in Rewards, NEW rank,
         \A d \in DOMAIN productivity : productivity[d].Production \in Nat,
         NEW p \in names, p \in DOMAIN productivity, productivity[p].Production # 0,
         Cardinality(names) <= total.block
  PROVE  DOMAIN breakdownRewards(productivity, result, names, total, rank) # {}
<1> DEFINE T == EarnBlock(productivity, names)
           f == ProductionOf(productivity, names)
           shares == SharesOf(productivity, result, names, total, rank)
           q == [d \in T |-> shares[d].block]
           n == total.block
<1>1. n \in Nat
  BY RewardParts
<1>2. T \in SUBSET names /\ DOMAIN f = T /\ \A d \in T : f[d] = productivity[d].Production /\ f[d] \in Nat
  BY DEF EarnBlock, ProductionOf
<1>3. p \in T /\ f[p] \in Nat \ {0}
  BY <1>2 DEF EarnBlock
<1>4. IsFiniteSet(T) /\ Cardinality(T) <= Cardinality(names)
      /\ Cardinality(T) \in Nat /\ Cardinality(names) \in Nat
  BY <1>2, FS_Subset, FS_CardinalityType
<1>5. SumFunction(f) = SumFunctionOnSet(f, T)
  BY <1>2 DEF SumFunction
<1>6. DOMAIN shares = names
      /\ \A d \in T : shares[d].block = IF SumFunctionOnSet(f, T) > 0
                                          THEN (n * productivity[d].Production) \div SumFunctionOnSet(f, T)
                                          ELSE 0
  <2>1. DOMAIN shares = names
    BY DEF SharesOf
  <2>2. ASSUME NEW d \in T
        PROVE  shares[d].block = IF SumFunction(f) > 0
                                   THEN (n * productivity[d].Production) \div SumFunction(f) ELSE 0
    <3>1. d \in names
      BY <1>2
    <3> QED  BY <3>1 DEF SharesOf, Reward
  <2> QED  BY <1>5, <2>1, <2>2
<1>7. \A d \in T : q[d] = shares[d].block
  OBVIOUS
<1> HIDE DEF T, f, shares, q, n
<1>8. SumFunctionOnSet(f, T) \in Nat \ {0}
  <2>1. SumFunctionOnSet(f, T) \in Nat
    BY <1>2, <1>4, SumOfNats
  <2>2. SumFunctionOnSet(f, T) # 0
    <3>1. f[p] <= SumFunctionOnSet(f, T)
      <4>1. SumFunctionOnSet(f, T) = f[p] + SumFunctionOnSet(f, T \ {p})
        <5>1. \A d \in T : f[d] \in Int
          BY <1>2
        <5> QED  BY <1>3, <1>4, <5>1, SumOfInts
      <4>2. SumFunctionOnSet(f, T \ {p}) \in Nat
        <5>1. IsFiniteSet(T \ {p}) /\ \A d \in T \ {p} : f[d] \in Nat
          BY <1>2, <1>4, FS_Subset
        <5> QED  BY <5>1, SumOfNats
      <4> QED  BY <1>3, <2>1, <4>1, <4>2
    <3> QED  BY <1>3, <2>1, <3>1
  <2> QED  BY <2>1, <2>2
<1>9. \A d \in T : f[d] \in Nat /\ q[d] = (f[d] * n) \div SumFunctionOnSet(f, T)
  <2> TAKE d \in T
  <2>1. f[d] \in Nat /\ f[d] = productivity[d].Production /\ n * f[d] = f[d] * n
    BY <1>1, <1>2
  <2> QED  BY <1>6, <1>7, <1>8, <2>1
<1>10. PICK d \in T : q[d] # 0
  <2>1. Cardinality(T) <= n
    BY <1>1, <1>4 DEF n
  <2> QED  BY <1>1, <1>4, <1>8, <1>9, <2>1, SomebodyShares
<1>11. d \in DOMAIN shares /\ shares[d] # Zero
  <2>1. Zero.block = 0
    BY DEF Zero, Reward
  <2> QED  BY <1>2, <1>6, <1>7, <1>10, <2>1
<1>12. d \in DOMAIN WithoutZero(shares)
  BY <1>11, ZeroIsLeftOut
<1> QED  BY <1>12, BreakdownIs DEF shares

(* One address with somebody to give to is enough.                         *)
LEMMA Closable ==
  ASSUME NEW e, NEW rank, NEW a \in AddressesPaid(e), DOMAIN RewardsOf(e, a, rank[a]) # {}
  PROVE  ~Refused(e, rank)
<1> DEFINE parts == {RewardsOf(e, b, rank[b]) : b \in AddressesPaid(e)}
<1>1. rebuildAccountRewardTable(e, rank) = Assembled(parts)
  BY DEF rebuildAccountRewardTable, Assembled
<1>2. RewardsOf(e, a, rank[a]) \in parts
  OBVIOUS
<1> HIDE DEF parts
<1>3. DOMAIN Assembled(parts) = UNION {DOMAIN p : p \in parts}
  BY DEF Assembled
<1>4. DOMAIN Assembled(parts) # {}
  BY <1>2, <1>3
<1> QED  BY <1>1, <1>4 DEF Refused

LEMMA ClosingFollows == RInv => EpochsClose
<1> DEFINE e == EpochOf(height)
           names(a) == NamesAt(voting_result[e], a)
<1> SUFFICES ASSUME RInv, NEW rank \in Ranks(e), NEW a \in AddressesPaid(e),
                    SureOfAShare(e, a), height > 0
             PROVE  ~Refused(e, rank)
  BY DEF EpochsClose
<1>1. CASE Cardinality(names(a)) = 1
  <2>1. Cardinality({}) = 0
    BY FS_EmptySet
  <2>2. names(a) # {}
    BY <1>1, <2>1
  <2> QED  BY <1>1, <2>2, Closable DEF RewardsOf
<1>2. CASE Cardinality(names(a)) # 1
  <2>1. e \in 1 .. EpochOf(height)
    <3>1. height \in Nat
      BY DEF RInv, ChainFormed
    <3> QED  BY <3>1, EpochOfHeights
  <2>2. a \in Addresses
    BY DEF AddressesPaid, RInv, TablesFormed
  <2>3. IsFiniteSet(names(a)) /\ AggregateReward(e, a) \in Rewards
    <3>1. IsFiniteSet(DOMAIN voting_result[e]) /\ AggregateReward(e, a) \in Rewards
      BY <2>1, <2>2, IndexedEpochs
    <3>2. names(a) \subseteq DOMAIN voting_result[e]
      BY DEF NamesAt
    <3> QED  BY <3>1, <3>2, FS_Subset
  <2>4. PICK p \in names(a), g \in DOMAIN block_history, h \in DOMAIN block_history :
          /\ EpochOf(g) = e /\ EpochOf(h) = e
          /\ block_history[g].producer = p /\ block_history[h].expected = p
    BY <1>2 DEF SureOfAShare
  <2>5. Cardinality(names(a)) <= AggregateReward(e, a).block
    <3>1. AggregateReward(e, a).block >= Cardinality(names(a))
      BY <1>2 DEF SureOfAShare
    <3>2. AggregateReward(e, a).block \in Nat /\ Cardinality(names(a)) \in Nat
      BY <2>3, RewardParts, FS_CardinalityType
    <3> QED  BY <3>1, <3>2
  <2>6. p \in DOMAIN getProductivity(e) /\ getProductivity(e)[p].Production # 0
    BY <2>4, ProducersCount
  <2>7. \A d \in DOMAIN getProductivity(e) : getProductivity(e)[d].Production \in Nat
    BY Productivity
  <2> HIDE DEF e, names
  <2>8. DOMAIN breakdownRewards(getProductivity(e), voting_result[e], names(a),
                                AggregateReward(e, a), rank[a]) # {}
    BY <2>3, <2>5, <2>6, <2>7, BlocksAreShared
  <2>9. DOMAIN RewardsOf(e, a, rank[a]) # {}
    BY <1>2, <2>8 DEF RewardsOf, names
  <2> QED  BY <2>9, Closable
<1> QED  BY <1>1, <1>2

(* The INSERT that closes an epoch is never refused where somebody is sure *)
(* of a share of what was paid in it.                                      *)
THEOREM EpochsAlwaysClose == Spec => []EpochsClose
BY RewardsInvariant, ClosingFollows, PTL

-------------------------------------------------------------------------------
(* The rewards of the rows are amounts, and so are their shares.           *)
LEMMA ShareTypes ==
  ASSUME NEW n \in Nat, NEW w \in Nat, NEW t \in Int
  PROVE  (IF t > 0 THEN (n * w) \div t ELSE 0) \in Nat
<1>1. n * w \in Nat
  OBVIOUS
<1> DEFINE m == n * w
<1> HIDE DEF m
<1>2. ASSUME t > 0
      PROVE  m \div t \in Nat
  BY <1>1, <1>2 DEF m
<1> QED  BY <1>2 DEF m

LEMMA SharesType ==
  ASSUME NEW productivity, NEW result, NEW names, IsFiniteSet(names), NEW total \in Rewards, NEW rank,
         \A d \in DOMAIN productivity : productivity[d].Production \in Nat,
         \A d \in names : result[d].votes \in Nat,
         NEW d \in names
  PROVE  SharesOf(productivity, result, names, total, rank)[d] \in Rewards
<1> DEFINE block == SumFunction(ProductionOf(productivity, names))
           votes == SumFunction(VotesOf(productivity, result, names, rank))
           bonus == EarnBonus(names, rank)
           ofBlock == IF block > 0 /\ d \in EarnBlock(productivity, names)
                        THEN (total.block * productivity[d].Production) \div block ELSE 0
           ofEpoch == IF votes > 0 /\ d \in EarnEpoch(productivity, names, rank)
                        THEN (total.epoch * result[d].votes) \div votes ELSE 0
           ofBonus == IF d \in bonus THEN total.bonus \div Cardinality(bonus) ELSE 0
<1>1. total.block \in Nat /\ total.epoch \in Nat /\ total.bonus \in Nat
  BY RewardParts
<1>2. ofBlock \in Nat
  <2>1. block \in Nat
    <3> DEFINE f == ProductionOf(productivity, names)
               T == EarnBlock(productivity, names)
    <3>1. DOMAIN f = T /\ T \in SUBSET names /\ \A x \in T : f[x] \in Nat
      BY DEF ProductionOf, EarnBlock
    <3>2. block = SumFunctionOnSet(f, T)
      BY <3>1 DEF SumFunction
    <3> HIDE DEF f, T, block
    <3> QED  BY <3>1, <3>2, SumOfNats, FS_Subset
  <2>2. d \in EarnBlock(productivity, names) => productivity[d].Production \in Nat
    BY DEF EarnBlock
  <2> HIDE DEF block
  <2> QED  BY <1>1, <2>1, <2>2, ShareTypes
<1>3. ofEpoch \in Nat
  <2>1. votes \in Nat
    <3> DEFINE f == VotesOf(productivity, result, names, rank)
               T == EarnEpoch(productivity, names, rank)
    <3>1. DOMAIN f = T /\ T \in SUBSET names /\ \A x \in T : f[x] \in Nat
      BY DEF VotesOf, EarnEpoch
    <3>2. votes = SumFunctionOnSet(f, T)
      BY <3>1 DEF SumFunction
    <3> HIDE DEF f, T, votes
    <3> QED  BY <3>1, <3>2, SumOfNats, FS_Subset
  <2> HIDE DEF votes
  <2> QED  BY <1>1, <2>1, ShareTypes
<1>4. ofBonus \in Nat
  <2>1. bonus \subseteq names
    BY DEF EarnBonus
  <2> HIDE DEF bonus
  <2>2. IsFiniteSet(bonus)
    BY <2>1, FS_Subset
  <2>3. d \in bonus => Cardinality(bonus) \in Nat \ {0}
    BY <2>2, FS_CardinalityType, FS_EmptySet
  <2> QED  BY <1>1, <2>3
<1>5. SharesOf(productivity, result, names, total, rank)[d] = Reward(ofBlock, ofEpoch, ofBonus)
  BY DEF SharesOf
<1> HIDE DEF ofBlock, ofEpoch, ofBonus
<1>6. Reward(ofBlock, ofEpoch, ofBonus) \in Rewards
  BY <1>2, <1>3, <1>4, RewardParts
<1> QED  BY <1>5, <1>6

LEMMA RowTypes ==
  ASSUME RInv, NEW e \in Closed
  PROVE  /\ DOMAIN account_reward[e] \subseteq DOMAIN voting_result[e]
         /\ \A d \in DOMAIN account_reward[e] : account_reward[e][d] \in Rewards
<1>1. PICK rank : account_reward[e] = rebuildAccountRewardTable(e, rank)
  BY ClosedEpochs
<1>2. DOMAIN account_reward[e] \subseteq DOMAIN voting_result[e]
  BY <1>1, RowOf
<1>3. SUFFICES ASSUME NEW d \in DOMAIN account_reward[e]
               PROVE  Row(e, d) \in Rewards
  BY <1>2 DEF Row
<1> DEFINE result == voting_result[e]
           a == result[d].address
           names == NamesAt(result, a)
<1>4. d \in names /\ a \in AddressesPaid(e)
  BY <1>1, <1>2, RowOf DEF NamesAt
<1>5. /\ a \in Addresses /\ AggregateReward(e, a) \in Rewards
      /\ IsFiniteSet(DOMAIN result) /\ \A x \in DOMAIN result : result[x].votes \in Nat
  BY <1>2, ClosedEpochs, IndexedEpochs
<1>6. CASE Cardinality(names) = 1
  BY <1>1, <1>4, <1>5, <1>6, SoleRow
<1>7. CASE Cardinality(names) # 1
  <2> DEFINE f == SharesOf(getProductivity(e), result, names, AggregateReward(e, a), rank[a])
  <2>1. Row(e, d) = f[d]
    BY <1>1, <1>4, <1>7, SharerRow
  <2>2. IsFiniteSet(names) /\ \A x \in names : result[x].votes \in Nat
    BY <1>5, FS_Subset DEF NamesAt
  <2>3. \A x \in DOMAIN getProductivity(e) : getProductivity(e)[x].Production \in Nat
    BY Productivity
  <2> HIDE DEF names, result, a
  <2>4. f[d] \in Rewards
    BY <1>4, <1>5, <2>2, <2>3, SharesType
  <2> QED  BY <2>1, <2>4
<1> QED  BY <1>6, <1>7

LEMMA TypesFollow == RInv => TypeOK
<1> SUFFICES ASSUME RInv  PROVE TypeOK
  OBVIOUS
<1>1. /\ height \in Nat /\ Len(chain) \in {height, height + 1} /\ snapshots \in Seq(Snapshots)
      /\ Len(snapshots) = EpochOf(Len(chain)) /\ EpochOf(Len(chain)) <= MaxEpoch /\ MaxEpoch \in Nat
  BY RewardsAssumption DEF RInv, ChainFormed
<1>2. /\ EpochOf(height) \in Nat
      /\ EpochOf(height + 1) \in {EpochOf(height), EpochOf(height) + 1}
  BY <1>1, EpochOfHeights
<1>3. Len(voting_result) = Len(aggregate_voting)
  <2> DEFINE n == EpochOf(height)
             f == [e \in 1 .. n |-> snapshots[e].result]
             g == [e \in 1 .. n |-> snapshots[e].voters]
  <2>1. /\ voting_result = [e \in 1 .. n |-> f[e]] /\ aggregate_voting = [e \in 1 .. n |-> g[e]]
    BY DEF RInv, TablesFormed
  <2> HIDE DEF f, g, n
  <2>2. n \in Nat
    BY <1>2 DEF n
  <2> QED  BY <2>1, <2>2, AppendNext
<1>4. ASSUME RewardAddrToName # Nil
      PROVE  DOMAIN RewardAddrToName \subseteq Addresses /\ {} \notin Range(RewardAddrToName)
  <2>1. PICK e \in 1 .. EpochOf(Len(chain)) : RewardAddrToName = updateCandidateRewardAddress(e)
    BY <1>4 DEF RInv, MapFormed
  <2>2. snapshots[e] \in Snapshots
    BY <1>1, <2>1
  <2> DEFINE result == snapshots[e].result
             addresses == {result[d].address : d \in DOMAIN result}
  <2>3. addresses \subseteq Addresses
    BY <2>2, SnapshotTypes
  <2>4. \A a \in addresses : NamesAt(result, a) # {}
    BY DEF NamesAt
  <2>5. RewardAddrToName = [a \in addresses |-> NamesAt(result, a)]
    BY <2>1 DEF updateCandidateRewardAddress
  <2> HIDE DEF addresses, result
  <2> QED  BY <2>3, <2>4, <2>5 DEF Range
<1>5. \A r \in reward_history : r.epoch \in Epochs /\ r.address \in Addresses /\ r.reward \in Rewards
  <2>1. 1 .. EpochOf(height) \subseteq Epochs
    BY <1>1, <1>2 DEF Epochs
  <2> QED  BY <2>1 DEF RInv, TablesFormed
<1>6. ASSUME NEW e \in Epochs
      PROVE  Range(account_reward[e]) \subseteq Rewards
  <2>1. CASE e \in Closed
    BY <2>1, RowTypes DEF Range
  <2>2. CASE e \notin Closed
    BY <2>2 DEF Range, RInv, OpenIsEmpty
  <2> QED  BY <2>1, <2>2
<1>7. Len(block_history) = height /\ DOMAIN account_reward = Epochs
  BY DEF RInv, TablesFormed, ClosedAsRebuilt
<1>8. height \in {Len(chain), Len(chain) - 1} /\ height >= 0
  BY <1>1
<1> QED  BY <1>1, <1>3, <1>4, <1>5, <1>6, <1>7, <1>8 DEF TypeOK

(* The types of the tables, and of the map in memory: every address in it  *)
(* has a delegate.                                                         *)
THEOREM TypeCorrect == Spec => []TypeOK
BY RewardsInvariant, TypesFollow, PTL

-------------------------------------------------------------------------------
(* The queries that split rewards.  What a delegate sends a voter for an   *)
(* epoch, and in which epochs.                                             *)
Planned(e, d) == calculatedDistributedReward(voting_result[e][d], account_reward[e][d])

Amount(e, d, v) ==
  Share(Planned(e, d), aggregate_voting[e][<<d, v>>], voting_result[e][d].votes)

PaidEpochs(start, end, d) == {e \in Between(start, end) : Paid(e, d)}

EpochsAt(start, end, a, d) ==
  {e \in Between(start, end) : d \in NamesAt(voting_result[e], a) /\ Paid(e, d)}

EpochsOf(E, d, v) == {e \in E : v \in VotersOf(e, d)}

Sent(E, d) ==
  [v \in {x \in Voters : EpochsOf(E, d, x) # {}} |->
     SumFunction([e \in EpochsOf(E, d, v) |-> Amount(e, d, v)])]

AnswerFor(E, d) ==
  [distributions |-> Sent(E, d),
   refund |-> SumFunction([e \in E |-> InAll(account_reward[e][d])]) - SumFunction(Sent(E, d))]

PairsPaid(start, end, a) ==
  {p \in distributionPlanByRewardAddress(start, end, a) : Paid(p[1], p[2])}

LEMMA EpochsOfPairs ==
  ASSUME NEW start, NEW end, NEW a, NEW d
  PROVE  /\ {p[1] : p \in {q \in PairsPaid(start, end, a) : q[2] = d}} = EpochsAt(start, end, a, d)
         /\ d \in {p[2] : p \in PairsPaid(start, end, a)} <=> EpochsAt(start, end, a, d) # {}
<1> DEFINE B == Between(start, end)
           U == UNION {DOMAIN voting_result[e] : e \in B}
           P == PairsPaid(start, end, a)
           E == EpochsAt(start, end, a, d)
<1>1. P = {p \in B \X U : p[2] \in NamesAt(voting_result[p[1]], a) /\ Paid(p[1], p[2])}
  BY DEF PairsPaid, distributionPlanByRewardAddress
<1>2. E = {e \in B : d \in NamesAt(voting_result[e], a) /\ Paid(e, d)}
  BY DEF EpochsAt
<1>3. ASSUME NEW e \in E
      PROVE  <<e, d>> \in P
  <2>1. e \in B /\ d \in NamesAt(voting_result[e], a) /\ Paid(e, d)
    BY <1>2
  <2>2. d \in U
    BY <2>1 DEF NamesAt
  <2> HIDE DEF P, B, U, E
  <2>3. <<e, d>> \in B \X U
    BY <2>1, <2>2
  <2> QED  BY <1>1, <2>1, <2>3
<1>4. ASSUME NEW p \in P
      PROVE  p[2] = d => p[1] \in E
  <2> HIDE DEF P, B, U, E
  <2> QED  BY <1>1, <1>2
<1> HIDE DEF P, B, U, E
<1>5. ASSUME NEW e \in E
      PROVE  \E p \in P : p[1] = e /\ p[2] = d
  <2>1. <<e, d>>[1] = e /\ <<e, d>>[2] = d
    OBVIOUS
  <2> QED  BY <1>3, <2>1
<1>6. {p[1] : p \in {q \in P : q[2] = d}} = E
  BY <1>4, <1>5
<1>7. d \in {p[2] : p \in P} <=> E # {}
  BY <1>4, <1>5
<1> QED  BY <1>6, <1>7 DEF P, E

(* GetHermesBookkeeping and the averages, by the epochs of a delegate.     *)
LEMMA HermesIs ==
  ASSUME NEW start, NEW end, NEW a, NEW d
  PROVE  LET E == EpochsAt(start, end, a, d)
         IN  /\ d \in DOMAIN GetHermesBookkeeping(start, end, a) <=> E # {}
             /\ E # {} => GetHermesBookkeeping(start, end, a)[d] = AnswerFor(E, d)
             /\ E # {} => GetAverageHermesStats(start, end, a)[d].reward =
                            SumFunction([e \in E |-> Planned(e, d)]) \div Cardinality(E)
<1> DEFINE P == PairsPaid(start, end, a)
           eps(x) == {p[1] : p \in {q \in P : q[2] = x}}
           D == {p[2] : p \in P}
           E == EpochsAt(start, end, a, d)
<1>1. eps(d) = E /\ (d \in D <=> E # {})
  BY EpochsOfPairs
<1>2. GetHermesBookkeeping(start, end, a) = [x \in D |-> AnswerFor(eps(x), x)]
  BY DEF GetHermesBookkeeping, AnswerFor, Sent, EpochsOf, Amount, Planned, PairsPaid
<1>3. ASSUME d \in D
      PROVE  GetAverageHermesStats(start, end, a)[d].reward =
               SumFunction([e \in eps(d) |-> Planned(e, d)]) \div Cardinality(eps(d))
  <2> DEFINE f(x) == [e \in eps(x) |-> Planned(e, x)]
             g(x) == [e \in eps(x) |-> voting_result[e][x].votes]
  <2>1. GetAverageHermesStats(start, end, a) =
          [x \in D |-> [reward |-> SumFunction(f(x)) \div Cardinality(DOMAIN f(x)),
                        votes  |-> SumFunction(g(x)) \div Cardinality(DOMAIN g(x))]]
    BY DEF GetAverageHermesStats, Planned, PairsPaid
  <2>2. DOMAIN f(d) = eps(d)
    OBVIOUS
  <2>3. f(d) = [e \in eps(d) |-> Planned(e, d)]
    OBVIOUS
  <2> HIDE DEF f, g, eps, D
  <2>4. GetAverageHermesStats(start, end, a)[d].reward = SumFunction(f(d)) \div Cardinality(DOMAIN f(d))
    BY <1>3, <2>1
  <2> QED  BY <2>2, <2>3, <2>4
<1> HIDE DEF eps, D, E
<1>4. d \in DOMAIN GetHermesBookkeeping(start, end, a) <=> d \in D
  BY <1>2
<1>5. d \in D => GetHermesBookkeeping(start, end, a)[d] = AnswerFor(eps(d), d)
  BY <1>2
<1>6. E # {} => GetHermesBookkeeping(start, end, a)[d] = AnswerFor(E, d)
  BY <1>1, <1>5
<1>7. E # {} => GetAverageHermesStats(start, end, a)[d].reward =
                  SumFunction([e \in E |-> Planned(e, d)]) \div Cardinality(E)
  BY <1>1, <1>3
<1> QED  BY <1>1, <1>4, <1>6, <1>7 DEF E

(* Portions of a reward. *)
LEMMA PortionIs ==
  ASSUME NEW percentage \in DOMAIN BasisPoints, NEW reward \in Nat
  PROVE  /\ Portion(percentage, reward) \in Nat /\ Portion(percentage, reward) <= reward
         /\ percentage = 10000 => Portion(percentage, reward) = reward
         /\ percentage = 0 => Portion(percentage, reward) = 0
<1>1. /\ BasisPoints[percentage] \in Nat /\ BasisPoints[percentage] <= 10000
      /\ percentage \in {0, 10000} => BasisPoints[percentage] = percentage
  <2>1. /\ percentage \in 0 .. 10000 /\ BasisPoints[percentage] \in {percentage, percentage - 1} \cap Nat
        /\ percentage % 100 = 0 => BasisPoints[percentage] = percentage
    BY BasisPointsAssumption
  <2>2. 0 % 100 = 0 /\ 10000 % 100 = 0
    OBVIOUS
  <2>3. BasisPoints[percentage] \in Nat /\ BasisPoints[percentage] <= 10000
    <3>1. \A n \in Nat : \A i \in 0 .. n : \A j \in {i, i - 1} \cap Nat : j \in Nat /\ j <= n
      OBVIOUS
    <3>2. 10000 \in Nat
      OBVIOUS
    <3> DEFINE full == 10000
    <3>3. full \in Nat /\ percentage \in 0 .. full
          /\ BasisPoints[percentage] \in {percentage, percentage - 1} \cap Nat
      BY <2>1, <3>2
    <3> HIDE DEF full
    <3>4. BasisPoints[percentage] \in Nat /\ BasisPoints[percentage] <= full
      BY <3>1, <3>3
    <3> QED  BY <3>4 DEF full
  <2>4. percentage \in {0, 10000} => percentage % 100 = 0
    BY <2>2
  <2> QED  BY <2>1, <2>3, <2>4
<1> DEFINE b == BasisPoints[percentage]
           m == reward * b
<1> HIDE DEF b
<1>2. m \in Nat /\ m <= reward * 10000 /\ (b = 10000 => m = reward * 10000) /\ (b = 0 => m = 0)
  <2>1. b \in Nat /\ b <= 10000
    BY <1>1 DEF b
  <2>2. 10000 - b \in Nat /\ reward * (10000 - b) \in Nat
    BY <2>1
  <2>3. reward * 10000 = reward * b + reward * (10000 - b)
    BY <2>1
  <2> QED  BY <2>1, <2>2, <2>3
<1> HIDE DEF m
<1>3. m \div 10000 \in Nat /\ m \div 10000 <= reward
      /\ (m = reward * 10000 => m \div 10000 = reward) /\ (m = 0 => m \div 10000 = 0)
  BY <1>2
<1>4. Portion(percentage, reward) = m \div 10000
  BY DEF Portion, m, b
<1> QED  BY <1>1, <1>2, <1>3, <1>4 DEF b

(* The promised part of a reward is part of it. *)
LEMMA PlannedIs ==
  ASSUME RInv, NEW e \in Closed, NEW d \in DOMAIN account_reward[e]
  PROVE  /\ Planned(e, d) \in Nat /\ InAll(account_reward[e][d]) \in Nat
         /\ Planned(e, d) <= InAll(account_reward[e][d])
<1> DEFINE r == account_reward[e][d]
           plan == voting_result[e][d].portion
<1>1. r.block \in Nat /\ r.epoch \in Nat /\ r.bonus \in Nat
  BY RowTypes, RewardParts
<1>2. \A k \in Kinds : plan[k] \in DOMAIN BasisPoints
  <2>1. /\ snapshots[e] \in Snapshots /\ voting_result[e] = snapshots[e].result
        /\ d \in DOMAIN voting_result[e]
    BY ClosedEpochs, IndexedEpochs, RowTypes
  <2> QED  BY <2>1, VotersAssumption
<1>3. /\ plan.block \in DOMAIN BasisPoints /\ plan.epoch \in DOMAIN BasisPoints
      /\ plan.bonus \in DOMAIN BasisPoints
  BY <1>2 DEF Kinds
<1> HIDE DEF plan, r
<1>4. /\ Portion(plan.block, r.block) \in Nat /\ Portion(plan.block, r.block) <= r.block
      /\ Portion(plan.epoch, r.epoch) \in Nat /\ Portion(plan.epoch, r.epoch) <= r.epoch
      /\ Portion(plan.bonus, r.bonus) \in Nat /\ Portion(plan.bonus, r.bonus) <= r.bonus
  BY <1>1, <1>3, PortionIs
<1>5. Planned(e, d) = Portion(plan.block, r.block) + Portion(plan.epoch, r.epoch)
                        + Portion(plan.bonus, r.bonus)
  BY DEF Planned, calculatedDistributedReward, plan, r
<1>6. InAll(r) = r.block + r.epoch + r.bonus
  BY DEF InAll
<1> QED  BY <1>1, <1>4, <1>5, <1>6 DEF r

(* The voters of a delegate, whose votes are within the delegate's. *)
LEMMA VotersWithin ==
  ASSUME RInv, NEW e \in Closed, NEW d \in DOMAIN voting_result[e]
  PROVE  LET votes == [v \in VotersOf(e, d) |-> aggregate_voting[e][<<d, v>>]]
         IN  /\ IsFiniteSet(VotersOf(e, d)) /\ VotersOf(e, d) \subseteq Voters
             /\ voting_result[e][d].votes \in Nat
             /\ \A v \in VotersOf(e, d) : votes[v] = aggregate_voting[e][<<d, v>>] /\ votes[v] \in Nat
             /\ SumFunctionOnSet(votes, VotersOf(e, d)) <= voting_result[e][d].votes
<1> DEFINE V == VotersOf(e, d)
           f == aggregate_voting[e]
           votes == [v \in V |-> f[<<d, v>>]]
           keys == {k \in DOMAIN f : k[1] = d}
           m == [v \in V |-> <<d, v>>]
           image == {m[v] : v \in V}
<1>1. PICK s \in Snapshots : voting_result[e] = s.result /\ f = s.voters
  BY ClosedEpochs, IndexedEpochs
<1>2. /\ IsFiniteSet(Voters) /\ IsFiniteSet(DOMAIN f) /\ \A k \in DOMAIN f : f[k] \in Nat
      /\ SumFunctionOnSet(f, keys) <= voting_result[e][d].votes
  <2>1. /\ IsFiniteSet(Voters) /\ IsFiniteSet(DOMAIN s.voters)
        /\ \A k \in DOMAIN s.voters : s.voters[k] \in Nat
    BY VotersAssumption
  <2>2. SumFunctionOnSet(s.voters, {k \in DOMAIN s.voters : k[1] = d}) <= s.result[d].votes
    BY <1>1, SnapshotsAssumption
  <2> QED  BY <1>1, <2>1, <2>2
<1>3. voting_result[e][d].votes \in Nat
  BY ClosedEpochs, IndexedEpochs
<1>4. V \subseteq Voters /\ \A v \in V : <<d, v>> \in DOMAIN f
  BY DEF VotersOf
<1>5. IsFiniteSet(V)
  BY <1>2, <1>4, FS_Subset
<1>6. \A v \in V : votes[v] = f[<<d, v>>] /\ votes[v] \in Nat /\ m[v] = <<d, v>>
  BY <1>2, <1>4
<1>7. \A v, w \in V : m[v] = m[w] => v = w
  BY <1>6
<1>8. image \subseteq keys
  <2>1. ASSUME NEW v \in V
        PROVE  m[v] \in keys
    <3>1. <<d, v>>[1] = d
      OBVIOUS
    <3> QED  BY <1>4, <1>6, <3>1
  <2> HIDE DEF m, keys, V
  <2> QED  BY <2>1
<1> HIDE DEF V, f, votes, keys, m
<1>9. Renames(f, image, votes, V, m)
  <2>1. image = {m[v] : v \in V}
    OBVIOUS
  <2>2. \A v \in V : f[m[v]] = votes[v]
    BY <1>6, Zenon
  <2>3. \A v \in V : votes[v] \in Int
    <3>1. \A v \in V : votes[v] \in Nat
      BY <1>6, Zenon
    <3> QED  BY <3>1
  <2> HIDE DEF image
  <2> QED  BY <1>7, <2>1, <2>2, <2>3 DEF Renames
<1>10. SumFunctionOnSet(f, image) = SumFunctionOnSet(votes, V) /\ IsFiniteSet(image)
  <2> HIDE DEF image
  <2> QED  BY <1>5, <1>9, SumRenamed
<1>11. SumFunctionOnSet(f, image) <= SumFunctionOnSet(f, keys)
  <2> HIDE DEF image
  <2>1. keys \subseteq DOMAIN f
    BY DEF keys
  <2>2. /\ IsFiniteSet(keys) /\ \A k \in keys : f[k] \in Nat
    BY <1>2, <2>1, FS_Subset
  <2>3. /\ IsFiniteSet(keys \ image) /\ image \cap (keys \ image) = {}
        /\ image \cup (keys \ image) = keys
    BY <1>8, <2>2, FS_Subset
  <2>4. /\ \A k \in image \cup (keys \ image) : f[k] \in Int
        /\ \A k \in keys \ image : f[k] \in Nat
        /\ \A k \in image : f[k] \in Nat
    BY <1>8, <2>2
  <2>5. SumFunctionOnSet(f, image \cup (keys \ image))
          = SumFunctionOnSet(f, image) + SumFunctionOnSet(f, keys \ image)
    BY <1>10, <2>3, <2>4, SumOfUnion
  <2>6. SumFunctionOnSet(f, image) \in Nat /\ SumFunctionOnSet(f, keys \ image) \in Nat
    BY <1>10, <2>3, <2>4, SumOfNats
  <2>7. SumFunctionOnSet(f, keys) = SumFunctionOnSet(f, image) + SumFunctionOnSet(f, keys \ image)
    BY <2>3, <2>5
  <2> QED  BY <2>6, <2>7
<1>12. SumFunctionOnSet(votes, V) <= voting_result[e][d].votes
  <2>1. SumFunctionOnSet(votes, V) \in Nat
    BY <1>5, <1>6, SumOfNats
  <2>2. SumFunctionOnSet(f, keys) \in Nat
    <3>1. keys \subseteq DOMAIN f
      BY DEF keys
    <3>2. IsFiniteSet(keys) /\ \A k \in keys : f[k] \in Nat
      BY <1>2, <3>1, FS_Subset
    <3> QED  BY <3>2, SumOfNats
  <2> QED  BY <1>2, <1>3, <1>10, <1>11, <2>1, <2>2
<1> QED  BY <1>3, <1>4, <1>5, <1>6, <1>12 DEF V, f, votes

(* A number divided exactly. *)
LEMMA WholePart ==
  ASSUME NEW m \in Nat, NEW n \in Nat, NEW a \in Nat \ {0}, m <= a
  PROVE  /\ (m * n) \div a <= n
         /\ m = a => (m * n) \div a = n
<1>1. (a * n) \div a = n
  BY QuotientOfProduct
<1>2. a - m \in Nat /\ (a - m) * n \in Nat /\ m * n \in Nat /\ a * n = m * n + (a - m) * n
  OBVIOUS
<1>3. ((m * n) \div a) + (((a - m) * n) \div a) <= (m * n + (a - m) * n) \div a
  BY <1>2, QuotientOfSum
<1> DEFINE x == m * n
           y == (a - m) * n
<1>4. x \div a \in Nat /\ y \div a \in Nat
  <2> HIDE DEF x, y
  <2> QED  BY <1>2, Quotient DEF x, y
<1> HIDE DEF x, y
<1>5. (x \div a) + (y \div a) <= n
  BY <1>1, <1>2, <1>3 DEF x, y
<1> QED  BY <1>1, <1>4, <1>5 DEF x

(* What all the voters of a delegate are sent for an epoch. *)
RowAmounts(e, d) == [v \in VotersOf(e, d) |-> Amount(e, d, v)]

VotesFor(e, d) == [v \in VotersOf(e, d) |-> aggregate_voting[e][<<d, v>>]]

RowSum(e, d) == SumFunctionOnSet(RowAmounts(e, d), VotersOf(e, d))

AllKnown(e, d) ==
  /\ HasVoters(e, d)
  /\ voting_result[e][d].votes = SumFunctionOnSet(VotesFor(e, d), VotersOf(e, d))

LEMMA RowWithinPlan ==
  ASSUME RInv, NEW e \in Closed, NEW d \in DOMAIN account_reward[e],
         HasVoters(e, d) => voting_result[e][d].votes > 0
  PROVE  /\ IsFiniteSet(VotersOf(e, d)) /\ VotersOf(e, d) \subseteq Voters
         /\ \A v \in VotersOf(e, d) : Amount(e, d, v) \in Nat
         /\ RowSum(e, d) \in Nat /\ RowSum(e, d) <= Planned(e, d)
         /\ Cardinality(VotersOf(e, d)) \in Nat
         /\ AllKnown(e, d) => Planned(e, d) < RowSum(e, d) + Cardinality(VotersOf(e, d))
<1> DEFINE V == VotersOf(e, d)
           f == VotesFor(e, d)
           q == RowAmounts(e, d)
           n == Planned(e, d)
           a == voting_result[e][d].votes
           s == SumFunctionOnSet(f, V)
<1>1. /\ IsFiniteSet(V) /\ V \subseteq Voters /\ a \in Nat
      /\ \A v \in V : f[v] = aggregate_voting[e][<<d, v>>] /\ f[v] \in Nat
      /\ s <= a
  BY RowTypes, VotersWithin DEF VotesFor
<1>2. n \in Nat
  BY PlannedIs
<1>3. V # {} => a > 0
  BY DEF HasVoters
<1>4. \A v \in V : Amount(e, d, v) = (n * f[v]) \div a /\ q[v] = Amount(e, d, v)
  BY <1>1 DEF Amount, Share, RowAmounts
<1>5. RowSum(e, d) = SumFunctionOnSet(q, V)
  BY DEF RowSum
<1>6. AllKnown(e, d) <=> V # {} /\ a = s
  BY DEF AllKnown, HasVoters
<1> HIDE DEF V, f, q, n, a, s
<1>7. CASE V = {}
  <2>1. SumFunctionOnSet(q, V) = 0
    BY <1>7, SumEmpty
  <2>2. Cardinality(V) = 0
    BY <1>7, FS_EmptySet
  <2> QED  BY <1>1, <1>2, <1>5, <1>6, <1>7, <2>1, <2>2 DEF V, n
<1>8. CASE V # {}
  <2>1. a \in Nat \ {0}
    BY <1>1, <1>3, <1>8
  <2>2. \A v \in V : f[v] \in Nat /\ q[v] = (f[v] * n) \div a
    <3>1. \A x \in Nat : n * x = x * n
      BY <1>2
    <3> QED  BY <1>1, <1>4, <3>1
  <2>3. LET exact == (s * n) \div a
        IN  /\ s \in Nat /\ SumFunctionOnSet(q, V) \in Nat /\ exact \in Nat
            /\ SumFunctionOnSet(q, V) <= exact
            /\ V # {} => exact - SumFunctionOnSet(q, V) < Cardinality(V)
    BY <1>1, <1>2, <2>1, <2>2, SumOfQuotients DEF s
  <2>4. (s * n) \div a <= n /\ (s = a => (s * n) \div a = n)
    <3>1. s \in Nat /\ s <= a
      BY <1>1, <2>3
    <3> QED  BY <1>2, <2>1, <3>1, WholePart
  <2>5. \A v \in V : q[v] \in Nat
    <3>1. ASSUME NEW x \in Nat
          PROVE  (n * x) \div a \in Nat
      <4>1. a > 0 /\ a \in Int
        BY <2>1
      <4>2. (IF a > 0 THEN (n * x) \div a ELSE 0) \in Nat
        BY <1>2, <4>1, ShareTypes
      <4> QED  BY <4>1, <4>2
    <3> QED  BY <1>1, <1>4, <3>1
  <2>6. Cardinality(V) \in Nat
    BY <1>1, FS_CardinalityType
  <2> DEFINE exact == (s * n) \div a
             given == SumFunctionOnSet(q, V)
  <2>7. exact \in Nat /\ given \in Nat /\ given <= exact /\ exact - given < Cardinality(V)
    BY <1>8, <2>3
  <2> HIDE DEF exact, given
  <2>8. exact <= n /\ (s = a => exact = n)
    BY <2>4 DEF exact
  <2>9. given <= n /\ (a = s => n < given + Cardinality(V))
    BY <1>2, <2>6, <2>7, <2>8
  <2>10. /\ RowSum(e, d) = given /\ Planned(e, d) = n /\ VotersOf(e, d) = V
    BY <1>5 DEF given, n, V
  <2> QED  BY <1>1, <1>4, <1>6, <2>5, <2>6, <2>7, <2>9, <2>10
<1> QED  BY <1>7, <1>8

(* Over some epochs, the voters are sent what they are sent for each.      *)
Payable(E, d) ==
  /\ IsFiniteSet(E)
  /\ \A e \in E : /\ e \in Closed /\ d \in DOMAIN account_reward[e]
                  /\ HasVoters(e, d) => voting_result[e][d].votes > 0

RowSumsOf(E, d) == [e \in E |-> RowSum(e, d)]

LEMMA SentInAll ==
  ASSUME RInv, NEW E, NEW d, Payable(E, d)
  PROVE  SumFunction(Sent(E, d)) = SumFunctionOnSet(RowSumsOf(E, d), E)
<1> DEFINE V == {x \in Voters : EpochsOf(E, d, x) # {}}
           S == {p \in E \X V : p[2] \in VotersOf(p[1], d)}
           f == [p \in S |-> Amount(p[1], d, p[2])]
           r == RowSumsOf(E, d)
           c == Sent(E, d)
<1>1. /\ IsFiniteSet(E) /\ IsFiniteSet(V)
  <2>1. V \subseteq Voters /\ IsFiniteSet(Voters)
    BY VotersAssumption
  <2> HIDE DEF V
  <2> QED  BY <2>1, FS_Subset DEF Payable
<1>2. ASSUME NEW e \in E
      PROVE  /\ VotersOf(e, d) \subseteq V
             /\ \A v \in VotersOf(e, d) : Amount(e, d, v) \in Nat
  <2>1. e \in Closed /\ d \in DOMAIN account_reward[e]
        /\ (HasVoters(e, d) => voting_result[e][d].votes > 0)
    BY DEF Payable
  <2>2. /\ VotersOf(e, d) \subseteq Voters
        /\ \A v \in VotersOf(e, d) : Amount(e, d, v) \in Nat
    BY <2>1, RowWithinPlan
  <2> QED  BY <2>2 DEF EpochsOf
<1>3. \A e \in E : InRow(S, V, e) = VotersOf(e, d)
  <2>1. SUFFICES ASSUME NEW e \in E  PROVE InRow(S, V, e) = VotersOf(e, d)
    OBVIOUS
  <2>2. VotersOf(e, d) \subseteq V
    BY <1>2
  <2> HIDE DEF V
  <2>3. \A v \in V : <<e, v>> \in S <=> v \in VotersOf(e, d)
    OBVIOUS
  <2> HIDE DEF S
  <2> QED  BY <2>2, <2>3 DEF InRow
<1>4. \A v \in V : InColumn(S, E, v) = EpochsOf(E, d, v)
  <2> HIDE DEF V
  <2>1. \A v \in V : \A e \in E : <<e, v>> \in S <=> v \in VotersOf(e, d)
    OBVIOUS
  <2> HIDE DEF S
  <2> QED  BY <2>1 DEF InColumn, EpochsOf
<1>5. S \in SUBSET (E \X V)
  OBVIOUS
<1>6. \A p \in S : f[p] \in Int
  <2>1. ASSUME NEW p \in S
        PROVE  Amount(p[1], d, p[2]) \in Nat
    <3>1. p[1] \in E /\ p[2] \in VotersOf(p[1], d)
      OBVIOUS
    <3> QED  BY <1>2, <3>1
  <2> HIDE DEF S
  <2>2. \A p \in S : f[p] = Amount(p[1], d, p[2])
    OBVIOUS
  <2> HIDE DEF f
  <2> QED  BY <2>1, <2>2
<1>7. \A e \in E : \A v \in VotersOf(e, d) : f[<<e, v>>] = Amount(e, d, v)
  <2>1. SUFFICES ASSUME NEW e \in E, NEW v \in VotersOf(e, d)
                 PROVE  f[<<e, v>>] = Amount(e, d, v)
    OBVIOUS
  <2>2. v \in V
    BY <1>2
  <2> HIDE DEF V
  <2>3. <<e, v>> \in S
    BY <2>2
  <2>4. <<e, v>>[1] = e /\ <<e, v>>[2] = v
    OBVIOUS
  <2> HIDE DEF S
  <2>5. f[<<e, v>>] = Amount(<<e, v>>[1], d, <<e, v>>[2])
    BY <2>3
  <2> HIDE DEF f
  <2> QED  BY <2>4, <2>5
<1> HIDE DEF S, f, V
<1>8. RowSums(r, f, S, E, V)
  <2>1. ASSUME NEW e \in E
        PROVE  r[e] = SumFunctionOnSet([v \in InRow(S, V, e) |-> f[<<e, v>>]], InRow(S, V, e))
    <3>1. r[e] = RowSum(e, d)
      BY DEF RowSumsOf
    <3>2. [v \in InRow(S, V, e) |-> f[<<e, v>>]] = RowAmounts(e, d)
      BY <1>3, <1>7 DEF RowAmounts
    <3> HIDE DEF r
    <3> QED  BY <1>3, <3>1, <3>2 DEF RowSum
  <2> HIDE DEF r
  <2> QED  BY <2>1 DEF RowSums
<1>9. ColumnSums(c, f, S, E, V) /\ DOMAIN c = V
  <2>1. ASSUME NEW v \in V
        PROVE  c[v] = SumFunctionOnSet([e \in InColumn(S, E, v) |-> f[<<e, v>>]], InColumn(S, E, v))
    <3> DEFINE g == [e \in EpochsOf(E, d, v) |-> Amount(e, d, v)]
    <3>1. c[v] = SumFunction(g)
      BY DEF Sent, V
    <3>2. SumFunction(g) = SumFunctionOnSet(g, EpochsOf(E, d, v))
      BY DEF SumFunction
    <3>3. \A e \in EpochsOf(E, d, v) : f[<<e, v>>] = Amount(e, d, v)
      BY <1>7 DEF EpochsOf
    <3>4. [e \in InColumn(S, E, v) |-> f[<<e, v>>]] = g
      BY <1>4, <3>3
    <3> HIDE DEF g, c
    <3> QED  BY <1>4, <3>1, <3>2, <3>4
  <2>2. DOMAIN c = V
    BY DEF Sent, V
  <2> HIDE DEF c
  <2> QED  BY <2>1, <2>2 DEF ColumnSums
<1> HIDE DEF r, c
<1>10. SumFunctionOnSet(r, E) = SumFunctionOnSet(f, S)
  BY <1>1, <1>5, <1>6, <1>8, SumByRows
<1>11. SumFunctionOnSet(c, V) = SumFunctionOnSet(f, S)
  BY <1>1, <1>5, <1>6, <1>9, SumByColumns
<1>12. SumFunction(c) = SumFunctionOnSet(c, V)
  BY <1>9 DEF SumFunction
<1> QED  BY <1>10, <1>11, <1>12 DEF r, c

LEMMA QueriedEpochs ==
  ASSUME RInv, NEW end \in Closed, NEW start \in 1 .. end
  PROVE  IsFiniteSet(Between(start, end)) /\ Between(start, end) \subseteq Closed
<1>1. height \in Nat
  BY DEF RInv, ChainFormed
<1>2. EpochOf(height) \in Nat
  BY <1>1, EpochOfHeights
<1>3. /\ end \in Nat /\ start \in Nat /\ 1 <= start /\ end <= EpochOf(height) - 1
  BY <1>2 DEF Closed
<1>4. IsFiniteSet(start .. end)
  BY <1>3, FS_Interval
<1>5. Between(start, end) \subseteq start .. end
  BY DEF Between
<1>6. start .. end \subseteq Closed
  BY <1>2, <1>3 DEF Closed
<1> QED  BY <1>4, <1>5, <1>6, FS_Subset

LEMMA HermesPayable ==
  ASSUME RInv, NEW end \in Closed, NEW start \in 1 .. end, NEW a, NEW d,
         HermesAnswers(start, end, a)
  PROVE  Payable(EpochsAt(start, end, a, d), d)
<1> DEFINE E == EpochsAt(start, end, a, d)
<1>1. E \subseteq Between(start, end) /\ \A e \in E : d \in DOMAIN account_reward[e]
  BY DEF EpochsAt, Paid
<1>2. IsFiniteSet(E) /\ E \subseteq Closed
  BY <1>1, QueriedEpochs, FS_Subset
<1>3. ASSUME NEW e \in E, HasVoters(e, d)
      PROVE  voting_result[e][d].votes > 0
  <2>1. PICK p \in PairsPaid(start, end, a) : p[1] = e /\ p[2] = d
    BY EpochsOfPairs
  <2>2. Divides(p)
    BY <2>1 DEF HermesAnswers, PairsPaid
  <2> QED  BY <1>3, <2>1, <2>2 DEF Divides
<1> HIDE DEF E
<1> QED  BY <1>1, <1>2, <1>3 DEF Payable, E

(* What is sent over some epochs, what was promised and what there was. *)
PlansOf(E, d) == [e \in E |-> Planned(e, d)]

AllOf(E, d) == [e \in E |-> InAll(account_reward[e][d])]

PartsOf(E, d) == [e \in E |-> Cardinality(VotersOf(e, d))]

LEMMA SentWithinPlans ==
  ASSUME RInv, NEW E, NEW d, Payable(E, d)
  PROVE  /\ SumFunctionOnSet(RowSumsOf(E, d), E) \in Nat
         /\ SumFunctionOnSet(PlansOf(E, d), E) \in Nat
         /\ SumFunctionOnSet(AllOf(E, d), E) \in Nat
         /\ SumFunctionOnSet(RowSumsOf(E, d), E) <= SumFunctionOnSet(PlansOf(E, d), E)
         /\ SumFunctionOnSet(PlansOf(E, d), E) <= SumFunctionOnSet(AllOf(E, d), E)
         /\ E # {} /\ (\A e \in E : AllKnown(e, d)) =>
              SumFunctionOnSet(PlansOf(E, d), E) - SumFunctionOnSet(RowSumsOf(E, d), E)
                < SumFunctionOnSet(PartsOf(E, d), E)
<1> DEFINE r == RowSumsOf(E, d)
           q == PlansOf(E, d)
           w == AllOf(E, d)
           c == PartsOf(E, d)
           b == [e \in E |-> r[e] + c[e]]
<1>1. IsFiniteSet(E)
  BY DEF Payable
<1>2. ASSUME NEW e \in E
      PROVE  /\ r[e] \in Nat /\ q[e] \in Nat /\ w[e] \in Nat /\ c[e] \in Nat
             /\ r[e] <= q[e] /\ q[e] <= w[e]
             /\ AllKnown(e, d) => q[e] < r[e] + c[e]
  <2>1. /\ e \in Closed /\ d \in DOMAIN account_reward[e]
        /\ HasVoters(e, d) => voting_result[e][d].votes > 0
    BY DEF Payable
  <2>2. /\ RowSum(e, d) \in Nat /\ RowSum(e, d) <= Planned(e, d)
        /\ Cardinality(VotersOf(e, d)) \in Nat
        /\ AllKnown(e, d) => Planned(e, d) < RowSum(e, d) + Cardinality(VotersOf(e, d))
    BY <2>1, RowWithinPlan
  <2>3. /\ Planned(e, d) \in Nat /\ InAll(account_reward[e][d]) \in Nat
        /\ Planned(e, d) <= InAll(account_reward[e][d])
    BY <2>1, PlannedIs
  <2>4. /\ r[e] = RowSum(e, d) /\ q[e] = Planned(e, d)
        /\ w[e] = InAll(account_reward[e][d]) /\ c[e] = Cardinality(VotersOf(e, d))
    BY DEF RowSumsOf, PlansOf, AllOf, PartsOf
  <2> HIDE DEF r, q, w, c
  <2> QED  BY <2>2, <2>3, <2>4
<1> HIDE DEF r, q, w, c
<1>3. /\ SumFunctionOnSet(r, E) \in Nat /\ SumFunctionOnSet(q, E) \in Nat
      /\ SumFunctionOnSet(w, E) \in Nat /\ SumFunctionOnSet(c, E) \in Nat
  BY <1>1, <1>2, SumOfNats
<1>4. SumFunctionOnSet(r, E) <= SumFunctionOnSet(q, E)
  BY <1>1, <1>2, SumMonotone
<1>5. SumFunctionOnSet(q, E) <= SumFunctionOnSet(w, E)
  BY <1>1, <1>2, SumMonotone
<1>6. \A e \in E : b[e] = r[e] + c[e] /\ b[e] \in Int
  BY <1>2
<1> HIDE DEF b
<1>7. SumFunctionOnSet(b, E) = SumFunctionOnSet(r, E) + SumFunctionOnSet(c, E)
  BY <1>1, <1>2, <1>6, SumOfSums
<1>8. ASSUME E # {}, \A e \in E : AllKnown(e, d)
      PROVE  SumFunctionOnSet(q, E) < SumFunctionOnSet(b, E)
  <2>1. \A e \in E : q[e] \in Int /\ b[e] \in Int /\ q[e] < b[e]
    BY <1>2, <1>6, <1>8
  <2> QED  BY <1>1, <1>8, <2>1, SumStrictlyMonotone
<1>9. E # {} /\ (\A e \in E : AllKnown(e, d)) =>
        SumFunctionOnSet(q, E) - SumFunctionOnSet(r, E) < SumFunctionOnSet(c, E)
  BY <1>3, <1>7, <1>8
<1> QED  BY <1>3, <1>4, <1>5, <1>9 DEF r, q, w, c

LEMMA HermesFollows == RInv => HermesWithinPlan
<1> SUFFICES
      ASSUME RInv, NEW end \in Closed, NEW start \in 1 .. end, NEW a \in Addresses,
             HermesAnswers(start, end, a),
             NEW d \in DOMAIN GetHermesBookkeeping(start, end, a)
      PROVE  LET answer == GetHermesBookkeeping(start, end, a)[d]
                 epochs == {e \in Between(start, end) : d \in NamesAt(voting_result[e], a) /\ Paid(e, d)}
                 given  == SumFunction(answer.distributions)
                 planned ==
                   SumFunction([e \in epochs |->
                     calculatedDistributedReward(voting_result[e][d], account_reward[e][d])])
                 parts == SumFunction([e \in epochs |-> Cardinality(VotersOf(e, d))])
                 known(e) ==
                   /\ HasVoters(e, d)
                   /\ voting_result[e][d].votes
                        = SumFunction([v \in VotersOf(e, d) |-> aggregate_voting[e][<<d, v>>]])
             IN  /\ given <= planned
                 /\ answer.refund >= 0
                 /\ (\A e \in epochs : known(e)) => planned - given < parts
                 /\ given < Cardinality(epochs) * (GetAverageHermesStats(start, end, a)[d].reward + 1)
  BY DEF HermesWithinPlan
<1> DEFINE answer == GetHermesBookkeeping(start, end, a)[d]
           E == EpochsAt(start, end, a, d)
           rows == SumFunctionOnSet(RowSumsOf(E, d), E)
           plans == SumFunctionOnSet(PlansOf(E, d), E)
           all == SumFunctionOnSet(AllOf(E, d), E)
           parts == SumFunctionOnSet(PartsOf(E, d), E)
           average == GetAverageHermesStats(start, end, a)[d].reward
<1>1. /\ E # {} /\ answer = AnswerFor(E, d)
      /\ average = SumFunction([e \in E |-> Planned(e, d)]) \div Cardinality(E)
  BY HermesIs
<1>2. Payable(E, d)
  BY HermesPayable
<1>3. /\ SumFunction(PlansOf(E, d)) = plans
      /\ SumFunction(AllOf(E, d)) = all
      /\ SumFunction(PartsOf(E, d)) = parts
  BY DEF SumFunction, PlansOf, AllOf, PartsOf
<1>4. SumFunction(Sent(E, d)) = rows
  BY <1>2, SentInAll
<1>5. /\ rows \in Nat /\ plans \in Nat /\ all \in Nat /\ rows <= plans /\ plans <= all
      /\ (\A e \in E : AllKnown(e, d)) => plans - rows < parts
  BY <1>1, <1>2, SentWithinPlans
<1>6. /\ answer.distributions = Sent(E, d)
      /\ answer.refund = SumFunction(AllOf(E, d)) - SumFunction(Sent(E, d))
  BY <1>1 DEF AnswerFor, AllOf
<1>7. rows < Cardinality(E) * (average + 1)
  <2>1. Cardinality(E) \in Nat \ {0}
    BY <1>1, <1>2, FS_CardinalityType, FS_EmptySet DEF Payable
  <2>2. average = plans \div Cardinality(E)
    BY <1>1, <1>3 DEF PlansOf
  <2> DEFINE n == Cardinality(E)
  <2> HIDE DEF n, rows, plans, average
  <2>3. plans < n * ((plans \div n) + 1) /\ plans \div n \in Nat
    BY <1>5, <2>1, Quotient DEF n
  <2>4. n * ((plans \div n) + 1) \in Nat
    BY <2>1, <2>3 DEF n
  <2>5. rows < n * ((plans \div n) + 1)
    <3> DEFINE m == n * ((plans \div n) + 1)
    <3> HIDE DEF m
    <3>1. rows < m
      BY <1>5, <2>3, <2>4 DEF m
    <3> QED  BY <3>1 DEF m
  <2> QED  BY <2>2, <2>5 DEF n
<1>8. \A e \in E : AllKnown(e, d) <=>
        /\ HasVoters(e, d)
        /\ voting_result[e][d].votes
             = SumFunction([v \in VotersOf(e, d) |-> aggregate_voting[e][<<d, v>>]])
  BY DEF AllKnown, VotesFor, SumFunction
<1>9. answer.refund >= 0
  <2> HIDE DEF rows, plans, all, answer
  <2> QED  BY <1>3, <1>4, <1>5, <1>6
<1>10. /\ E = {e \in Between(start, end) : d \in NamesAt(voting_result[e], a) /\ Paid(e, d)}
       /\ PlansOf(E, d) = [e \in E |->
            calculatedDistributedReward(voting_result[e][d], account_reward[e][d])]
       /\ PartsOf(E, d) = [e \in E |-> Cardinality(VotersOf(e, d))]
  BY DEF EpochsAt, PlansOf, Planned, PartsOf
<1> HIDE DEF E, rows, plans, all, parts, average, answer
<1>11. /\ SumFunction(answer.distributions) <= SumFunction(PlansOf(E, d))
       /\ answer.refund >= 0
       /\ (\A e \in E : AllKnown(e, d)) =>
            SumFunction(PlansOf(E, d)) - SumFunction(answer.distributions) < SumFunction(PartsOf(E, d))
       /\ SumFunction(answer.distributions) < Cardinality(E) * (average + 1)
  BY <1>3, <1>4, <1>5, <1>6, <1>7, <1>9
<1> QED  BY <1>8, <1>10, <1>11 DEF answer, average

(* The voters of a delegate are sent no more than was promised, over any   *)
(* epochs, at any of its addresses, for any portions and any votes that    *)
(* stay within the delegate's, and less by rounding only; the refund is    *)
(* never negative.                                                         *)
THEOREM HermesAlwaysWithinPlan == Spec => []HermesWithinPlan
BY RewardsInvariant, HermesFollows, PTL

-------------------------------------------------------------------------------
(* An epoch in which a delegate was paid is one of those of its address.   *)
AddressIn(start, end, d) ==
  [e \in PaidEpochs(start, end, d) |-> voting_result[e][d].address]

LEMMA EpochsByAddress ==
  ASSUME RInv, NEW end \in Closed, NEW start \in 1 .. end, NEW d
  PROVE  LET S == PaidEpochs(start, end, d)
             g == AddressIn(start, end, d)
         IN  /\ IsFiniteSet(S) /\ S \subseteq Closed
             /\ \A e \in S : e \in Between(start, end) /\ d \in DOMAIN account_reward[e]
                             /\ d \in DOMAIN voting_result[e]
                             /\ g[e] \in Addresses /\ d \in NamesAt(voting_result[e], g[e])
             /\ \A a : EpochsAt(start, end, a, d) = {e \in S : g[e] = a}
<1> DEFINE S == PaidEpochs(start, end, d)
           g == AddressIn(start, end, d)
<1>1. S \subseteq Between(start, end) /\ \A e \in S : d \in DOMAIN account_reward[e]
  BY DEF PaidEpochs, Paid
<1>2. IsFiniteSet(S) /\ S \subseteq Closed
  BY <1>1, QueriedEpochs, FS_Subset
<1>3. \A e \in S : d \in DOMAIN voting_result[e]
  BY <1>1, <1>2, RowTypes
<1>4. \A e \in S : g[e] = voting_result[e][d].address
  BY DEF AddressIn
<1>5. \A a : \A e : e \in EpochsAt(start, end, a, d) <=> e \in S /\ g[e] = a
  <2>1. \A a : \A e : e \in EpochsAt(start, end, a, d) <=> e \in S /\ d \in NamesAt(voting_result[e], a)
    BY DEF EpochsAt, PaidEpochs
  <2>2. \A a : \A e \in S : d \in NamesAt(voting_result[e], a) <=> g[e] = a
    BY <1>3, <1>4 DEF NamesAt
  <2> HIDE DEF S, g
  <2> QED  BY <2>1, <2>2
<1>6. \A e \in S : g[e] \in Addresses /\ d \in NamesAt(voting_result[e], g[e])
  <2>1. ASSUME NEW e \in S
        PROVE  g[e] \in Addresses /\ d \in NamesAt(voting_result[e], g[e])
    <3>1. e \in 1 .. EpochOf(height) /\ d \in DOMAIN voting_result[e]
      BY <1>2, <1>3, ClosedEpochs
    <3> QED  BY <1>4, <3>1, IndexedEpochs DEF NamesAt
  <2> QED  BY <2>1
<1> HIDE DEF S, g
<1>7. \A a : EpochsAt(start, end, a, d) = {e \in S : g[e] = a}
  BY <1>5
<1> QED  BY <1>1, <1>2, <1>3, <1>6, <1>7 DEF S, g

(* What a delegate got in all. *)
LEMMA AccountRewardIs ==
  ASSUME RInv, NEW end \in Closed, NEW start \in 1 .. end, NEW d
  PROVE  InAll(GetAccountReward(start, end, d))
           = SumFunctionOnSet(AllOf(PaidEpochs(start, end, d), d), PaidEpochs(start, end, d))
<1> DEFINE S == PaidEpochs(start, end, d)
           f(k) == [e \in S |-> account_reward[e][d][k]]
           w == AllOf(S, d)
           b == [e \in S |-> f("block")[e] + f("epoch")[e]]
<1>1. IsFiniteSet(S) /\ \A e \in S : e \in Closed /\ d \in DOMAIN account_reward[e]
  BY EpochsByAddress
<1>2. ASSUME NEW e \in S
      PROVE  /\ f("block")[e] \in Int /\ f("epoch")[e] \in Int /\ f("bonus")[e] \in Int
             /\ w[e] = f("block")[e] + f("epoch")[e] + f("bonus")[e]
  <2> DEFINE r == account_reward[e][d]
  <2>1. /\ r.block \in Nat /\ r.epoch \in Nat /\ r.bonus \in Nat
        /\ r["block"] = r.block /\ r["epoch"] = r.epoch /\ r["bonus"] = r.bonus
    BY <1>1, RowTypes, RewardParts
  <2>2. f("block")[e] = r["block"] /\ f("epoch")[e] = r["epoch"] /\ f("bonus")[e] = r["bonus"]
    OBVIOUS
  <2>3. w[e] = r.block + r.epoch + r.bonus
    BY DEF AllOf, InAll
  <2> HIDE DEF r, f, w
  <2> QED  BY <2>1, <2>2, <2>3
<1>3. GetAccountReward(start, end, d) = [k \in Kinds |-> SumFunction(f(k))]
  BY DEF GetAccountReward, PaidEpochs
<1>4. \A k : SumFunction(f(k)) = SumFunctionOnSet(f(k), S)
  BY DEF SumFunction
<1> HIDE DEF S, f, w
<1>5. InAll(GetAccountReward(start, end, d))
        = SumFunctionOnSet(f("block"), S) + SumFunctionOnSet(f("epoch"), S)
            + SumFunctionOnSet(f("bonus"), S)
  BY <1>3, <1>4 DEF InAll, Kinds
<1>6. \A e \in S : b[e] = f("block")[e] + f("epoch")[e] /\ b[e] \in Int /\ w[e] = b[e] + f("bonus")[e]
  BY <1>2
<1> HIDE DEF b
<1>7. SumFunctionOnSet(b, S) = SumFunctionOnSet(f("block"), S) + SumFunctionOnSet(f("epoch"), S)
  BY <1>1, <1>2, <1>6, SumOfSums
<1>8. SumFunctionOnSet(w, S) = SumFunctionOnSet(b, S) + SumFunctionOnSet(f("bonus"), S)
  BY <1>1, <1>2, <1>6, SumOfSums
<1> QED  BY <1>5, <1>7, <1>8 DEF S, w

(* What an address accounts for. *)
LEMMA AnswerAccounts ==
  ASSUME RInv, NEW E, NEW d, Payable(E, d)
  PROVE  AnswerFor(E, d).refund + SumFunction(AnswerFor(E, d).distributions)
           = SumFunctionOnSet(AllOf(E, d), E)
<1> DEFINE given == SumFunction(Sent(E, d))
           all == SumFunctionOnSet(AllOf(E, d), E)
<1>1. given \in Nat /\ all \in Nat
  BY SentInAll, SentWithinPlans
<1>2. SumFunction(AllOf(E, d)) = all
  BY DEF SumFunction, AllOf
<1>3. /\ AnswerFor(E, d).distributions = Sent(E, d)
      /\ AnswerFor(E, d).refund = SumFunction(AllOf(E, d)) - given
  BY DEF AnswerFor, AllOf
<1> HIDE DEF all
<1>4. all - given + given = all
  <2> HIDE DEF given
  <2> QED  BY <1>1
<1> QED  BY <1>2, <1>3, <1>4 DEF all

LEMMA AccountsFollow == RInv => HermesAccountsForAll
<1> DEFINE addressesOf(start, end, d) ==
             {a \in Addresses : \E e \in Between(start, end) :
                Paid(e, d) /\ d \in NamesAt(voting_result[e], a)}
           answerOf(start, end, a) == GetHermesBookkeeping(start, end, a)
           listedOf(start, end, d) ==
             {a \in addressesOf(start, end, d) : d \in DOMAIN answerOf(start, end, a)}
           allOf(r) == r.refund + SumFunction(r.distributions)
<1> SUFFICES
      ASSUME RInv, NEW end \in Closed, NEW start \in 1 .. end, NEW d \in Delegates,
             \A a \in addressesOf(start, end, d) : HermesAnswers(start, end, a)
      PROVE  SumFunction([a \in listedOf(start, end, d) |-> allOf(answerOf(start, end, a)[d])])
               = InAll(GetAccountReward(start, end, d))
  BY DEF HermesAccountsForAll
<1> DEFINE S == PaidEpochs(start, end, d)
           g == AddressIn(start, end, d)
           f == AllOf(S, d)
           K == addressesOf(start, end, d)
           h == [a \in listedOf(start, end, d) |-> allOf(answerOf(start, end, a)[d])]
           At(a) == EpochsAt(start, end, a, d)
<1>1. /\ IsFiniteSet(S)
      /\ \A e \in S : e \in Between(start, end) /\ d \in DOMAIN account_reward[e]
                      /\ e \in Closed
                      /\ g[e] \in Addresses /\ d \in NamesAt(voting_result[e], g[e])
      /\ \A a : At(a) = {e \in S : g[e] = a}
  <2>1. /\ IsFiniteSet(S) /\ S \subseteq Closed
        /\ \A e \in S : e \in Between(start, end) /\ d \in DOMAIN account_reward[e]
                        /\ d \in DOMAIN voting_result[e]
                        /\ g[e] \in Addresses /\ d \in NamesAt(voting_result[e], g[e])
        /\ \A a : At(a) = {e \in S : g[e] = a}
    BY EpochsByAddress
  <2> HIDE DEF S, g, At
  <2> QED  BY <2>1
<1>2. \A a \in Addresses : a \in K <=> At(a) # {}
  BY DEF EpochsAt
<1>3. listedOf(start, end, d) = K /\ \A a \in K : answerOf(start, end, a)[d] = AnswerFor(At(a), d)
  BY <1>2, HermesIs
<1>4. IsFiniteSet(K)
  <2>1. K \subseteq Addresses
    OBVIOUS
  <2> HIDE DEF K
  <2> QED  BY <2>1, AmountsAssumption, FS_Subset
<1>5. \A e \in S : g[e] \in K
  <2>1. ASSUME NEW e \in S
        PROVE  g[e] \in K
    <3>1. /\ e \in Between(start, end) /\ Paid(e, d) /\ g[e] \in Addresses
          /\ d \in NamesAt(voting_result[e], g[e])
      BY <1>1, <2>1 DEF PaidEpochs
    <3> HIDE DEF S, g
    <3> QED  BY <3>1
  <2> QED  BY <2>1
<1>6. \A e \in S : f[e] = InAll(account_reward[e][d]) /\ f[e] \in Int
  <2>1. ASSUME NEW e \in S
        PROVE  InAll(account_reward[e][d]) \in Nat
    BY <1>1, PlannedIs
  <2> QED  BY <2>1 DEF AllOf
<1>7. \A a \in K : h[a] = SumFunctionOnSet(f, {e \in S : g[e] = a})
  <2>1. SUFFICES ASSUME NEW a \in K
                 PROVE  h[a] = SumFunctionOnSet(f, {e \in S : g[e] = a})
    OBVIOUS
  <2>2. h[a] = allOf(AnswerFor(At(a), d))
    BY <1>3
  <2>3. Payable(At(a), d)
    BY HermesPayable
  <2>4. h[a] = SumFunctionOnSet(AllOf(At(a), d), At(a))
    BY <2>2, <2>3, AnswerAccounts
  <2>5. At(a) \subseteq S /\ \A e \in At(a) : AllOf(At(a), d)[e] = InAll(account_reward[e][d])
    BY <1>1 DEF AllOf
  <2> HIDE DEF At, S, g, f, h, K
  <2>6. IsFiniteSet(At(a)) /\ \A e \in At(a) : f[e] \in Int /\ AllOf(At(a), d)[e] = f[e]
    BY <1>1, <1>6, <2>5, FS_Subset
  <2>7. SumFunctionOnSet(f, At(a)) = SumFunctionOnSet(AllOf(At(a), d), At(a))
    BY <2>6, SumSame
  <2> QED  BY <1>1, <2>4, <2>7
<1>8. SumFunction(h) = SumFunctionOnSet(h, K)
  BY <1>3 DEF SumFunction
<1>9. InAll(GetAccountReward(start, end, d)) = SumFunctionOnSet(f, S)
  BY AccountRewardIs
<1> HIDE DEF S, g, f, h, K
<1>10. SumsOfParts(h, f, g, S, K)
  BY <1>5, <1>6, <1>7 DEF SumsOfParts
<1>11. SumFunctionOnSet(h, K) = SumFunctionOnSet(f, S)
  BY <1>1, <1>4, <1>10, SumOfParts
<1> QED  BY <1>8, <1>9, <1>11 DEF h

(* Nothing that a delegate got is lost or counted twice when its address   *)
(* changed between epochs: over all its addresses, what Hermes sends and   *)
(* refunds is what GetAccountReward says it got.                           *)
THEOREM HermesAlwaysAccounts == Spec => []HermesAccountsForAll
BY RewardsInvariant, AccountsFollow, PTL

-------------------------------------------------------------------------------
(* What a voter is sent on account of a delegate, over all addresses that  *)
(* the delegate was paid at.                                               *)
EpochsSent(start, end, d, v) == EpochsOf(PaidEpochs(start, end, d), d, v)

AmountsSent(start, end, d, v) == [e \in EpochsSent(start, end, d, v) |-> Amount(e, d, v)]

LEMMA NoPanicDivides ==
  ASSUME NEW start, NEW end, NoPanic(start, end), NEW e \in Between(start, end),
         NEW d \in DOMAIN account_reward[e]
  PROVE  HasVoters(e, d) => voting_result[e][d].votes > 0
<1>1. Divides(<<e, d>>)
  BY DEF NoPanic
<1>2. <<e, d>>[1] = e /\ <<e, d>>[2] = d
  OBVIOUS
<1> QED  BY <1>1, <1>2 DEF Divides

LEMMA SentEpochs ==
  ASSUME RInv, NEW end \in Closed, NEW start \in 1 .. end, NoPanic(start, end), NEW d, NEW v
  PROVE  /\ IsFiniteSet(EpochsSent(start, end, d, v))
         /\ \A e \in EpochsSent(start, end, d, v) :
              /\ e \in PaidEpochs(start, end, d) /\ e \in Between(start, end)
              /\ e \in Closed /\ d \in DOMAIN account_reward[e]
              /\ v \in VotersOf(e, d) /\ voting_result[e][d].votes > 0
              /\ Amount(e, d, v) \in Nat
<1> DEFINE S == PaidEpochs(start, end, d)
           T == EpochsSent(start, end, d, v)
<1>1. /\ IsFiniteSet(S) /\ S \subseteq Closed
      /\ \A e \in S : e \in Between(start, end) /\ d \in DOMAIN account_reward[e]
  BY EpochsByAddress
<1>2. T = {e \in S : v \in VotersOf(e, d)}
  BY DEF EpochsSent, EpochsOf
<1> HIDE DEF S, T
<1>3. IsFiniteSet(T)
  BY <1>1, <1>2, FS_Subset
<1>4. ASSUME NEW e \in T
      PROVE  voting_result[e][d].votes > 0 /\ Amount(e, d, v) \in Nat
  <2>1. e \in Between(start, end) /\ e \in Closed /\ d \in DOMAIN account_reward[e]
        /\ v \in VotersOf(e, d)
    BY <1>1, <1>2
  <2>2. HasVoters(e, d) => voting_result[e][d].votes > 0
    BY <2>1, NoPanicDivides
  <2>3. HasVoters(e, d)
    BY <2>1 DEF HasVoters
  <2>4. Amount(e, d, v) \in Nat
    BY <2>1, <2>2, RowWithinPlan
  <2> QED  BY <2>2, <2>3, <2>4
<1> QED  BY <1>1, <1>2, <1>3, <1>4 DEF S, T

(* An address that sends it something answers. *)
LEMMA HermesWillAnswer ==
  ASSUME NEW start, NEW end, NoPanic(start, end), NEW a, NEW d, NEW v,
         EpochsOf(EpochsAt(start, end, a, d), d, v) # {}
  PROVE  HermesAnswers(start, end, a)
<1>1. PICK e \in EpochsAt(start, end, a, d) : v \in VotersOf(e, d)
  BY DEF EpochsOf
<1>2. PICK p \in PairsPaid(start, end, a) : p[1] = e /\ p[2] = d
  BY EpochsOfPairs
<1>3. p \in distributionPlanByRewardAddress(start, end, a) /\ Paid(p[1], p[2])
  BY DEF PairsPaid
<1>4. HasVoters(p[1], p[2])
  BY <1>1, <1>2 DEF HasVoters
<1>5. ASSUME NEW q \in distributionPlanByRewardAddress(start, end, a), Paid(q[1], q[2])
      PROVE  Divides(q)
  <2>1. q[1] \in Between(start, end)
    <3>1. q \in Between(start, end) \X UNION {DOMAIN voting_result[x] : x \in Between(start, end)}
      BY DEF distributionPlanByRewardAddress
    <3> QED  BY <3>1
  <2>2. q[2] \in DOMAIN account_reward[q[1]]
    BY <1>5 DEF Paid
  <2> QED  BY <2>1, <2>2, NoPanicDivides DEF Divides
<1> QED  BY <1>3, <1>4, <1>5 DEF HermesAnswers

LEMMA HermesToIs ==
  ASSUME RInv, NEW end \in Closed, NEW start \in 1 .. end, NoPanic(start, end), NEW d,
         NEW v \in Voters
  PROVE  HermesTo(start, end, d, v)
           = SumFunctionOnSet(AmountsSent(start, end, d, v), EpochsSent(start, end, d, v))
<1> DEFINE answer(a) == GetHermesBookkeeping(start, end, a)
           K == {a \in Addresses : /\ HermesAnswers(start, end, a)
                                   /\ d \in DOMAIN answer(a)
                                   /\ v \in DOMAIN answer(a)[d].distributions}
           h == [a \in K |-> answer(a)[d].distributions[v]]
           T == EpochsSent(start, end, d, v)
           f == AmountsSent(start, end, d, v)
           g == AddressIn(start, end, d)
           At(a) == EpochsOf(EpochsAt(start, end, a, d), d, v)
<1>1. HermesTo(start, end, d, v) = SumFunction(h)
  BY DEF HermesTo
<1>2. SumFunction(h) = SumFunctionOnSet(h, K)
  BY DEF SumFunction
<1>3. ASSUME NEW a, EpochsAt(start, end, a, d) # {}
      PROVE  /\ v \in DOMAIN answer(a)[d].distributions <=> At(a) # {}
             /\ At(a) # {} => answer(a)[d].distributions[v] = SumFunction([e \in At(a) |-> Amount(e, d, v)])
  <2>1. answer(a)[d] = AnswerFor(EpochsAt(start, end, a, d), d)
    BY <1>3, HermesIs
  <2>2. answer(a)[d].distributions = Sent(EpochsAt(start, end, a, d), d)
    BY <2>1 DEF AnswerFor
  <2> HIDE DEF answer
  <2> QED  BY <2>2 DEF Sent
<1>4. \A a : d \in DOMAIN answer(a) <=> EpochsAt(start, end, a, d) # {}
  BY HermesIs
<1>5. \A a : At(a) # {} => EpochsAt(start, end, a, d) # {}
  BY DEF EpochsOf
<1>6. \A a : At(a) # {} => HermesAnswers(start, end, a)
  BY HermesWillAnswer
<1>7. K = {a \in Addresses : At(a) # {}}
  <2> HIDE DEF At, answer
  <2> QED  BY <1>3, <1>4, <1>5, <1>6
<1>8. \A a \in K : h[a] = SumFunction([e \in At(a) |-> Amount(e, d, v)])
  <2>1. \A a \in K : h[a] = answer(a)[d].distributions[v]
    OBVIOUS
  <2>2. \A a \in K : At(a) # {} /\ EpochsAt(start, end, a, d) # {}
    BY <1>5, <1>7
  <2> HIDE DEF At, answer, h, K
  <2> QED  BY <1>3, <2>1, <2>2
<1>9. /\ IsFiniteSet(T)
      /\ \A e \in T : f[e] = Amount(e, d, v) /\ f[e] \in Int /\ e \in PaidEpochs(start, end, d)
                      /\ v \in VotersOf(e, d)
  <2>1. /\ IsFiniteSet(T)
        /\ \A e \in T : Amount(e, d, v) \in Nat /\ e \in PaidEpochs(start, end, d)
                        /\ v \in VotersOf(e, d)
    BY SentEpochs
  <2>2. \A e \in T : f[e] = Amount(e, d, v)
    BY DEF AmountsSent
  <2> HIDE DEF T, f
  <2> QED  BY <2>1, <2>2
<1>10. /\ \A e \in PaidEpochs(start, end, d) : g[e] \in Addresses
       /\ \A a : EpochsAt(start, end, a, d) = {e \in PaidEpochs(start, end, d) : g[e] = a}
  BY EpochsByAddress
<1>11. \A a : At(a) = {e \in T : g[e] = a}
  BY <1>10 DEF EpochsSent, EpochsOf
<1> HIDE DEF At, answer, h, K, T, f, g
<1>12. \A e \in T : g[e] \in K
  BY <1>7, <1>9, <1>10, <1>11
<1>13. \A a \in K : h[a] = SumFunctionOnSet(f, {e \in T : g[e] = a})
  <2>1. SUFFICES ASSUME NEW a \in K
                 PROVE  h[a] = SumFunctionOnSet(f, At(a))
    BY <1>11
  <2> DEFINE m == [e \in At(a) |-> Amount(e, d, v)]
  <2>2. h[a] = SumFunction(m)
    BY <1>8
  <2>3. SumFunction(m) = SumFunctionOnSet(m, At(a)) /\ \A e \in At(a) : m[e] = Amount(e, d, v)
    BY DEF SumFunction
  <2> HIDE DEF m
  <2>4. At(a) \subseteq T
    BY <1>11
  <2>5. IsFiniteSet(At(a)) /\ \A e \in At(a) : f[e] \in Int /\ m[e] = f[e]
    BY <1>9, <2>3, <2>4, FS_Subset
  <2>6. SumFunctionOnSet(f, At(a)) = SumFunctionOnSet(m, At(a))
    BY <2>5, SumSame
  <2> QED  BY <2>2, <2>3, <2>6
<1>14. IsFiniteSet(K)
  <2>1. K \subseteq Addresses
    BY <1>7
  <2> QED  BY <2>1, AmountsAssumption, FS_Subset
<1>15. SumsOfParts(h, f, g, T, K)
  BY <1>9, <1>12, <1>13 DEF SumsOfParts
<1>16. SumFunctionOnSet(h, K) = SumFunctionOnSet(f, T)
  BY <1>9, <1>14, <1>15, SumOfParts
<1> QED  BY <1>1, <1>2, <1>16 DEF f, T

(* GetRewardSources, by the epochs of a delegate.                          *)
SourcesPaid(start, end, v) ==
  {p \in weightedVotesByVoterAddress(start, end, v) : Paid(p[1], p[2])}

LEMMA SourcesPaidIs ==
  ASSUME RInv, NEW end \in Closed, NEW start \in 1 .. end, NEW v \in Voters
  PROVE  /\ \A p \in SourcesPaid(start, end, v) :
              /\ p = <<p[1], p[2]>> /\ p[1] \in EpochsSent(start, end, p[2], v)
              /\ p[1] \in Between(start, end) /\ p[2] \in DOMAIN account_reward[p[1]]
         /\ \A d : \A e \in EpochsSent(start, end, d, v) : <<e, d>> \in SourcesPaid(start, end, v)
<1> DEFINE B == Between(start, end)
           U == UNION {DOMAIN voting_result[e] : e \in B}
           P == SourcesPaid(start, end, v)
<1>1. P = {p \in B \X U : <<p[2], v>> \in DOMAIN aggregate_voting[p[1]] /\ Paid(p[1], p[2])}
  BY DEF SourcesPaid, weightedVotesByVoterAddress
<1>2. \A d : \A e : e \in EpochsSent(start, end, d, v) <=>
               e \in B /\ Paid(e, d) /\ <<d, v>> \in DOMAIN aggregate_voting[e]
  BY DEF EpochsSent, EpochsOf, PaidEpochs, VotersOf
<1>3. ASSUME NEW d, NEW e \in EpochsSent(start, end, d, v)
      PROVE  <<e, d>> \in P
  <2>1. e \in B /\ Paid(e, d) /\ <<d, v>> \in DOMAIN aggregate_voting[e]
    BY <1>2
  <2>2. d \in DOMAIN voting_result[e]
    BY <2>1, QueriedEpochs, RowTypes DEF Paid
  <2>3. d \in U
    BY <2>1, <2>2
  <2> HIDE DEF B, U, P
  <2>4. <<e, d>> \in B \X U /\ <<e, d>>[1] = e /\ <<e, d>>[2] = d
    BY <2>1, <2>3
  <2> QED  BY <1>1, <2>1, <2>4
<1>4. ASSUME NEW p \in P
      PROVE  /\ p = <<p[1], p[2]>> /\ p[1] \in EpochsSent(start, end, p[2], v)
             /\ p[1] \in Between(start, end) /\ p[2] \in DOMAIN account_reward[p[1]]
  <2>1. /\ p = <<p[1], p[2]>> /\ p[1] \in B
        /\ <<p[2], v>> \in DOMAIN aggregate_voting[p[1]] /\ Paid(p[1], p[2])
    <3> HIDE DEF B, U, P
    <3> QED  BY <1>1
  <2> QED  BY <1>2, <2>1 DEF Paid
<1> HIDE DEF B, U, P
<1> QED  BY <1>3, <1>4 DEF P

LEMMA SourcesIs ==
  ASSUME RInv, NEW end \in Closed, NEW start \in 1 .. end, NoPanic(start, end), NEW d,
         NEW v \in Voters
  PROVE  LET T == EpochsSent(start, end, d, v)
         IN  /\ T # {} <=> d \in DOMAIN GetRewardSources(start, end, v)
             /\ T # {} => SourcesAnswer(start, end, v)
             /\ T # {} => GetRewardSources(start, end, v)[d]
                            = SumFunctionOnSet(AmountsSent(start, end, d, v), T)
<1> DEFINE T == EpochsSent(start, end, d, v)
           P == SourcesPaid(start, end, v)
           D == {p[2] : p \in P}
           Q(x) == {q \in P : q[2] = x}
           value(p) == Share(calculatedDistributedReward(voting_result[p[1]][p[2]],
                                                         account_reward[p[1]][p[2]]),
                             aggregate_voting[p[1]][<<p[2], v>>], voting_result[p[1]][p[2]].votes)
           f == AmountsSent(start, end, d, v)
           g == [p \in Q(d) |-> value(p)]
           r == [e \in T |-> <<e, d>>]
<1>1. GetRewardSources(start, end, v) = [x \in D |-> SumFunction([p \in Q(x) |-> value(p)])]
  BY DEF GetRewardSources, SourcesPaid
<1>2. /\ \A p \in P : /\ p = <<p[1], p[2]>> /\ p[1] \in EpochsSent(start, end, p[2], v)
                      /\ p[1] \in Between(start, end) /\ p[2] \in DOMAIN account_reward[p[1]]
      /\ \A e \in T : <<e, d>> \in P
  BY SourcesPaidIs
<1>3. \A e : <<e, d>>[1] = e /\ <<e, d>>[2] = d
  OBVIOUS
<1>4. Q(d) = {r[e] : e \in T}
  <2>1. \A e \in T : r[e] = <<e, d>> /\ <<e, d>> \in Q(d)
    BY <1>2, <1>3
  <2>2. \A p \in Q(d) : p[1] \in T /\ p = <<p[1], d>>
    BY <1>2
  <2> HIDE DEF T, P, r, Q
  <2>3. \A p \in Q(d) : p[1] \in T /\ p = r[p[1]]
    BY <2>1, <2>2
  <2> QED  BY <2>1, <2>3
<1>5. T # {} <=> d \in D
  <2>1. T # {} => d \in D
    <3>1. ASSUME NEW e \in T
          PROVE  d \in D
      <4>1. <<e, d>> \in P
        BY <1>2
      <4> HIDE DEF P
      <4> QED  BY <1>3, <4>1
    <3> QED  BY <3>1
  <2>2. d \in D => T # {}
    <3> HIDE DEF P
    <3> QED  BY <1>2
  <2> QED  BY <2>1, <2>2
<1>6. T # {} => SourcesAnswer(start, end, v)
  <2>1. \A p \in P : Divides(p)
    BY <1>2, NoPanicDivides DEF Divides
  <2>2. T # {} => P # {}
    BY <1>2
  <2> QED  BY <2>1, <2>2 DEF SourcesAnswer, SourcesPaid
<1>7. IsFiniteSet(T) /\ \A e \in T : f[e] = Amount(e, d, v) /\ f[e] \in Int
  <2>1. IsFiniteSet(T) /\ \A e \in T : Amount(e, d, v) \in Nat
    BY SentEpochs
  <2>2. \A e \in T : f[e] = Amount(e, d, v)
    BY DEF AmountsSent
  <2> HIDE DEF T, f
  <2> QED  BY <2>1, <2>2
<1>8. \A e : value(<<e, d>>) = Amount(e, d, v)
  BY <1>3 DEF Amount, Planned
<1>9. DOMAIN g = Q(d) /\ \A e \in T : r[e] = <<e, d>> /\ g[r[e]] = f[e]
  <2>1. \A e \in T : r[e] = <<e, d>> /\ <<e, d>> \in Q(d)
    BY <1>2, <1>3
  <2>2. DOMAIN g = Q(d) /\ \A p \in Q(d) : g[p] = value(p)
    OBVIOUS
  <2> HIDE DEF T, P, Q, value, f, g, r
  <2> QED  BY <1>7, <1>8, <2>1, <2>2
<1>10. \A x, y \in T : r[x] = r[y] => x = y
  <2>1. \A x, y : <<x, d>> = <<y, d>> => x = y
    OBVIOUS
  <2>2. \A e \in T : r[e] = <<e, d>>
    OBVIOUS
  <2> HIDE DEF r, T
  <2> QED  BY <2>1, <2>2
<1>11. SumFunction(g) = SumFunctionOnSet(g, Q(d))
  BY DEF SumFunction
<1>12. d \in D => GetRewardSources(start, end, v)[d] = SumFunction(g)
  <2> HIDE DEF D
  <2> QED  BY <1>1
<1>13. DOMAIN GetRewardSources(start, end, v) = D
  BY <1>1
<1> HIDE DEF T, P, D, Q, f, g, r, value
<1>14. Renames(g, Q(d), f, T, r)
  BY <1>4, <1>7, <1>9, <1>10 DEF Renames
<1>15. SumFunctionOnSet(g, Q(d)) = SumFunctionOnSet(f, T)
  BY <1>7, <1>14, SumRenamed
<1>16. T # {} => GetRewardSources(start, end, v)[d] = SumFunctionOnSet(f, T)
  BY <1>5, <1>11, <1>12, <1>15
<1> QED  BY <1>5, <1>6, <1>13, <1>16 DEF T, f

LEMMA SourcesFollow == RInv => SourcesAgree
<1> SUFFICES ASSUME RInv, NEW end \in Closed, NEW start \in 1 .. end, NoPanic(start, end),
                    NEW v \in Voters, NEW d \in Delegates
             PROVE  HermesTo(start, end, d, v) =
                      IF SourcesAnswer(start, end, v) /\ d \in DOMAIN GetRewardSources(start, end, v)
                        THEN GetRewardSources(start, end, v)[d] ELSE 0
  BY DEF SourcesAgree
<1> DEFINE T == EpochsSent(start, end, d, v)
           f == AmountsSent(start, end, d, v)
<1>1. HermesTo(start, end, d, v) = SumFunctionOnSet(f, T)
  BY HermesToIs
<1>2. /\ T # {} <=> d \in DOMAIN GetRewardSources(start, end, v)
      /\ T # {} => SourcesAnswer(start, end, v)
      /\ T # {} => GetRewardSources(start, end, v)[d] = SumFunctionOnSet(f, T)
  BY SourcesIs
<1>3. T = {} => SumFunctionOnSet(f, T) = 0
  BY SumEmpty
<1> QED  BY <1>1, <1>2, <1>3

(* GetRewardSources shows a voter what GetHermesBookkeeping shows that it  *)
(* is sent, for any epochs and however delegates change their addresses.   *)
THEOREM SourcesAlwaysAgree == Spec => []SourcesAgree
BY RewardsInvariant, SourcesFollow, PTL

(* A plan of all or nothing is what GetBookkeeping splits in full. *)
WholePortions(block, bonus) ==
  [block |-> IF block THEN 10000 ELSE 0, epoch |-> 10000, bonus |-> IF bonus THEN 10000 ELSE 0]

LEMMA WholePlan ==
  ASSUME RInv, NEW e \in Closed, NEW d \in DOMAIN account_reward[e],
         NEW block \in BOOLEAN, NEW bonus \in BOOLEAN,
         voting_result[e][d].portion = WholePortions(block, bonus)
  PROVE  rewardsToSplit(e, d, 100, block, bonus) = Planned(e, d)
<1> DEFINE r == account_reward[e][d]
           plan == voting_result[e][d].portion
           x == IF block THEN r.block ELSE 0
           y == IF bonus THEN r.bonus ELSE 0
           all == r.epoch + y + x
<1>1. r.block \in Nat /\ r.epoch \in Nat /\ r.bonus \in Nat
  BY RowTypes, RewardParts
<1>2. \A k \in Kinds : plan[k] \in DOMAIN BasisPoints
  <2>1. /\ snapshots[e] \in Snapshots /\ voting_result[e] = snapshots[e].result
        /\ d \in DOMAIN voting_result[e]
    BY ClosedEpochs, IndexedEpochs, RowTypes
  <2> QED  BY <2>1, VotersAssumption
<1>3. /\ plan.block \in DOMAIN BasisPoints /\ plan.epoch \in DOMAIN BasisPoints
      /\ plan.bonus \in DOMAIN BasisPoints
  BY <1>2 DEF Kinds
<1>4. /\ plan.block = IF block THEN 10000 ELSE 0
      /\ plan.epoch = 10000
      /\ plan.bonus = IF bonus THEN 10000 ELSE 0
  BY DEF WholePortions
<1>5. rewardsToSplit(e, d, 100, block, bonus) = (all * 100) \div 100
  BY DEF rewardsToSplit
<1>6. Planned(e, d) = Portion(plan.block, r.block) + Portion(plan.epoch, r.epoch)
                        + Portion(plan.bonus, r.bonus)
  BY DEF Planned, calculatedDistributedReward
<1> HIDE DEF r, plan, all
<1>7. /\ Portion(plan.block, r.block) = x
      /\ Portion(plan.epoch, r.epoch) = r.epoch
      /\ Portion(plan.bonus, r.bonus) = y
  BY <1>1, <1>3, <1>4, PortionIs
<1>8. all \in Nat /\ all = r.epoch + y + x /\ x \in Nat /\ y \in Nat
  BY <1>1 DEF all
<1> HIDE DEF x, y
<1>9. (all * 100) \div 100 = all
  BY <1>8
<1> QED  BY <1>1, <1>5, <1>6, <1>7, <1>8, <1>9

LEMMA BookkeepingFollows == RInv => BookkeepingAgrees
<1> SUFFICES
      ASSUME RInv, NEW end \in Closed, NEW start \in 1 .. end, NoPanic(start, end),
             NEW d \in Delegates, NEW block \in BOOLEAN, NEW bonus \in BOOLEAN,
             \A e \in Between(start, end) : Paid(e, d) =>
               voting_result[e][d].portion = WholePortions(block, bonus),
             NEW v \in Voters
      PROVE  LET answer == GetBookkeeping(start, end, d, 100, block, bonus)
             IN  HermesTo(start, end, d, v) = IF v \in DOMAIN answer THEN answer[v] ELSE 0
  BY DEF BookkeepingAgrees, WholePortions
<1> DEFINE answer == GetBookkeeping(start, end, d, 100, block, bonus)
           T == EpochsSent(start, end, d, v)
           f == AmountsSent(start, end, d, v)
           epochs == {e \in Between(start, end) : Paid(e, d) /\ voting_result[e][d].votes > 0}
           amount(e, x) == Share(rewardsToSplit(e, d, 100, block, bonus),
                                 aggregate_voting[e][<<d, x>>], voting_result[e][d].votes)
           voterEpochs(x) == {e \in epochs : x \in VotersOf(e, d)}
           g(x) == [e \in voterEpochs(x) |-> amount(e, x)]
<1>1. answer = [x \in {y \in Voters : voterEpochs(y) # {}} |-> SumFunction(g(x))]
  BY DEF GetBookkeeping
<1>2. HermesTo(start, end, d, v) = SumFunctionOnSet(f, T)
  BY HermesToIs
<1>3. /\ IsFiniteSet(T)
      /\ \A e \in T : /\ e \in PaidEpochs(start, end, d) /\ e \in Between(start, end)
                      /\ e \in Closed /\ d \in DOMAIN account_reward[e]
                      /\ v \in VotersOf(e, d) /\ voting_result[e][d].votes > 0
                      /\ Amount(e, d, v) \in Nat
  BY SentEpochs
<1>4. voterEpochs(v) = T
  <2>1. \A e : e \in T <=> e \in Between(start, end) /\ Paid(e, d) /\ v \in VotersOf(e, d)
    BY DEF EpochsSent, EpochsOf, PaidEpochs
  <2>2. \A e \in T : voting_result[e][d].votes > 0
    BY <1>3
  <2> HIDE DEF T
  <2> QED  BY <2>1, <2>2
<1>5. \A e \in T : amount(e, v) = Amount(e, d, v)
  <2>1. ASSUME NEW e \in T
        PROVE  amount(e, v) = Amount(e, d, v)
    <3>1. e \in Closed /\ d \in DOMAIN account_reward[e] /\ e \in Between(start, end) /\ Paid(e, d)
      BY <1>3 DEF PaidEpochs
    <3>2. voting_result[e][d].portion = WholePortions(block, bonus)
      BY <3>1
    <3>3. rewardsToSplit(e, d, 100, block, bonus) = Planned(e, d)
      BY <3>1, <3>2, WholePlan
    <3> QED  BY <3>3 DEF Amount
  <2> QED  BY <2>1
<1>6. g(v) = f
  <2>1. g(v) = [e \in T |-> amount(e, v)]
    <3> HIDE DEF T, epochs, amount
    <3> QED  BY <1>4
  <2>2. f = [e \in T |-> Amount(e, d, v)]
    BY DEF AmountsSent
  <2> HIDE DEF T, f, g, amount
  <2> QED  BY <1>5, <2>1, <2>2
<1>7. SumFunction(f) = SumFunctionOnSet(f, T)
  BY DEF SumFunction, AmountsSent
<1>8. T = {} => SumFunctionOnSet(f, T) = 0
  BY SumEmpty
<1> HIDE DEF g, voterEpochs, T, f
<1>9. v \in DOMAIN answer <=> T # {}
  BY <1>1, <1>4
<1>10. v \in DOMAIN answer => answer[v] = SumFunction(f)
  BY <1>1, <1>6
<1> QED  BY <1>2, <1>7, <1>8, <1>9, <1>10

(* GetBookkeeping of all of a delegate's rewards and GetHermesBookkeeping  *)
(* of a delegate that promised just that give every voter the same.        *)
THEOREM BookkeepingAlwaysAgrees == Spec => []BookkeepingAgrees
BY RewardsInvariant, BookkeepingFollows, PTL
===============================================================================
