-------------------------------- MODULE Rewards --------------------------------
(***************************************************************************)
(* The rewards protocol (indexprotocol/rewards/protocol.go), together with *)
(* the rows of the blocks and votings protocols it reads.                  *)
(*                                                                         *)
(* The node grants rewards to addresses.  Each grant becomes a row of      *)
(* reward_history, under the name that the map in memory has for the       *)
(* address.  The first block of the next epoch turns the rows into         *)
(* account_reward, which is by delegate: what an address got goes to the   *)
(* delegate that uses it according to the epoch's voting result, and if    *)
(* several share it, it is broken down by what each must have earned.      *)
(***************************************************************************)
EXTENDS Integers, Sequences, FiniteSets, Functions

CONSTANTS
  Addresses,                      \* reward addresses
  Snapshots,                      \* candidates and voters as an epoch may have them
  ActiveBlockProducers,           \* the delegates that produce, in their order
  BlockReward,                    \* what is granted for a block
  EpochGrants,                    \* what may be granted for an epoch, by address
  MaxShortfalls,                  \* bound on the blocks that find the rewarding fund empty
  ExemptCandidatesFromEpochReward,
  NumDelegatesForEpochReward,
  NumDelegatesForFoundationBonus,
  ProductivityThreshold,          \* percentage of the expected blocks
  Nil,                            \* the map before it is first made
  BlocksPerEpoch,                    \* blocks in an epoch
  MaxEpoch                        \* bound on the epochs; only the first block of the last

(* A snapshot has a row per delegate and the votes of each of its voters,  *)
(* who do not add up to more than the delegate's total.                    *)
ASSUME RewardsAssumption ==
  /\ BlocksPerEpoch \in Nat \ {0} /\ MaxEpoch \in Nat \ {0}
  /\ ActiveBlockProducers # <<>> /\ BlocksPerEpoch >= Len(ActiveBlockProducers)
  /\ Snapshots # {}
  /\ \A s \in Snapshots : ActiveBlockProducers \in Seq(DOMAIN s.result)

(* There are finitely many delegates, each with a name; amounts are big    *)
(* integers that the node does not let become negative.                    *)
ASSUME AmountsAssumption ==
  /\ IsFiniteSet(Addresses)
  /\ \A s \in Snapshots :
       /\ IsFiniteSet(DOMAIN s.result) /\ "" \notin DOMAIN s.result
       /\ \A d \in DOMAIN s.result : s.result[d].address \in Addresses /\ s.result[d].votes \in Nat
  /\ BlockReward \in Nat
  /\ \A g \in EpochGrants :
       DOMAIN g \subseteq Addresses /\ g \in [DOMAIN g -> [{"block", "epoch", "bonus"} -> Nat]]
  /\ NumDelegatesForEpochReward \in Nat /\ NumDelegatesForFoundationBonus \in Nat

VARIABLES
  chain,             \* the blocks of the node
  snapshots,         \* per epoch begun, the candidates and voters it is indexed with
  height,            \* the blocks indexed
  RewardAddrToName,  \* in memory: the delegates of each reward address
  block_history,     \* per block, who produced it and who was expected to
  reward_history,    \* the rewards granted, with the name of the address at the time
  voting_result,     \* per epoch, the row of each delegate
  aggregate_voting,  \* per epoch, the votes of each voter for each delegate
  account_reward     \* per epoch, the rewards of each delegate

node == <<chain, snapshots>>
tables == <<block_history, reward_history, voting_result, aggregate_voting, account_reward>>
vars == <<node, height, RewardAddrToName, tables>>

-------------------------------------------------------------------------------
Nobody == ""

Kinds == {"block", "epoch", "bonus"}

Reward(block, epoch, bonus) == [block |-> block, epoch |-> epoch, bonus |-> bonus]

Zero == Reward(0, 0, 0)

EpochOf(h) == ((h - 1) \div BlocksPerEpoch) + 1

OpensEpoch(h) == (h - 1) % BlocksPerEpoch = 0

ClosesEpoch(h) == h % BlocksPerEpoch = 0

Epochs == 1 .. MaxEpoch

expectedProducer(h) == ActiveBlockProducers[(h % Len(ActiveBlockProducers)) + 1]

(* The delegates that use an address, in the rows of an epoch. *)
NamesAt(result, a) == {d \in DOMAIN result : result[d].address = a}

-------------------------------------------------------------------------------
(* The node.  A block pays its producer, unless the rewarding fund is      *)
(* empty; the last one of an epoch also pays addresses for the epoch.  The *)
(* two grants are two actions.                                             *)
BlockGrants(a) ==
  {[x \in {a} |-> Reward(BlockReward, 0, 0)]} \cup
  IF Cardinality({h \in DOMAIN chain : chain[h].granted = <<>>}) < MaxShortfalls
    THEN {<<>>} ELSE {}

(* The block that opens the epoch after the last one is there for closing  *)
(* it, and nothing is asked about its own contents: one choice will do.    *)
Chosen(S, h) == IF EpochOf(h) = MaxEpoch THEN {CHOOSE x \in S : TRUE} ELSE S

NewBlock ==
  LET h == Len(chain) + 1
      begun == IF OpensEpoch(h) THEN Chosen(Snapshots, h) ELSE {snapshots[EpochOf(h)]}
  IN  /\ height = Len(chain)
      /\ EpochOf(h) < MaxEpoch \/ (EpochOf(h) = MaxEpoch /\ OpensEpoch(h))
      /\ \E s \in begun :
           /\ snapshots' = IF OpensEpoch(h) THEN Append(snapshots, s) ELSE snapshots
           /\ \E p \in Chosen(Range(ActiveBlockProducers), h) :
                \E r \in Chosen(BlockGrants(s.result[p].address), h),
                   g \in IF ClosesEpoch(h) THEN EpochGrants ELSE {<<>>} :
                  chain' = Append(chain, [producer |-> p, granted |-> r, closing |-> g])
      /\ UNCHANGED <<height, RewardAddrToName, tables>>

-------------------------------------------------------------------------------
(* updateCandidateRewardAddress: the candidates the epoch is indexed with. *)
updateCandidateRewardAddress(e) ==
  LET result == snapshots[e].result
  IN  [a \in {result[d].address : d \in DOMAIN result} |-> NamesAt(result, a)]

RefreshOnlyIfNil(h) == RewardAddrToName = Nil

MustRefresh(h) == OpensEpoch(h) \/ RewardAddrToName = Nil

AddrToNameAfter(h) ==
  IF MustRefresh(h) THEN updateCandidateRewardAddress(EpochOf(h)) ELSE RewardAddrToName

(* The name of an address in reward_history: the first of its delegates in *)
(* the order of the node's list, which is the same every time.             *)
candidateName(a, names) ==
  IF a \in DOMAIN names THEN CHOOSE d \in names[a] : TRUE ELSE Nobody

(* updateRewardHistory, for one receipt. *)
RewardRows(h, kind, rewardInfoMap, names) ==
  {[epoch |-> EpochOf(h), action |-> <<h, kind>>, address |-> a,
    name |-> candidateName(a, names), reward |-> rewardInfoMap[a]]
     : a \in DOMAIN rewardInfoMap}

updateRewardHistory(h, names) ==
  reward_history \cup RewardRows(h, "block", chain[h].granted, names)
                 \cup RewardRows(h, "epoch", chain[h].closing, names)

(* selectRewardHistoryGroup: what an address got in an epoch. *)
AddressesPaid(e) == {r.address : r \in {x \in reward_history : x.epoch = e}}

Total(rows) ==
  [k \in Kinds |-> SumFunction([r \in rows |-> r.reward[k]])]

AggregateReward(e, a) == Total({r \in reward_history : r.epoch = e /\ r.address = a})

BlocksInTurn(e) ==
  LET heights == {h \in DOMAIN block_history : EpochOf(h) = e}
      inTurn(d) == {h \in heights : block_history[h].expected = d}
  IN  [d \in {block_history[h].expected : h \in heights} |->
         [Production         |-> Cardinality({h \in inTurn(d) : block_history[h].producer = d}),
          ExpectedProduction |-> Cardinality(inTurn(d))]]

(* selectBlockHistory: by the delegates that were expected to produce. *)
getProductivity(e) ==
  LET heights == {h \in DOMAIN block_history : EpochOf(h) = e}
  IN  [d \in {block_history[h].expected : h \in heights} |->
         [Production         |-> Cardinality({h \in heights : block_history[h].producer = d}),
          ExpectedProduction |-> Cardinality({h \in heights : block_history[h].expected = d})]]

candidateRankFromZero(result) ==
  {[d \in DOMAIN result |-> rank[d] - 1] :
     rank \in {r \in Bijection(DOMAIN result, 1 .. Cardinality(DOMAIN result)) :
                 \A c, d \in DOMAIN result : result[c].votes > result[d].votes => r[c] < r[d]}}

(* The orders sort.Slice may bring the delegates into: it starts from the  *)
(* order in which Go enumerates a map, and those of equal votes stay in    *)
(* any order.                                                              *)
candidateRank(result) ==
  {rank \in Bijection(DOMAIN result, 1 .. Cardinality(DOMAIN result)) :
     \A c, d \in DOMAIN result : result[c].votes > result[d].votes => rank[c] < rank[d]}

EpochShareOfAny(total, votes, qualifiedTotalVotes, earns) ==
  IF qualifiedTotalVotes > 0 THEN (total * votes) \div qualifiedTotalVotes ELSE 0

EpochShare(total, votes, qualifiedTotalVotes, earns) ==
  IF qualifiedTotalVotes > 0 /\ earns THEN (total * votes) \div qualifiedTotalVotes ELSE 0

WithoutZero(shares) == Restrict(shares, {d \in DOMAIN shares : shares[d] # Zero})

(* breakdownRewards: the shares of the delegates of one address. *)
breakdownRewards(productivity, result, names, total, rank) ==
  LET productive(d) ==
        d \in DOMAIN productivity =>
          (productivity[d].Production * 100) \div productivity[d].ExpectedProduction
            >= ProductivityThreshold
      exempt(d) == d \in ExemptCandidatesFromEpochReward
      earnBlockReward == {d \in names : d \in DOMAIN productivity}
      earnEpochReward ==
        {d \in names : rank[d] <= NumDelegatesForEpochReward /\ ~exempt(d) /\ productive(d)}
      earnFoundationBonus ==
        {d \in names : rank[d] <= NumDelegatesForFoundationBonus /\ ~exempt(d)}
      productionSum == SumFunction([d \in earnBlockReward |-> productivity[d].Production])
      qualifiedTotalVotes == SumFunction([d \in earnEpochReward |-> result[d].votes])
  IN  WithoutZero([d \in names |->
        Reward(IF productionSum > 0 /\ d \in earnBlockReward
                 THEN (total.block * productivity[d].Production) \div productionSum ELSE 0,
               EpochShare(total.epoch, result[d].votes, qualifiedTotalVotes, d \in earnEpochReward),
               IF d \in earnFoundationBonus
                 THEN total.bonus \div Cardinality(earnFoundationBonus) ELSE 0)])

(* One delegate gets everything its address got, no questions asked. *)
RewardsOf(e, a, rank) ==
  LET names == NamesAt(voting_result[e], a)
  IN  IF Cardinality(names) = 1 THEN [d \in names |-> AggregateReward(e, a)]
      ELSE breakdownRewards(getProductivity(e), voting_result[e], names,
                            AggregateReward(e, a), rank)

(* Each address is sorted for on its own. *)
rebuildAccountRewardTable(e, rank) ==
  LET parts == {RewardsOf(e, a, rank[a]) : a \in AddressesPaid(e)}
      names == UNION {DOMAIN p : p \in parts}
  IN  [d \in names |-> (CHOOSE p \in parts : d \in DOMAIN p)[d]]

(* With rows to break down and nobody to give anything, the INSERT has no  *)
(* values and is refused, every time.                                      *)
Refused(e, rank) ==
  AddressesPaid(e) # {} /\ DOMAIN rebuildAccountRewardTable(e, rank) = {}

Ranks(e) == [Addresses -> candidateRank(voting_result[e])]

-------------------------------------------------------------------------------
CloseEpoch(e) ==
  IF e = 0 THEN UNCHANGED account_reward
  ELSE \E rank \in Ranks(e) :
         /\ ~Refused(e, rank)
         /\ account_reward' = [account_reward EXCEPT ![e] = rebuildAccountRewardTable(e, rank)]

(* A block goes through the handlers of blocks, rewards and votings.  The  *)
(* first one of an epoch closes the epoch before, and stores the epoch's   *)
(* own votes after that.                                                   *)
HandleBlock ==
  LET h == height + 1
      e == EpochOf(h)
  IN  /\ height < Len(chain)
      /\ height' = h
      /\ block_history' = Append(block_history,
           [producer |-> chain[h].producer, expected |-> expectedProducer(h)])
      /\ RewardAddrToName' = AddrToNameAfter(h)
      /\ IF OpensEpoch(h) THEN CloseEpoch(e - 1) ELSE UNCHANGED account_reward
      /\ reward_history' = updateRewardHistory(h, AddrToNameAfter(h))
      /\ IF OpensEpoch(h)
           THEN /\ voting_result' = Append(voting_result, snapshots[e].result)
                /\ aggregate_voting' = Append(aggregate_voting, snapshots[e].voters)
           ELSE UNCHANGED <<voting_result, aggregate_voting>>
      /\ UNCHANGED node

(* The transaction of a block is rolled back after the rewards protocol    *)
(* has refreshed its map, which stays refreshed.                           *)
HandleBlockFails ==
  /\ height < Len(chain)
  /\ RewardAddrToName' = AddrToNameAfter(height + 1)
  /\ UNCHANGED <<node, height, tables>>

(* The process is restarted. *)
Restart ==
  /\ RewardAddrToName' = Nil
  /\ UNCHANGED <<node, height, tables>>

Init ==
  /\ chain = <<>> /\ snapshots = <<>>
  /\ height = 0
  /\ RewardAddrToName = Nil
  /\ block_history = <<>>
  /\ reward_history = {}
  /\ voting_result = <<>> /\ aggregate_voting = <<>>
  /\ account_reward = [e \in Epochs |-> <<>>]

Next == NewBlock \/ HandleBlock \/ HandleBlockFails \/ Restart

Spec == Init /\ [][Next]_vars

-------------------------------------------------------------------------------
Rewards == [Kinds -> Nat]

(* The types of the variables. *)
TypeOK ==
  /\ height \in {Len(chain), Len(chain) - 1} /\ height >= 0
  /\ snapshots \in Seq(Snapshots)
  /\ Len(block_history) = height
  /\ Len(voting_result) = Len(aggregate_voting)
  /\ RewardAddrToName # Nil =>
       DOMAIN RewardAddrToName \subseteq Addresses /\ {} \notin Range(RewardAddrToName)
  /\ \A r \in reward_history : r.epoch \in Epochs /\ r.address \in Addresses
                               /\ r.reward \in Rewards
  /\ DOMAIN account_reward = Epochs
  /\ \A e \in Epochs : Range(account_reward[e]) \subseteq Rewards

Closed == 1 .. EpochOf(height) - 1

Row(e, d) == IF d \in DOMAIN account_reward[e] THEN account_reward[e][d] ELSE Zero

(* What the delegates of an address are credited with in an epoch is what  *)
(* the address was granted, in every kind: never more, and if anybody      *)
(* gets a share of it, less by rounding only.                              *)
SharesAddUp ==
  \A e \in Closed : \A a \in Addresses, k \in Kinds :
    LET names   == NamesAt(voting_result[e], a)
        granted == AggregateReward(e, a)[k]
        shared  == SumFunction([d \in names |-> Row(e, d)[k]])
    IN  /\ shared <= granted
        /\ shared = 0 \/ granted - shared < Cardinality(names)

(* A delegate that shares its address and is behind too many others in     *)
(* votes, or exempt, is credited with no epoch reward and no bonus,        *)
(* whatever order Go puts equals into.                                     *)
OnlyTopEarn ==
  \A e \in Closed : \A d \in DOMAIN account_reward[e] :
    LET result == voting_result[e]
        ahead  == Cardinality({c \in DOMAIN result : result[c].votes > result[d].votes})
    IN  Cardinality(NamesAt(result, result[d].address)) > 1 =>
          /\ account_reward[e][d].epoch > 0 =>
               ahead < NumDelegatesForEpochReward /\ d \notin ExemptCandidatesFromEpochReward
          /\ account_reward[e][d].bonus > 0 =>
               ahead < NumDelegatesForFoundationBonus /\ d \notin ExemptCandidatesFromEpochReward

(* The two tables tell the same story about a delegate with an address of  *)
(* its own, though the one takes the delegate from memory, which outlives  *)
(* rollbacks and is lost in restarts, and the other from the voting        *)
(* result; and the rewards without a name are those of nobody.             *)
HistoryAgrees ==
  /\ \A e \in Closed : \A d \in DOMAIN voting_result[e] :
       NamesAt(voting_result[e], voting_result[e][d].address) = {d} =>
         Total({r \in reward_history : r.epoch = e /\ r.name = d}) = Row(e, d)
  /\ \A r \in reward_history :
       r.name = Nobody <=> NamesAt(voting_result[r.epoch], r.address) = {}

(* Somebody is sure to get something of what an address was paid: it has   *)
(* one delegate; or one of its delegates produced a block of the epoch and *)
(* was in turn for some block of it, and what the blocks paid goes round.  *)
SureOfAShare(e, a) ==
  LET names   == NamesAt(voting_result[e], a)
      heights == {h \in DOMAIN block_history : EpochOf(h) = e}
  IN  \/ Cardinality(names) = 1
      \/ /\ \E d \in names : \E g, h \in heights :
              block_history[g].producer = d /\ block_history[h].expected = d
         /\ AggregateReward(e, a).block >= Cardinality(names)

(* An epoch in which somebody is sure of a share can be closed, however    *)
(* its blocks and votes turned out: the INSERT does not lack values, for   *)
(* which the indexer would stay at the epoch's last block.                 *)
EpochsClose ==
  LET e == EpochOf(height)
  IN  height > 0 /\ ClosesEpoch(height) =>
        \A rank \in Ranks(e) :
          (\E a \in AddressesPaid(e) : SureOfAShare(e, a)) => ~Refused(e, rank)

===============================================================================
