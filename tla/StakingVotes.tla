------------------------------ MODULE StakingVotes ------------------------------
(***************************************************************************)
(* The votes of native staking (indexprotocol/votings/stakingprotocol.go,  *)
(* bucketoperator.go, candidateoperator.go, probation.go) and the queries  *)
(* over them (queryprotocol/votings/protocol.go).                          *)
(*                                                                         *)
(* On the first block of an epoch processStaking reads the buckets and the *)
(* candidates as of the start of the epoch before, and writes them three   *)
(* times over: verbatim into an archive that stores every version of a     *)
(* bucket once and lists, per epoch, the ids of the versions then current; *)
(* summed by delegate into voting_result; and summed by delegate and voter *)
(* into aggregate_voting.  Delegates on probation have their votes scaled  *)
(* down in the last two, and in what is read from the archive.             *)
(*                                                                         *)
(* Weights are integers and the scale is a rational with a rounding down,  *)
(* as big.Float.Int rounds; RateNum / RateDen stands for the exact         *)
(* value of the float64 the code computes from the intensity.              *)
(***************************************************************************)
EXTENDS Integers, Sequences, FiniteSets, FiniteSetsExt, SequencesExt

CONSTANTS
  MaxBuckets,        \* bound on the buckets ever created
  Candidates,        \* candidates, by owner address
  Voters,            \* addresses that are no candidate's
  Operators,         \* operator addresses
  Amounts,           \* amounts that are staked
  Locked,            \* those staked with auto-stake for 91 days or more
  BonusNum,          \* a self-stake bucket weighs
  BonusDen,          \*   BonusNum / BonusDen of its amount
  RateNum,           \* the intensity rate of probation is
  RateDen,           \*   RateNum / RateDen
  MaxEpoch,          \* bound on the epochs
  MaxOps             \* bound on the staking operations

ASSUME StakingVotesAssumption ==
  /\ Candidates \cap Voters = {}
  /\ IsFiniteSet(Candidates)
  /\ Amounts \subseteq Nat /\ Locked \subseteq Amounts
  /\ BonusNum \in Nat /\ BonusDen \in Nat \ {0}
  /\ RateDen \in Nat \ {0} /\ RateNum \in 0 .. RateDen
  /\ MaxBuckets \in Nat /\ MaxEpoch \in Nat \ {0} /\ MaxOps \in Nat

VARIABLES
  buckets,             \* the buckets of the node, until they are withdrawn
  created,             \* number of buckets created so far; also the last index
  operator,            \* per candidate, its operator address
  selfBucket,          \* per candidate, its SelfStakeBucketIdx; 0 before it registers
  ops,                 \* number of staking operations so far
  history,             \* the node's state at the start of each epoch
  indexed,             \* the last epoch whose first block is indexed
  staking_bucket,      \* the versions of buckets; the id is the position
  height_to_bucket,    \* per epoch, the ids of the current versions
  staking_candidate,   \* the versions of candidates; the id is the position
  height_to_candidate, \* per epoch, the ids of the current versions
  probation_list,      \* per epoch, the operators on probation
  voting_result,       \* per epoch, the weighted votes and the operator of each delegate
  aggregate_voting,    \* per epoch, the votes of each voter for each delegate
  voting_meta          \* per epoch, the tokens that vote, the delegates, their votes

chain == <<buckets, created, operator, selfBucket, ops, history>>
archive == <<staking_bucket, height_to_bucket, staking_candidate, height_to_candidate>>
tables == <<indexed, archive, probation_list, voting_result, aggregate_voting, voting_meta>>
vars == <<chain, tables>>

-------------------------------------------------------------------------------
Nobody == "nobody"

Addresses == Candidates \cup Voters

Versions == [index : 1 .. MaxBuckets, candidate : Candidates, owner : Addresses,
             amount : Amounts, staked : BOOLEAN]

Epochs == 1 .. MaxEpoch

(* CalculateVoteWeight.  The terms of a bucket go with its amount: its     *)
(* duration weighs in there, and some amounts are those of locked buckets, *)
(* which get the bonus if they are a candidate's self-stake (no matter     *)
(* whose).                                                                 *)
CalculateVoteWeight(b, selfStakeIndex) ==
  IF b.index \in selfStakeIndex /\ b.amount \in Locked
    THEN (b.amount * BonusNum) \div BonusDen ELSE b.amount

Weigh(bs, selfStakeIndex) ==
  SumFunction([b \in bs |-> CalculateVoteWeight(b, selfStakeIndex)])

Scaled(votes) == (votes * RateNum) \div RateDen

selfStakeIndexMap(candidates) == {c.selfStakeBucketIdx : c \in candidates}

-------------------------------------------------------------------------------
(* The staking protocol of the full node.                                  *)

Staked == {b \in buckets : b.staked}

(* Candidates with SelfStakingTokens other than "0". *)
SelfStaked == {c \in Candidates : \E b \in Staked : b.index = selfBucket[c]}

Registered == {c \in Candidates : selfBucket[c] # 0}

(* The total the node keeps with a candidate, weighed as the indexer does. *)
TotalWeightedVotes(c) ==
  Weigh({b \in Staked : b.candidate = c}, {selfBucket[d] : d \in SelfStaked})

NodeState ==
  [buckets    |-> buckets,
   candidates |-> {[owner |-> c, operator |-> operator[c], votes |-> TotalWeightedVotes(c),
                    selfStakeBucketIdx |-> selfBucket[c], selfStaked |-> c \in SelfStaked]
                     : c \in Registered}]

(* An operation after the last snapshot that will be indexed has no effect *)
(* on the tables; there is none.                                           *)
Operation ==
  /\ ops < MaxOps
  /\ ops' = ops + 1
  /\ Len(history) < MaxEpoch - 1
  /\ UNCHANGED <<history, tables>>

(* An index is not used again, even when its bucket is withdrawn. *)
NewBucket(c, v, a) ==
  /\ created < MaxBuckets
  /\ created' = created + 1
  /\ buckets' = buckets \cup
       {[index |-> created', candidate |-> c, owner |-> v, amount |-> a, staked |-> TRUE]}

Stake(c, v, a) ==
  /\ Operation
  /\ c \in Registered
  /\ NewBucket(c, v, a)
  /\ UNCHANGED <<operator, selfBucket>>

(* A candidate registers with a bucket of its own; operators are unique. *)
Register(c, o, a) ==
  /\ Operation
  /\ c \notin Registered
  /\ \A d \in Candidates : operator[d] # o
  /\ NewBucket(c, c, a)
  /\ selfBucket' = [selfBucket EXCEPT ![c] = created']
  /\ operator' = [operator EXCEPT ![c] = o]

Replace(b, x) ==
  /\ Operation
  /\ x # b
  /\ buckets' = (buckets \ {b}) \cup {x}
  /\ UNCHANGED <<created, operator, selfBucket>>

(* A bucket that is no self-stake may get another candidate or owner, and  *)
(* may grow.                                                               *)
Amend(b, c, v, a) ==
  /\ b.staked
  /\ c \in Registered
  /\ \A d \in Candidates : selfBucket[d] # b.index
  /\ a >= b.amount
  /\ Replace(b, [b EXCEPT !.candidate = c, !.owner = v, !.amount = a])

Unstake(b) == b.staked /\ Replace(b, [b EXCEPT !.staked = FALSE])

Withdraw(b) ==
  /\ Operation
  /\ ~b.staked
  /\ buckets' = buckets \ {b}
  /\ UNCHANGED <<created, operator, selfBucket>>

ChangeOperator(c, o) ==
  /\ Operation
  /\ c \in Registered
  /\ \A d \in Candidates : operator[d] # o
  /\ operator' = [operator EXCEPT ![c] = o]
  /\ UNCHANGED <<buckets, created, selfBucket>>

NewEpoch ==
  /\ Len(history) < MaxEpoch
  /\ history' = Append(history, NodeState)
  /\ UNCHANGED <<buckets, created, operator, selfBucket, ops, tables>>

-------------------------------------------------------------------------------
(* The archive: one row for each version, by the hash of its content, with *)
(* INSERT IGNORE; per epoch, the ids (each of frequency 1).                *)

PutOncePerOwner(rows, S) ==
  rows \o SetToSeq({x \in S : \A y \in Range(rows) : y.owner # x.owner})

PutVersion(rows, S) == rows \o SetToSeq(S \ Range(rows))

InsertVoteBuckets(bs) == PutVersion(staking_bucket, bs)
InsertCandidates(cs) == PutVersion(staking_candidate, cs)

Ids(rows, S) == {id \in DOMAIN rows : rows[id] \in S}

GetVersions(rows, ids) == {rows[id] : id \in ids}

QueryVoteBuckets(e) == GetVersions(staking_bucket, height_to_bucket[e])
QueryCandidates(e) == GetVersions(staking_candidate, height_to_candidate[e])

(* GetAllStakingBuckets and GetAllStakingCandidates at the start of an     *)
(* epoch: unstaked buckets, and candidates without self-stake, are left    *)
(* out.                                                                    *)
GetAllStakingBuckets(e) == {b \in history[e].buckets : b.staked}
GetAllStakingCandidates(e) == {c \in history[e].candidates : c.selfStaked}

(* What the node may answer: NotFound, which leaves no list, or a list. *)
fetchProbationList == SUBSET Operators

getProbationList(e) == probation_list[e]

(* Owners of the candidates whose operator is on the list. *)
stakingProbationListToMap(candidates, list) ==
  {c.owner : c \in {d \in candidates : d.operator \in list}}

filterStakingCandidates(candidates, list) ==
  {IF c.operator \in list THEN [c EXCEPT !.votes = Scaled(@)] ELSE c : c \in candidates}

(* updateStakingResult, but for the reward portions. *)
StakingResult(candidates) ==
  [o \in {c.owner : c \in candidates} |->
     LET c == CHOOSE d \in candidates : d.owner = o
     IN  [votes |-> c.votes, operator |-> c.operator]]

AggregateUnscaled(bs, candidates, list) ==
  LET counted == {b \in bs : b.candidate \in {c.owner : c \in candidates}}
  IN  [k \in {<<b.candidate, b.owner>> : b \in counted} |->
         Weigh({b \in counted : <<b.candidate, b.owner>> = k}, selfStakeIndexMap(candidates))]

(* updateAggregateStaking: buckets of candidates that are not in the list  *)
(* are not counted, and what a voter's buckets for a delegate weigh is     *)
(* scaled as a whole.                                                      *)
AggregateStaking(bs, candidates, list) ==
  LET counted == {b \in bs : b.candidate \in {c.owner : c \in candidates}}
      keys    == {<<b.candidate, b.owner>> : b \in counted}
      sum(k)  == Weigh({b \in counted : <<b.candidate, b.owner>> = k},
                       selfStakeIndexMap(candidates))
  IN  [k \in keys |-> IF k[1] \in stakingProbationListToMap(candidates, list)
                        THEN Scaled(sum(k)) ELSE sum(k)]

VotingMeta(bs, candidates) ==
  [voted_token    |-> SumFunction([b \in {x \in bs : x.candidate \in {c.owner : c \in candidates}}
                                     |-> b.amount]),
   delegate_count |-> Cardinality(candidates),
   total_weighted |-> SumFunction([c \in candidates |-> c.votes])]

(* HandleBlock on the first block of an epoch: the probation list, then    *)
(* processStaking.                                                         *)
HandleEpoch(list) ==
  LET e  == indexed + 1
      bs == GetAllStakingBuckets(e - 1)
      cs == GetAllStakingCandidates(e - 1)
      filtered == filterStakingCandidates(cs, list)
  IN  /\ e <= Len(history)
      /\ indexed' = e
      /\ probation_list' = [probation_list EXCEPT ![e] = list]
      /\ staking_bucket' = InsertVoteBuckets(bs)
      /\ height_to_bucket' = [height_to_bucket EXCEPT ![e] = Ids(staking_bucket', bs)]
      /\ staking_candidate' = InsertCandidates(cs)
      /\ height_to_candidate' = [height_to_candidate EXCEPT ![e] = Ids(staking_candidate', cs)]
      /\ voting_result' = [voting_result EXCEPT ![e] = StakingResult(filtered)]
      /\ aggregate_voting' =
           [aggregate_voting EXCEPT ![e] = AggregateStaking(bs, filtered, list)]
      /\ voting_meta' = [voting_meta EXCEPT ![e] = VotingMeta(bs, filtered)]
      /\ UNCHANGED chain

-------------------------------------------------------------------------------
(* The queries.                                                            *)

BucketInfoUnscaled(e, c) ==
  {[bucket |-> b, votes |-> CalculateVoteWeight(b, selfStakeIndexMap(QueryCandidates(e)))]
     : b \in {x \in QueryVoteBuckets(e) : x.candidate = c /\ c \in {k.owner : k \in QueryCandidates(e)}}}

(* getStakingBucketInfoByEpoch: the buckets of a delegate, each with its   *)
(* own weight, scaled one by one.                                          *)
getStakingBucketInfoByEpoch(e, c) ==
  LET weight(b) == CalculateVoteWeight(b, selfStakeIndexMap(QueryCandidates(e)))
  IN  {[bucket |-> b, votes |-> IF c \in stakingProbationListToMap(QueryCandidates(e), getProbationList(e))
                                 THEN Scaled(weight(b)) ELSE weight(b)]
         : b \in {x \in QueryVoteBuckets(e) : x.candidate = c /\ c \in {k.owner : k \in QueryCandidates(e)}}}

selectOldestBuckets ==
  LET rowsOf(i) == {id \in DOMAIN staking_bucket : staking_bucket[id].index = i}
  IN  {staking_bucket[Min(rowsOf(i))] : i \in {j \in 1 .. MaxBuckets : rowsOf(j) # {}}}

(* selectBuckets: the row of the greatest id, for every index. *)
selectBuckets ==
  LET rowsOf(i) == {id \in DOMAIN staking_bucket : staking_bucket[id].index = i}
  IN  {staking_bucket[Max(rowsOf(i))] : i \in {j \in 1 .. MaxBuckets : rowsOf(j) # {}}}

BucketsByVoter(v) == {b \in selectBuckets : b.owner = v}

BucketsByCandidate(c) == {b \in selectBuckets : b.candidate = c /\ b.staked}

Init ==
  /\ buckets = {} /\ created = 0
  /\ operator = [c \in Candidates |-> Nobody]
  /\ selfBucket = [c \in Candidates |-> 0]
  /\ ops = 0
  /\ history = <<[buckets |-> {}, candidates |-> {}]>>
  /\ indexed = 1
  /\ staking_bucket = <<>> /\ height_to_bucket = [e \in Epochs |-> {}]
  /\ staking_candidate = <<>> /\ height_to_candidate = [e \in Epochs |-> {}]
  /\ probation_list = [e \in Epochs |-> {}]
  /\ voting_result = [e \in Epochs |-> <<>>]
  /\ aggregate_voting = [e \in Epochs |-> <<>>]
  /\ voting_meta = [e \in Epochs |-> VotingMeta({}, {})]

Next ==
  \/ \E c \in Candidates, a \in Amounts :
       \/ \E v \in Voters : Stake(c, v, a)
       \/ \E o \in Operators : Register(c, o, a)
       \/ \E b \in buckets, v \in Voters : Amend(b, c, v, a)
  \/ \E b \in buckets : Unstake(b) \/ Withdraw(b)
  \/ \E c \in Candidates, o \in Operators : ChangeOperator(c, o)
  \/ NewEpoch
  \/ \E list \in fetchProbationList : HandleEpoch(list)

Spec == Init /\ [][Next]_vars

-------------------------------------------------------------------------------
CandidateVersions ==
  [owner : Candidates, operator : Operators, votes : Int,
   selfStakeBucketIdx : 1 .. MaxBuckets, selfStaked : BOOLEAN]

NodeStates == [buckets : SUBSET Versions, candidates : SUBSET CandidateVersions]

(* The types of the variables; the ids of the archive are ids of rows. *)
TypeOK ==
  /\ buckets \in SUBSET Versions
  /\ created \in 0 .. MaxBuckets
  /\ operator \in [Candidates -> Operators \cup {Nobody}]
  /\ selfBucket \in [Candidates -> 0 .. MaxBuckets]
  /\ ops \in 0 .. MaxOps
  /\ history \in Seq(NodeStates)
  /\ indexed \in 1 .. Len(history)
  /\ staking_bucket \in Seq(Versions)
  /\ height_to_bucket \in [Epochs -> SUBSET DOMAIN staking_bucket]
  /\ staking_candidate \in Seq(CandidateVersions)
  /\ height_to_candidate \in [Epochs -> SUBSET DOMAIN staking_candidate]
  /\ probation_list \in [Epochs -> SUBSET Operators]

IndexedEpochs == 2 .. indexed

(* What was put for an epoch is what is read for it ever after, though     *)
(* versions are shared between epochs and a bucket or candidate may return *)
(* to an earlier one.                                                      *)
ArchiveExact ==
  \A e \in IndexedEpochs :
    /\ QueryVoteBuckets(e) = GetAllStakingBuckets(e - 1)
    /\ QueryCandidates(e) = GetAllStakingCandidates(e - 1)

(* The two answers to "how many votes has this voter given this delegate", *)
(* aggregate_voting and the sum over the bucket list, agree: exactly for a *)
(* delegate in good standing, and to less than one vote per bucket for one *)
(* on probation, where the parts are rounded down one by one.              *)
VotesAgree ==
  \A e \in IndexedEpochs : \A c \in DOMAIN voting_result[e], v \in Addresses :
    LET parts == {p \in getStakingBucketInfoByEpoch(e, c) : p.bucket.owner = v}
        sum   == SumFunction([p \in parts |-> p.votes])
        key   == <<c, v>>
    IN  /\ parts # {} <=> key \in DOMAIN aggregate_voting[e]
        /\ parts # {} =>
             /\ sum <= aggregate_voting[e][key]
             /\ aggregate_voting[e][key] - sum < Cardinality(parts)
             /\ c \notin stakingProbationListToMap(QueryCandidates(e), getProbationList(e)) =>
                  aggregate_voting[e][key] = sum

(* The voters of a delegate share no more than its total, so that what a   *)
(* delegate is left with when rewards are split by these figures is never  *)
(* negative; and rounding loses less than one vote per voter.              *)
VotersWithinTotal ==
  \A e \in IndexedEpochs : \A c \in DOMAIN voting_result[e] :
    LET keys == {k \in DOMAIN aggregate_voting[e] : k[1] = c}
        sum  == SumFunctionOnSet(aggregate_voting[e], keys)
    IN  /\ sum <= voting_result[e][c].votes
        /\ voting_result[e][c].votes - sum < Cardinality(keys)

(* b stands in the archive for epoch e, and once it appeared there was no  *)
(* other version of it up to e.                                            *)
NeverReturned(b, e) ==
  \A f \in IndexedEpochs : f <= e /\ b \in QueryVoteBuckets(f) =>
    \A g \in f .. e : \A x \in QueryVoteBuckets(g) : x.index = b.index => x = b

(* The bucket queries, which do not look at the epochs but at the ids,     *)
(* show a bucket that is staked in the last epoch as it is there, unless   *)
(* it has returned to an earlier version.                                  *)
NewVersionListed ==
  \A b \in QueryVoteBuckets(indexed) :
    NeverReturned(b, indexed) =>
      b \in BucketsByVoter(b.owner) /\ b \in BucketsByCandidate(b.candidate)

-------------------------------------------------------------------------------
(* queryprotocol/votings/protocol.go: "BucketsByVoter returns the buckets  *)
(* owned by the voter": every staked one among them.                       *)
VotersBucketsListed ==
  \A b \in QueryVoteBuckets(indexed) : b \in BucketsByVoter(b.owner)

===============================================================================
