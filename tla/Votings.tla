-------------------------------- MODULE Votings --------------------------------
(***************************************************************************)
(* The votings protocol over both of its eras (indexprotocol/votings) and  *)
(* the queries over its tables (queryprotocol/votings/protocol.go).        *)
(*                                                                         *)
(* Before Fairbank the votes are those of the buckets on Ethereum, as of   *)
(* a height of that chain, and of the first native buckets.  On the first  *)
(* block of an epoch the raw data of both is stored; the votes are worked  *)
(* out from what is stored, then and again at every query, the native      *)
(* ones as of the block of the epoch before that had the putPollResult.    *)
(* Since Fairbank they are those of native staking (StakingVotes).         *)
(*                                                                         *)
(* A behaviour stays in the era it begins in: HandleBlock takes one branch *)
(* or the other, and the tables of the eras have the same form.            *)
(***************************************************************************)
EXTENDS StakingVotes

CONSTANTS
  VoteThreshold,     \* an Ethereum bucket of less is not counted
  ScoreThreshold,    \* a candidate of less is no delegate
  SelfStakingThreshold,  \* nor one that has staked less itself
  SelfVoter,         \* the address each candidate stakes from itself
  LockEnd,           \* until when a bucket of a locked amount has its bonus
  FirstOperators,    \* what operators the candidates may have at first on Ethereum
  FirstBallots,      \* the buckets there are at first
  MaxGravity,        \* bound on the epochs of the gravity chain
  MaxGravityOps      \* bound on the operations on it

Ballots == [candidate : Candidates, voter : Voters, amount : Amounts, native : BOOLEAN]

ASSUME VotingsAssumption ==
  /\ VoteThreshold \in Nat /\ ScoreThreshold \in Nat /\ LockEnd \in Nat
  /\ SelfStakingThreshold \in Nat /\ SelfVoter \in [Candidates -> Voters]
  /\ FirstOperators \subseteq [Candidates -> Operators \cup {Nobody}]
  /\ FirstBallots \subseteq Ballots /\ IsFiniteSet(FirstBallots)
  /\ MaxGravity \in Epochs /\ MaxGravityOps \in Nat

VARIABLES
  era,            \* "gravity" before Fairbank, "native" since then
  registrations,  \* the operator each candidate has on Ethereum
  ballots,        \* the buckets of Ethereum and the native ones
  raw,            \* per epoch, the raw data stored
  polls           \* per epoch, whether it had one putPollResult action

gravity == <<registrations, ballots, raw, polls>>
allvars == <<vars, era, gravity>>

-------------------------------------------------------------------------------
(* Ethereum and the native staking contract; re-registering changes the    *)
(* operator, which may be nobody, or somebody else's.                      *)

GravityOperation ==
  /\ ops < MaxGravityOps
  /\ ops' = ops + 1
  /\ indexed < MaxGravity
  /\ UNCHANGED <<buckets, created, operator, selfBucket, history, tables, raw, polls>>

RegisterOnEthereum(c, o) ==
  /\ GravityOperation
  /\ registrations[c] # o
  /\ registrations' = [registrations EXCEPT ![c] = o]
  /\ UNCHANGED ballots

Vote(b) == GravityOperation /\ ballots' = ballots \cup {b} /\ UNCHANGED registrations

EndVote(b) == GravityOperation /\ ballots' = ballots \ {b} /\ UNCHANGED registrations

-------------------------------------------------------------------------------
(* Mint times: every epoch is two ticks, the block with the poll result    *)
(* being a tick after the Ethereum block its buckets are read from.        *)

EthMintTime(e) == 2 * (e - 1)

(* The query for the one block of the epoch before that has a              *)
(* putPollResult; with none there is no row, with two an error.            *)
MintTimeKnown(e) == polls[e - 1]
PollTime(e) == 2 * e + 1

LatestOfAllPolls(e) == PollTime(Max({f \in Epochs : polls[f]}))

getLatestNativeMintTime(e) == PollTime(e - 1)

calcWeightedVotes(b, now) ==
  IF b.amount \in Locked /\ now < LockEnd
    THEN (b.amount * BonusNum) \div BonusDen ELSE b.amount

Votes(bs, now) == {[ballot |-> b, votes |-> calcWeightedVotes(b, now)] : b \in bs}

Sum(votes) == SumFunction([v \in votes |-> v.votes])

For(votes, c) == {v \in votes : v.ballot.candidate = c}

SelfStakingTokens(bs, c) ==
  LET own == {b \in bs : b.candidate = c /\ b.voter = SelfVoter[c]}
  IN  SumFunction([b \in own |-> b.amount])

(* candidateFilter and bucketFilter, and the election's calculator: the    *)
(* delegates and their scores, and the votes counted, those for other      *)
(* candidates among them (if it leaves these out, there are fewer rows     *)
(* that nothing here looks at).                                            *)
calculateEthereumStaking(e) ==
  LET counted == {b \in raw[e].buckets : b.amount >= VoteThreshold}
      votes   == Votes(counted, EthMintTime(e))
      elected == {c \in Candidates : /\ Sum(For(votes, c)) >= ScoreThreshold
                                     /\ SelfStakingTokens(counted, c) >= SelfStakingThreshold}
  IN  [delegates |-> {[name |-> c, operator |-> raw[e].regs[c], score |-> Sum(For(votes, c))]
                        : c \in elected},
       votes |-> votes]

(* Native votes count for delegates only, but are listed all. *)
mergeResult(result, bs, now) ==
  LET native == Votes(bs, now)
      total(d) == d.score + Sum(For(native, d.name))
  IN  [delegates |-> {[d EXCEPT !.score = total(d)]
                        : d \in {x \in result.delegates : total(x) >= ScoreThreshold}},
       votes |-> result.votes \cup native]

resultByHeight(e) ==
  IF raw[e].native # {}
    THEN mergeResult(calculateEthereumStaking(e), raw[e].native, getLatestNativeMintTime(e))
    ELSE calculateEthereumStaking(e)

(* filterCandidates scales the scores down, and keeps the candidates by    *)
(* operator: of those with the same one (or none), the one that comes last *)
(* in the order of the scores.                                             *)
filterCandidates(delegates, list) ==
  LET same(d)  == {x \in delegates : x.operator = d.operator}
      lowest   == {d \in delegates : \A x \in same(d) : d.score <= x.score}
      scale(d) == IF d.operator \in list THEN [d EXCEPT !.score = Scaled(@)] ELSE d
  IN  {{scale(d) : d \in kept} : kept \in
         {S \in SUBSET lowest : \A d \in lowest : Cardinality(S \cap same(d)) = 1}}

probationListToMap(delegates, list) ==
  {d.name : d \in {x \in delegates : x.operator \in list}}

(* updateVotingResultTable, but for the reward portions. *)
VotingResult(delegates) ==
  [c \in {d.name : d \in delegates} |->
     LET d == CHOOSE x \in delegates : x.name = c
     IN  [votes |-> d.score, operator |-> d.operator]]

(* updateAggregateVotingandVotingMetaTable: the votes of a voter for a     *)
(* candidate, of either kind, are scaled as a whole, and if the filtered   *)
(* delegates have the candidate.                                           *)
AggregateVoting(votes, delegates, list) ==
  LET key(v) == <<v.ballot.candidate, v.ballot.voter, v.ballot.native>>
      sum(k) == Sum({v \in votes : key(v) = k})
  IN  [k \in {key(v) : v \in votes} |->
         IF k[1] \in probationListToMap(delegates, list) THEN Scaled(sum(k)) ELSE sum(k)]

GravityMeta(votes, delegates) ==
  [voted_token    |-> SumFunction([v \in votes |-> v.ballot.amount]),
   delegate_count |-> Cardinality(delegates),
   total_weighted |-> SumFunction([d \in delegates |-> d.score])]

(* getRawData and putPoll; getNativeBucket, whose answer may be that there *)
(* are none, and putNativePoll, which then stores nothing.                 *)
fetchAndStoreRawBuckets(e, found) ==
  LET ofKind(native) == {b \in ballots : b.native = native}
  IN  raw' = [raw EXCEPT ![e] = [regs |-> registrations, buckets |-> ofKind(FALSE),
                                 native |-> IF found THEN ofKind(TRUE) ELSE {}]]

(* HandleBlock on the first block of an epoch before Fairbank.  A list is  *)
(* found or not, and an empty one still filters.  Native buckets cannot be *)
(* merged without the mint time: the block is refused.  Native staking,    *)
(* meanwhile, has no bucket and no candidate.                              *)
HandleGravityEpoch(found, list, native, oneMintTime) ==
  \E e \in 1 .. MaxGravity :
      /\ e = indexed + 1
      /\ ~found => list = {}
      /\ polls' = [polls EXCEPT ![e - 1] = oneMintTime]
      /\ fetchAndStoreRawBuckets(e, native)
      /\ raw'[e].native # {} => MintTimeKnown(e)'
      /\ indexed' = e
      /\ probation_list' = [probation_list EXCEPT ![e] = list]
      /\ \E result \in {resultByHeight(e)'} :
           \E delegates \in IF found THEN filterCandidates(result.delegates, list)
                                      ELSE {result.delegates} :
             /\ voting_result' = [voting_result EXCEPT ![e] = VotingResult(delegates)]
             /\ aggregate_voting' =
                  [aggregate_voting EXCEPT ![e] = AggregateVoting(result.votes, delegates, list)]
             /\ voting_meta' = [voting_meta EXCEPT ![e] = GravityMeta(result.votes, delegates)]
      /\ history' = Append(history, NodeState)
      /\ UNCHANGED <<buckets, created, operator, selfBucket, ops, archive, registrations, ballots>>

-------------------------------------------------------------------------------
(* The queries.                                                            *)

IndexedFrom(start, count) == start .. Min({start + count - 1, indexed})

(* GetBucketInfoByEpoch: the votes for a delegate, scaled one by one. It   *)
(* asks for the native mint time whether there are native buckets or not.  *)
GetBucketInfoByEpoch(e, c) ==
  LET result == resultByHeight(e)
  IN  {[v EXCEPT !.votes = IF c \in probationListToMap(result.delegates, getProbationList(e))
                             THEN Scaled(@) ELSE @] : v \in For(result.votes, c)}

GetBucketInformationAnswers(start, count) ==
  \A e \in IndexedFrom(start, count) : era = "gravity" => MintTimeKnown(e)

GetBucketInformation(start, count, c) ==
  [e \in IndexedFrom(start, count) |->
     IF era = "gravity" THEN GetBucketInfoByEpoch(e, c) ELSE getStakingBucketInfoByEpoch(e, c)]

EpochsOf(start, count, c) ==
  {e \in IndexedFrom(start, count) : c \in DOMAIN voting_result[e]}

GetStaking(start, count, c) == [e \in EpochsOf(start, count, c) |-> voting_result[e][c].votes]

GetCandidateMeta(start, count) == [e \in IndexedFrom(start, count) |-> voting_meta[e]]

(* GetCandidates does not answer if one of the epochs has no delegate. *)
GetCandidatesAnswers(start, count) ==
  \A e \in IndexedFrom(start, count) : DOMAIN voting_result[e] # {}

GetCandidates(start, count) == [e \in IndexedFrom(start, count) |-> voting_result[e]]

(* The delegates of an operator in the last epoch it has any; the query    *)
(* takes one of them.                                                      *)
GetAlias(o) ==
  LET names(e) == {c \in DOMAIN voting_result[e] : voting_result[e][c].operator = o}
  IN  names(Max({e \in 1 .. indexed : names(e) # {}}))

OperatorOfToday(c, e) ==
  voting_result[Max({f \in 1 .. indexed : c \in DOMAIN voting_result[f]})][c].operator

getOperatorAddress(c, e) ==
  voting_result[Max({f \in 1 .. e : c \in DOMAIN voting_result[f]})][c].operator

GetOperatorAddress(c) == getOperatorAddress(c, indexed)

getAppearingCount(start, count, c) == Cardinality(EpochsOf(start, count, c))

(* GetProbationHistoricalRate: the epochs with the operator of the         *)
(* delegate, at that time or last before, on the list, of those with the   *)
(* delegate.                                                               *)
ProbationCount(start, count, c) ==
  Cardinality({e \in IndexedFrom(start, count) :
                 /\ \E f \in 1 .. e : c \in DOMAIN voting_result[f]
                 /\ getOperatorAddress(c, e) \in getProbationList(e)})

-------------------------------------------------------------------------------
VotingsInit ==
  /\ Init
  /\ era \in {"gravity", "native"}
  /\ registrations \in IF era = "gravity" THEN FirstOperators ELSE {<<>>}
  /\ ballots = IF era = "gravity" THEN FirstBallots ELSE {}
  /\ raw = [e \in Epochs |-> [regs |-> registrations, buckets |-> {}, native |-> {}]]
  /\ polls = [e \in Epochs |-> FALSE]

GravityNext ==
  \/ \E c \in Candidates, o \in Operators \cup {Nobody} : RegisterOnEthereum(c, o)
  \/ \E b \in Ballots \ ballots : Vote(b)
  \/ \E b \in ballots : EndVote(b)
  \/ \E found, native, oneMintTime \in BOOLEAN, list \in fetchProbationList :
       HandleGravityEpoch(found, list, native, oneMintTime)

VotingsNext ==
  /\ UNCHANGED era
  /\ \/ era = "native" /\ Next /\ UNCHANGED gravity
     \/ era = "gravity" /\ GravityNext

VotingsSpec == VotingsInit /\ [][VotingsNext]_allvars

-------------------------------------------------------------------------------
(* Before Fairbank, too, the answers to "how many votes has this delegate" *)
(* agree.  A candidate with enough votes has its row, unless another has   *)
(* its operator.  The row is what the voters gave, of both kinds, less the *)
(* scale of probation and its rounding; so is the list of its buckets,     *)
(* worked out long after from the raw data, with the mint time of then.    *)
GravityVotesAgree ==
  era = "gravity" =>
    \A e \in IndexedEpochs :
      LET delegates == resultByHeight(e).delegates
          Alone(d)  == \A x \in delegates : x.operator = d.operator => x = d
      IN  /\ \A d \in delegates : Alone(d) => d.name \in DOMAIN voting_result[e]
          /\ voting_meta[e].delegate_count = Cardinality(DOMAIN voting_result[e])
          /\ \A c \in DOMAIN voting_result[e] :
               LET keys   == {k \in DOMAIN aggregate_voting[e] : k[1] = c}
                   given  == SumFunctionOnSet(aggregate_voting[e], keys)
                   row    == voting_result[e][c]
                   list   == GetBucketInformation(e, 1, c)[e]
                   scaled == row.operator \in getProbationList(e)
               IN  /\ given <= row.votes
                   /\ row.votes - given <= IF scaled THEN Cardinality(keys) ELSE 0
                   /\ GetBucketInformationAnswers(e, 1) =>
                        /\ Sum(list) <= given
                        /\ given - Sum(list) <= IF scaled THEN Cardinality(list) ELSE 0

(* Was delegate c on probation in epoch e, by what is archived?            *)
OnProbation(c, e) ==
  IF era = "gravity"
    THEN c \in probationListToMap(resultByHeight(e).delegates, getProbationList(e))
    ELSE c \in stakingProbationListToMap(QueryCandidates(e), getProbationList(e))

(* A delegate listed throughout a range of epochs is said to have been on  *)
(* probation in those in which its votes were scaled, whatever operators   *)
(* it had.                                                                 *)
RateCountsScaledEpochs(start, count) ==
  \A c \in Candidates :
    getAppearingCount(start, count, c) = count =>
      ProbationCount(start, count, c)
        = Cardinality({e \in start .. start + count - 1 : OnProbation(c, e)})

(* The meta data of a range of epochs is that of the candidates listed for *)
(* it, and a delegate finds the same votes in both.                        *)
RangesAgree(start, count) ==
  GetCandidatesAnswers(start, count) =>
    \A e \in IndexedFrom(start, count) :
      LET listed == GetCandidates(start, count)[e]
          meta   == GetCandidateMeta(start, count)[e]
      IN  /\ meta.delegate_count = Cardinality(DOMAIN listed)
          /\ meta.total_weighted = SumFunction([c \in DOMAIN listed |-> listed[c].votes])
          /\ \A c \in DOMAIN listed : GetStaking(start, count, c)[e] = listed[c].votes

(* A delegate of the last epoch is found by its operator, and the only one *)
(* found unless it shares it.                                              *)
AliasesAgree ==
  \A c \in DOMAIN voting_result[indexed] :
    LET o == GetOperatorAddress(c)
    IN  GetAlias(o) = {d \in DOMAIN voting_result[indexed] : voting_result[indexed][d].operator = o}

(* The queries over the voting tables, in both eras and for any range of   *)
(* epochs, tell the same story.                                            *)
VotingQueriesAgree ==
  /\ \A start \in IndexedEpochs : \A count \in 1 .. indexed - start + 1 :
       RateCountsScaledEpochs(start, count) /\ RangesAgree(start, count)
  /\ AliasesAgree

===============================================================================
