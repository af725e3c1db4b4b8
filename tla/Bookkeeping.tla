------------------------------ MODULE Bookkeeping ------------------------------
(***************************************************************************)
(* The queries that split a delegate's rewards among its voters            *)
(* (queryprotocol/rewards/protocol.go), over the tables of Rewards.        *)
(*                                                                         *)
(* GetHermesBookkeeping answers for the delegates of a reward address,     *)
(* GetRewardSources for a voter, GetBookkeeping for a delegate and         *)
(* percentages of the caller's choice.  Each puts the figures together     *)
(* from three tables on its own.                                           *)
(***************************************************************************)
EXTENDS Rewards

CONSTANTS
  Voters,           \* addresses of voters
  BasisPoints       \* int64(portion * 100), for each portion in hundredths of a percent

(* The product is taken in floating point and cut off, so it may fall one  *)
(* short of the hundredths it stands for, unless the portion is a whole    *)
(* percentage.                                                             *)
ASSUME BasisPointsAssumption ==
  /\ DOMAIN BasisPoints \subseteq 0 .. 10000
  /\ \A p \in DOMAIN BasisPoints :
       /\ BasisPoints[p] \in {p, p - 1} \cap Nat
       /\ p % 100 = 0 => BasisPoints[p] = p

(* What StakingVotes shows of the votes of an epoch (VotersWithinTotal).   *)
ASSUME SnapshotsAssumption ==
  \A s \in Snapshots : \A d \in DOMAIN s.result :
    SumFunctionOnSet(s.voters, {k \in DOMAIN s.voters : k[1] = d}) <= s.result[d].votes

(* There are finitely many voters, none with less than no votes.           *)
ASSUME VotersAssumption ==
  /\ IsFiniteSet(Voters)
  /\ \A s \in Snapshots :
       /\ IsFiniteSet(DOMAIN s.voters) /\ \A k \in DOMAIN s.voters : s.voters[k] \in Nat
       /\ \A d \in DOMAIN s.result, k \in Kinds : s.result[d].portion[k] \in DOMAIN BasisPoints

-------------------------------------------------------------------------------
Delegates == UNION {DOMAIN s.result : s \in Snapshots}

Between(start, end) == (start .. end) \cap DOMAIN voting_result

Paid(e, d) == e \in Epochs /\ d \in DOMAIN account_reward[e]

VotersOf(e, d) == {v \in Voters : <<d, v>> \in DOMAIN aggregate_voting[e]}

HasVoters(e, d) == VotersOf(e, d) # {}

InAll(reward) == reward.block + reward.epoch + reward.bonus

Portion(percentage, reward) == (reward * BasisPoints[percentage]) \div 10000

(* calculatedDistributedReward: each kind of reward by its own portion. *)
calculatedDistributedReward(plan, reward) ==
  Portion(plan.portion.block, reward.block) + Portion(plan.portion.epoch, reward.epoch)
    + Portion(plan.portion.bonus, reward.bonus)

ShareRoundedUp(amount, votes, total) == (amount * votes + total - 1) \div total

Share(amount, votes, total) == (amount * votes) \div total

-------------------------------------------------------------------------------
(* GetAccountReward: what a delegate got over a number of epochs. *)
GetAccountReward(start, end, d) ==
  LET epochs == {e \in Between(start, end) : Paid(e, d)}
  IN  [k \in Kinds |-> SumFunction([e \in epochs |-> account_reward[e][d][k]])]

-------------------------------------------------------------------------------
(* GetHermesBookkeeping, and the averages over its epochs. *)

distributionPlanOfStart(start, end, a) ==
  {p \in Between(start, end) \X UNION {DOMAIN voting_result[e] : e \in Between(start, end)} :
     p[2] \in NamesAt(voting_result[start], a) /\ p[2] \in DOMAIN voting_result[p[1]]}

distributionPlanByRewardAddress(start, end, a) ==
  {p \in Between(start, end) \X UNION {DOMAIN voting_result[e] : e \in Between(start, end)} :
     p[2] \in NamesAt(voting_result[p[1]], a)}

(* A division by zero is a panic. *)
Divides(p) == HasVoters(p[1], p[2]) => voting_result[p[1]][p[2]].votes > 0

HermesAnswers(start, end, a) ==
  LET pairs == distributionPlanByRewardAddress(start, end, a)
  IN  /\ \E p \in pairs : Paid(p[1], p[2])
      /\ \E p \in pairs : HasVoters(p[1], p[2])
      /\ \A p \in pairs : Paid(p[1], p[2]) => Divides(p)

GetHermesBookkeeping(start, end, a) ==
  LET paid == {p \in distributionPlanByRewardAddress(start, end, a) : Paid(p[1], p[2])}
      epochs(d) == {p[1] : p \in {q \in paid : q[2] = d}}
      amount(e, d, v) ==
        Share(calculatedDistributedReward(voting_result[e][d], account_reward[e][d]),
              aggregate_voting[e][<<d, v>>], voting_result[e][d].votes)
      voterEpochs(d, v) == {e \in epochs(d) : v \in VotersOf(e, d)}
      distribution(d) ==
        [v \in {x \in Voters : voterEpochs(d, x) # {}} |->
           SumFunction([e \in voterEpochs(d, v) |-> amount(e, d, v)])]
      total(d) == SumFunction([e \in epochs(d) |-> InAll(account_reward[e][d])])
  IN  [d \in {p[2] : p \in paid} |->
         [distributions |-> distribution(d),
          refund |-> total(d) - SumFunction(distribution(d))]]

GetAverageHermesStats(start, end, a) ==
  LET paid == {p \in distributionPlanByRewardAddress(start, end, a) : Paid(p[1], p[2])}
      epochs(d) == {p[1] : p \in {q \in paid : q[2] = d}}
      average(f) == SumFunction(f) \div Cardinality(DOMAIN f)
  IN  [d \in {p[2] : p \in paid} |->
         [reward |-> average([e \in epochs(d) |->
                       calculatedDistributedReward(voting_result[e][d], account_reward[e][d])]),
          votes  |-> average([e \in epochs(d) |-> voting_result[e][d].votes])]]

-------------------------------------------------------------------------------
(* GetRewardSources. *)

weightedVotesAtStart(start, end, v) ==
  {p \in {start} \X UNION {DOMAIN voting_result[e] : e \in Between(start, start)} :
     <<p[2], v>> \in DOMAIN aggregate_voting[p[1]]}

weightedVotesByVoterAddress(start, end, v) ==
  {p \in Between(start, end) \X UNION {DOMAIN voting_result[e] : e \in Between(start, end)} :
     <<p[2], v>> \in DOMAIN aggregate_voting[p[1]]}

SourcesAnswer(start, end, v) ==
  LET paid == {p \in weightedVotesByVoterAddress(start, end, v) : Paid(p[1], p[2])}
  IN  paid # {} /\ \A p \in paid : Divides(p)

GetRewardSources(start, end, v) ==
  LET paid == {p \in weightedVotesByVoterAddress(start, end, v) : Paid(p[1], p[2])}
      amount(p) ==
        Share(calculatedDistributedReward(voting_result[p[1]][p[2]], account_reward[p[1]][p[2]]),
              aggregate_voting[p[1]][<<p[2], v>>], voting_result[p[1]][p[2]].votes)
  IN  [d \in {p[2] : p \in paid} |->
         SumFunction([p \in {q \in paid : q[2] = d} |-> amount(p)])]

-------------------------------------------------------------------------------
(* GetBookkeeping; here an epoch without votes is skipped.                 *)

rewardsToSplitWithBlocks(e, d, percentage, includeBlockReward, includeFoundationBonus) ==
  ((account_reward[e][d].epoch + account_reward[e][d].block
      + (IF includeFoundationBonus THEN account_reward[e][d].bonus ELSE 0)) * percentage) \div 100

rewardsToSplit(e, d, percentage, includeBlockReward, includeFoundationBonus) ==
  ((account_reward[e][d].epoch
      + (IF includeFoundationBonus THEN account_reward[e][d].bonus ELSE 0)
      + (IF includeBlockReward THEN account_reward[e][d].block ELSE 0)) * percentage) \div 100

BookkeepingAnswers(start, end, d) ==
  LET paid == {e \in Between(start, end) : Paid(e, d)}
      voting(e) == d \in DOMAIN voting_result[e]
  IN  /\ paid # {}
      /\ \E e \in Between(start, end) : HasVoters(e, d)
      /\ \A e \in paid : voting(e) /\ (voting_result[e][d].votes > 0 => HasVoters(e, d))

GetBookkeeping(start, end, d, percentage, includeBlockReward, includeFoundationBonus) ==
  LET epochs == {e \in Between(start, end) : Paid(e, d) /\ voting_result[e][d].votes > 0}
      amount(e, v) ==
        Share(rewardsToSplit(e, d, percentage, includeBlockReward, includeFoundationBonus),
              aggregate_voting[e][<<d, v>>], voting_result[e][d].votes)
      voterEpochs(v) == {e \in epochs : v \in VotersOf(e, d)}
  IN  [v \in {x \in Voters : voterEpochs(x) # {}} |->
         SumFunction([e \in voterEpochs(v) |-> amount(e, v)])]

-------------------------------------------------------------------------------
(* The queries read tables that change when an epoch is closed, and the    *)
(* properties look at them then, before there is another block.            *)
JustClosed ==
  height > 0 /\ OpensEpoch(height) /\ height = Len(chain) /\ RewardAddrToName # Nil

(* A delegate's voters are sent no more than the portions it promised of   *)
(* what it earned, and so its refund is never negative; where it has       *)
(* voters and all the votes are theirs, they miss less than a unit each.   *)
(* The averages are no lower than what the voters are sent.                *)
HermesWithinPlan ==
  JustClosed =>
    \A end \in Closed : \A start \in 1 .. end, a \in Addresses :
      HermesAnswers(start, end, a) =>
        \A d \in DOMAIN GetHermesBookkeeping(start, end, a) :
          LET answer == GetHermesBookkeeping(start, end, a)[d]
              epochs == {e \in Between(start, end) : d \in NamesAt(voting_result[e], a) /\ Paid(e, d)}
              given  == SumFunction(answer.distributions)
              planned ==
                SumFunction([e \in epochs |->
                  calculatedDistributedReward(voting_result[e][d], account_reward[e][d])])
              parts == SumFunction([e \in epochs |-> Cardinality(VotersOf(e, d))])
              known(e) ==
                /\ HasVoters(e, d)
                /\ voting_result[e][d].votes
                     = SumFunction([v \in VotersOf(e, d) |-> aggregate_voting[e][<<d, v>>]])
          IN  /\ given <= planned
              /\ answer.refund >= 0
              /\ (\A e \in epochs : known(e)) => planned - given < parts
              /\ given < Cardinality(epochs) * (GetAverageHermesStats(start, end, a)[d].reward + 1)

(* What Hermes sends a voter on account of a delegate, over all addresses  *)
(* the delegate had.                                                       *)
HermesTo(start, end, d, v) ==
  LET answer(a) == GetHermesBookkeeping(start, end, a)
      listed == {a \in Addresses : /\ HermesAnswers(start, end, a)
                                   /\ d \in DOMAIN answer(a)
                                   /\ v \in DOMAIN answer(a)[d].distributions}
  IN  SumFunction([a \in listed |-> answer(a)[d].distributions[v]])

NoPanic(start, end) ==
  \A e \in Between(start, end) : \A d \in DOMAIN account_reward[e] : Divides(<<e, d>>)

(* Over all the addresses a delegate had, what Hermes sends to its voters  *)
(* and leaves to itself is all it got, in the epochs of its candidacy.     *)
HermesAccountsForAll ==
  JustClosed =>
    \A end \in Closed : \A start \in 1 .. end : \A d \in Delegates :
      LET addresses == {a \in Addresses : \E e \in Between(start, end) :
                          Paid(e, d) /\ d \in NamesAt(voting_result[e], a)}
          answer(a) == GetHermesBookkeeping(start, end, a)
          listed == {a \in addresses : d \in DOMAIN answer(a)}
          all(r) == r.refund + SumFunction(r.distributions)
      IN  (\A a \in addresses : HermesAnswers(start, end, a)) =>
            SumFunction([a \in listed |-> all(answer(a)[d])])
              = InAll(GetAccountReward(start, end, d))

(* A voter is told the same by its delegates and by itself: what a         *)
(* delegate sends it, at whatever address the delegate was paid, is what   *)
(* it is shown to have got from the delegate.                              *)
SourcesAgree ==
  JustClosed =>
    \A end \in Closed : \A start \in 1 .. end : NoPanic(start, end) =>
      \A v \in Voters, d \in Delegates :
        HermesTo(start, end, d, v) =
          IF SourcesAnswer(start, end, v) /\ d \in DOMAIN GetRewardSources(start, end, v)
            THEN GetRewardSources(start, end, v)[d] ELSE 0

(* A delegate that promised all of some kinds of reward and nothing of the *)
(* others finds the same split in both of its queries.                     *)
BookkeepingAgrees ==
  JustClosed =>
    \A end \in Closed : \A start \in 1 .. end : NoPanic(start, end) =>
      \A d \in Delegates, block, bonus \in BOOLEAN :
        LET whole(b) == IF b THEN 10000 ELSE 0
            answer == GetBookkeeping(start, end, d, 100, block, bonus)
        IN  /\ BookkeepingAnswers(start, end, d)
            /\ \A e \in Between(start, end) : Paid(e, d) =>
                 voting_result[e][d].portion =
                   [block |-> whole(block), epoch |-> 10000, bonus |-> whole(bonus)]
            => \A v \in Voters :
                 HermesTo(start, end, d, v) = IF v \in DOMAIN answer THEN answer[v] ELSE 0

===============================================================================
