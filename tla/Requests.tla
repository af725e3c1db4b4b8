-------------------------------- MODULE Requests --------------------------------
(***************************************************************************)
(* What a client of the GraphQL server sees (graphql/resolver.go under     *)
(* graphql/generated.go) while the index goes on.  The fields at the root  *)
(* of a document are worked on concurrently, and the resolver of each      *)
(* starts a goroutine for each field asked for below it, whose queries run *)
(* one after the other on whatever connection they get, so that each sees  *)
(* the tables as they were after some visible block (Views, which Store    *)
(* implements).                                                            *)
(*                                                                         *)
(* An ask is what a goroutine has to do: [root, of, field, args, sub], the *)
(* position of the root and its name, the field, its arguments as the      *)
(* resolvers read them, and the fields asked for below it.                 *)
(*                                                                         *)
(* Answers from tables that other modules are about (rewards, votes) are   *)
(* Some or Absent.  Xrc721 has the getters of Xrc20 over tables of its     *)
(* own, and is not asked for here.                                         *)
(***************************************************************************)
EXTENDS Views, Queries, Documents

CONSTANTS
  Forms,        \* the documents clients send
  Candidates,   \* the blocks there may be at each height
  Genesis,      \* the balances of genesis
  Buckets,      \* the buckets the node has at the start of each epoch
  AvailableBalance,  \* what the node says is left to be rewarded
  Length,       \* the rows in each list from another module's tables
  MaxViews,     \* bound on the blocks connections remember at a time
  Some, Absent, \* answers from another module's tables
  Odd,          \* an answer with a name that DecodeDelegateName cannot decode
  Broken,       \* a query that fails
  Malformed     \* the texts that are neither a delegate's name nor an address

(* A block has the height it is indexed at, and a transfer in its log is   *)
(* no more than what Tables says of it, and so with a bucket of the node.   *)
ASSUME RequestsAssumption ==
  /\ ForkIsSafe
  /\ NoBucket \notin Int
  /\ {Some, Absent, Odd, Broken} \cap Nat = {}
  /\ \A h \in 1 .. MaxHeight : \A b \in Candidates[h] :
       /\ b.height = h /\ IsFiniteSet(b.actions) /\ IsFiniteSet(b.log)
       /\ \A x \in b.log :
            /\ x.amount \in Nat
            /\ x = [act |-> x.act, type |-> x.type, from |-> x.from, to |-> x.to, amount |-> x.amount]
  /\ \A k \in 1 .. GetEpochNumber(MaxHeight) : \A b \in Buckets[k] :
       b = [index |-> b.index, owner |-> b.owner] /\ b.index # NoBucket

DefaultPageSize == 200
MaximumPageSize == 500

VARIABLES
  blocks,       \* the blocks indexed
  tables,       \* what the tables are after each of them, from 0
  bucketTable,  \* whether somebody has made the table bucket_actions
  request,      \* the document asked
  pending,      \* the asks whose goroutines are at work
  seen,         \* the block each of an ask's queries was answered as of
  response,     \* the fields written, by root and name
  failed,       \* the roots in which a goroutine has returned an error
  walk          \* the pages a client has turned before this one

vars == <<height, visible, blocks, tables, bucketTable, request, pending, seen, response, failed, walk>>

index == <<height, visible, blocks, tables, bucketTable>>

T(v) == tables[v + 1]

-------------------------------------------------------------------------------
(* What a goroutine does next, by the answers it has: another query, or    *)
(* it returns an error, or writes a field and returns, or just returns.    *)
More == [to |-> "more", value |-> 0]
Failure == [to |-> "error", value |-> 0]
Silence == [to |-> "nothing", value |-> 0]
Write(field, value) == [to |-> field, value |-> value]

Found(n, rows) == [exist |-> TRUE, count |-> n, rows |-> rows]
NotExist(n) == [exist |-> FALSE, count |-> n, rows |-> {}]

(* Of a pagination, what is there: what is not is 0.                       *)
Child(p, n) == IF n \in DOMAIN p THEN p[n] ELSE 0

(* The rows asked for: getPaginationArgs, where it may be left out, or the *)
(* page of so many of a list of token transfers.                           *)
Page(a) ==
  IF "pagination" \in DOMAIN a.args
  THEN [skip |-> Child(a.args.pagination, "skip"), first |-> Child(a.args.pagination, "first")]
  ELSE IF "numPerPage" \in DOMAIN a.args
  THEN [skip |-> (IF a.args.page < 1 THEN 0 ELSE a.args.page - 1) * a.args.numPerPage, first |-> a.args.numPerPage]
  ELSE [skip |-> 0, first |-> DefaultPageSize]

Pages(a, rows) == Limit(rows, Page(a).skip, Page(a).first)

(* The count, then the list.  If the list is empty, the field is written   *)
(* with the count empty(count).                                            *)
CountThenList(a, s, count(_), list(_), empty(_)) ==
  IF Broken \in ToSet(s) THEN {Failure}
  ELSE IF Len(s) < 2 THEN {More}
  ELSE LET n == count(T(s[1]))
       IN  {Write(a.field, IF page = {} THEN NotExist(empty(n)) ELSE Found(n, page))
              : page \in Pages(a, list(T(s[2])))}

(* The list, then the count, unless the list is empty. *)
ListThenCount(a, s, list(_), count(_)) ==
  IF Broken \in ToSet(s) THEN {Failure}
  ELSE IF s = <<>> THEN {More}
  ELSE LET pages == Pages(a, list(T(s[1])))
       IN  IF {} \in pages THEN {Write(a.field, NotExist(0))}
           ELSE IF Len(s) < 2 THEN {More}
           ELSE {Write(a.field, Found(count(T(s[2])), page)) : page \in pages}

Zero(n) == 0
Same(n) == n

-------------------------------------------------------------------------------
(* Action. *)

(* The error of the count is made and thrown away. *)
getActionsByDates(a, s) ==
  LET list(t) == GetActionsByDates(t, <<a.args.startDate, a.args.endDate>>)
      count(t) == GetActionCountByDates(t, <<a.args.startDate, a.args.endDate>>)
  IN  IF a.args.startDate > a.args.endDate THEN {Failure}
      ELSE IF Len(s) = 2 /\ s[1] # Broken /\ s[2] = Broken
           THEN {Write(a.field, Found(0, page)) : page \in Pages(a, list(T(s[1])))}
           ELSE ListThenCount(a, s, list, count)

SupportedTypes ==
  { "transfer", "execution", "startSubChain", "stopSubChain", "putBlock", "createDeposit", "settleDeposit",
    "createPlumChain", "terminatePlumChain", "plumPutBlock", "plumCreateDeposit", "plumStartExit",
    "plumChallengeExit", "plumResponseChallengeExit", "plumFinalizeExit", "plumSettleDeposit", "plumTransfer",
    "depositToRewardingFund", "claimFromRewardingFund", "grantReward", "stakeCreate", "stakeUnstake",
    "stakeWithdraw", "stakeAddDeposit", "stakeRestake", "stakeChangeCandidate", "stakeTransferOwnership",
    "candidateRegister", "candidateUpdate", "putPollResult" }

CountBeforeType(a, s) ==
  IF a.args.type \notin SupportedTypes THEN {Failure}
  ELSE CountThenList(a, s, LAMBDA t : GetActionCountByType(t, a.args.type),
                           LAMBDA t : GetActionsByType(t, a.args.type), Zero)

getActionsByType(a, s) ==
  IF a.args.type \notin SupportedTypes THEN {Failure}
  ELSE ListThenCount(a, s, LAMBDA t : GetActionsByType(t, a.args.type),
                           LAMBDA t : GetActionCountByType(t, a.args.type))

(* Past the end, and where there is nothing, there is neither an answer    *)
(* nor an error: errors.Wrap of no error is none.                          *)
getActionsByAddressAndType(a, s) ==
  LET list(t) == GetActionsByAddressAndType(t, <<a.args.address, a.args.type>>)
      count(t) == GetActionCountByAddressAndType(t, <<a.args.address, a.args.type>>)
  IN  IF Len(s) = 1 /\ s[1] # Broken /\ Page(a).skip >= count(T(s[1]))
      THEN {Silence}
      ELSE CountThenList(a, s, count, list, Zero)

getActionsByAddress(a, s) ==
  CountThenList(a, s, LAMBDA t : GetActionCountByAddress(t, a.args.address),
                      LAMBDA t : GetActionsByAddress(t, a.args.address), Zero)

getActionsByVoter(a, s) ==
  CountThenList(a, s, LAMBDA t : GetBucketActionCountByVoter(t, a.args.voter),
                      LAMBDA t : GetBucketActionsByVoter(t, a.args.voter), Zero)

FoundOrNot(o) == IF o.to = "byBucketIndex" THEN [o EXCEPT !.to = "byAddress"] ELSE o

AsOfBucketIndex(o) == IF o.to = "byBucketIndex" /\ ~o.value.exist THEN [o EXCEPT !.to = "byAddress"] ELSE o

(* That there are none is written to ByAddress. *)
getActionsByBucketIndex(a, s) ==
  IF a.args.bucketIndex <= 0 THEN {Failure}
  ELSE {AsOfBucketIndex(o) : o \in
          CountThenList(a, s, LAMBDA t : GetActionCountByBucketIndex(t, a.args.bucketIndex),
                              LAMBDA t : GetActionsByBucketIndex(t, a.args.bucketIndex), Zero)}

getEvmTransfersByAddress(a, s) ==
  CountThenList(a, s, LAMBDA t : GetEvmTransferCount(t, a.args.address),
                      LAMBDA t : GetEvmTransferDetailListByAddress(t, a.args.address), Same)

(* One query for the action, one for its transfers. *)
getActionByHash(a, s) ==
  IF Broken \in ToSet(s) THEN {Failure}
  ELSE IF s = <<>> THEN {More}
  ELSE IF GetActionDetailByHash(T(s[1]), a.args.actHash) = {} THEN {Failure}
  ELSE IF Len(s) < 2 THEN {More}
  ELSE {Write(a.field, Found(1, EvmTransfersOf(T(s[2]), a.args.actHash)))}

-------------------------------------------------------------------------------
(* Xrc20. *)
getXrcByContractAddress(a, s) ==
  CountThenList(a, s, LAMBDA t : GetXrc20TransactionCount(t, a.args.address), LAMBDA t : GetXrc20(t, a.args.address), Same)

getXrcByAddress(a, s) ==
  CountThenList(a, s, LAMBDA t : GetXrc20HistoryCount(t, a.args.address), LAMBDA t : GetXrc20ByAddress(t, a.args.address), Same)

getXrcByContractAndAddress(a, s) ==
  CountThenList(a, s, LAMBDA t : GetXrc20HistoryByContractCount(t, <<a.args.contract, a.args.address>>),
                      LAMBDA t : GetXrc20ByContractAndAddress(t, <<a.args.contract, a.args.address>>), Same)

getXrcByPage(a, s) ==
  CountThenList(a, s, LAMBDA t : GetXrc20Count(t), LAMBDA t : GetXrc20ByPage(t), Same)

(* No addresses are addresses all the same. *)
getXrcAddresses(a, s) ==
  {[o EXCEPT !.value = IF o.to = a.field THEN [@ EXCEPT !.exist = TRUE] ELSE @] : o \in
     CountThenList(a, s, LAMBDA t : GetXrc20AddressesCount(t),
                         LAMBDA t : GetXrc20Addresses(t), Same)}

(* No holders are an error. *)
xrcTokenHolderAddresses(a, s) ==
  {IF o = Write(a.field, NotExist(0)) THEN Failure ELSE o : o \in
     ListThenCount(a, s, LAMBDA t : GetXrc20Holders(t, a.args.tokenAddress), LAMBDA t : GetXrc20HolderCount(t, a.args.tokenAddress))}

-------------------------------------------------------------------------------
(* Account and TopHolders: one query each. *)
OneQuery(a, s, answer(_)) ==
  IF Broken \in ToSet(s) THEN {Failure} ELSE IF s = <<>> THEN {More} ELSE answer(T(s[1]))

Listed(a, pages) == {IF page = {} THEN Failure ELSE Write(a.field, Found(Cardinality(page), page)) : page \in pages}

getActiveAccounts(a, s) ==
  IF a.args.count < 1 THEN {Failure}
  ELSE OneQuery(a, s, LAMBDA t : Listed(a, Limit(GetActiveAccount(t), 0, a.args.count)))

TopHolders(a, s) == OneQuery(a, s, LAMBDA t : Listed(a, Pages(a, GetTopHolders(t, a.args.endEpochNumber))))

getTotalNumberOfHolders(a, s) ==
  OneQuery(a, s, LAMBDA t : {Write(a.field, Found(GetTotalNumberOfHolders(t), {}))})

getTotalAccountSupply(a, s) ==
  OneQuery(a, s, LAMBDA t : IF SupplyRows(t) = {} THEN {Failure}
                            ELSE {Write(a.field, Found(GetTotalAccountSupply(t), {}))})

-------------------------------------------------------------------------------
(* Chain.  GetCurrentEpochAndHeight asks whether there is a block, then    *)
(* for the last: two queries of the n that a getter makes.                 *)
AfterTip(s, n, answers) ==
  IF Broken \in ToSet(s) \/ \E i \in 1 .. 2 : i \in DOMAIN s /\ T(s[i]).block_history = {} THEN {Failure}
  ELSE IF Len(s) < n THEN {More}
  ELSE answers

Tip(i) == [root |-> i, of |-> "chain", field |-> "tip", args |-> NoArgs, sub |-> {}]

getLastEpochAndHeight(a, s) ==
  AfterTip(s, 2, {Write("tip", [epoch |-> CurrentEpoch(T(s[2])), height |-> CurrentHeight(T(s[2]))])})

getTPS(a, s) ==
  LET window == BlockWindow(T(s[3]), CurrentHeight(T(s[2])), a.args.blockWindow)
  IN  IF a.args.blockWindow <= 0 THEN {Failure}
      ELSE AfterTip(s, 3, IF window = {} THEN {Failure}
                          ELSE {Write(a.field, Found(SumFunction([x \in window |-> x.tps]), window))})

(* A range that begins after the last epoch; the query is not made. *)
Beyond(s, start) == Len(s) = 2 /\ ToSet(s) \subseteq 1 .. height /\ start > CurrentEpoch(T(s[2]))

(* The text of a range that is made with variables is not that of numbers. *)
Ranged(a) == "pagination" \in DOMAIN a.args

BadRange(a) ==
  Ranged(a) /\ (\/ \E n \in DOMAIN a.args.pagination : a.args.pagination[n] \notin Int \/ a.args.pagination[n] < 0
                \/ Child(a.args.pagination, "startEpoch") < 1)

Ending(range) == range.startEpoch + range.epochCount - 1

(* Without a range, all epochs up to the last one that is known of.        *)
RangeAsked(a, last) == IF Ranged(a) THEN a.args.pagination ELSE [startEpoch |-> 1, epochCount |-> last]

(* The last epoch is the one read before; the sum of no rows is NULL, an   *)
(* error.                                                                  *)
getNumberOfActions(a, s) ==
  LET range == RangeAsked(a, response[<<a.root, "tip">>].epoch)
  IN  IF BadRange(a) THEN {Failure}
      ELSE IF Beyond(s, range.startEpoch) THEN {IF Ranged(a) THEN Write(a.field, NotExist(0)) ELSE Failure}
      ELSE AfterTip(s, 3, IF BlocksOfEpochs(T(s[3]), range.startEpoch, Ending(range)) = {} THEN {Failure}
                          ELSE {Write(a.field, Found(GetNumberOfActions(T(s[3]), range.startEpoch, Ending(range)), {}))})

(* Without a range, the epochs from 0 on, which is refused. *)
gettotalTransferredTokens(a, s) ==
  LET range == a.args.pagination
  IN  IF ~Ranged(a) \/ BadRange(a) THEN {Failure}
      ELSE IF Beyond(s, range.startEpoch) THEN {Write(a.field, Found(0, {}))}
      ELSE AfterTip(s, 3, {Write(a.field, Found(GetTotalTransferredTokens(T(s[3]), range.startEpoch, Ending(range)), {}))})

(* The burned, the locked, and a question to the node.                     *)
getTotalAndTotalCirculatingSupply(a, s) ==
  IF Broken \in ToSet(s) THEN {Failure}
  ELSE IF Len(s) < 3 THEN {More}
  ELSE LET total == GetTotalSupply(T(s[1]))
           circulating == total - getBalanceSumByAddress(T(s[2]), LockAddress)
       IN  {Write(a.field, [ totalSupply |-> total, totalCirculatingSupply |-> circulating,
                             totalCirculatingSupplyNoRewardPool |-> circulating - AvailableBalance ])}

-------------------------------------------------------------------------------
(* Hermes2.  What is asked for below a field decides on the queries: for   *)
(* the list, for the ratios the delegate had at the time, which are among  *)
(* the votes, and for count and total.  An answer of nothing is the end.   *)
Parts(a, list, totals) ==
  SelectSeq(<<"list", "ratio", "count">>,
            LAMBDA q : CASE q = "list" -> list \in a.sub
                         [] q = "ratio" -> "distributionRatio" \in a.sub
                         [] q = "count" -> a.sub \cap totals # {})

ByDelegateParts(a) == Parts(a, "voterInfoList", {"count", "totalRewardsDistributed"})
ByVoterParts(a) == Parts(a, "delegateInfoList", {"count", "totalRewardsReceived"})

Distributions2(a, s, parts, pairs(_)) ==
  LET pages(i) == Pages(a, Payments(pairs(T(s[i]))))
      IsNothing(i) == CASE parts[i] = "list" -> {} \in pages(i)
                        [] parts[i] = "ratio" -> s[i] = Absent
                        [] parts[i] = "count" -> pairs(T(s[i])) = {}
      listed == IF parts # <<>> /\ parts[1] = "list" THEN pages(1) ELSE {{}}
      counted == IF parts # <<>> /\ Last(parts) = "count" THEN pairs(T(Last(s))) ELSE {}
  IN  IF Broken \in ToSet(s) THEN {Failure}
      ELSE IF \E i \in DOMAIN s : IsNothing(i) THEN {Write(a.field, NotExist(0))}
      ELSE IF Len(s) < Len(parts) THEN {More}
      ELSE {Write(a.field, [ exist |-> TRUE, count |-> Cardinality(counted), rows |-> page,
                             total |-> Amounts(counted) ]) : page \in listed}

LastEpoch(a) == a.args.startEpoch + a.args.epochCount - 1

RatioNext(a, s) == Len(s) < Len(ByDelegateParts(a)) /\ ByDelegateParts(a)[Len(s) + 1] = "ratio"

(* The name is encoded when the ratios are asked for. *)
getHermes2ByDelegate(a, s) ==
  LET pairs(t) == GetHermes2ByDelegate(t, <<a.args.startEpoch, LastEpoch(a), a.args.delegateName>>)
      outcomes == Distributions2(a, s, ByDelegateParts(a), pairs)
  IN  IF outcomes = {More} /\ RatioNext(a, s) /\ a.args.delegateName \in Malformed THEN {Failure} ELSE outcomes

getHermes2ByVoter(a, s) ==
  Distributions2(a, s, ByVoterParts(a),
    LAMBDA t : GetHermes2ByVoter(t, <<a.args.startEpoch, LastEpoch(a), a.args.voterAddress>>))

getHermes2HermesMeta(a, s) ==
  OneQuery(a, s, LAMBDA t : {Write(a.field, GetHermes2Meta(t, a.args.startEpoch, LastEpoch(a)))})

-------------------------------------------------------------------------------
(* What is answered from the tables of votes and rewards. *)
Answer(s, some, none) ==
  IF Broken \in ToSet(s) THEN {Failure} ELSE IF s = <<>> THEN {More} ELSE IF s[1] = Some THEN some ELSE none

All(a) == {Write(a.field, Found(Length, {}))}

Perhaps(a, s) == Answer(s, All(a), {Write(a.field, NotExist(0))})

(* The names in an answer are decoded. *)
Decoded(a, s) == IF Odd \in ToSet(s) THEN {Failure} ELSE Perhaps(a, s)

OrFail(a, s) == Answer(s, All(a), {Failure})

OrEmpty(a, s) == Answer(s, All(a), {Write(a.field, Found(0, {}))})

BadPagination(a) ==
  "pagination" \in DOMAIN a.args /\
    LET p == a.args.pagination
    IN  \/ Child(p, "skip") < 0
        \/ "first" \in DOMAIN p /\ (p.first <= 0 \/ p.first > MaximumPageSize)

(* A list cut to the page after it has been read, which must begin in it.  *)
Cut(a) == IF BadPagination(a) \/ ("pagination" \in DOMAIN a.args /\ Page(a).skip >= Length) THEN {Failure} ELSE All(a)

getRewards(a, s) == Perhaps(a, s)
getProductivity(a, s) == Perhaps(a, s)
getStaking(a, s) == Perhaps(a, s)
getRewardSources(a, s) == Decoded(a, s)
getAlias(a, s) == Decoded(a, s)
getOperatorAddress(a, s) == IF a.args.aliasName \in Malformed THEN {Failure} ELSE Perhaps(a, s)
HermesBookkeeping(a, s) == Decoded(a, s)
HermesAverageStats(a, s) == Decoded(a, s)

getBookkeeping(a, s) ==
  IF a.args.percentage \notin 0 .. 100 THEN {Failure}
  ELSE Answer(s, Cut(a), {Write(a.field, NotExist(0))})

getBucketInfo(a, s) == Answer(s, Cut(a), {Write(a.field, NotExist(0))})

getCandidateList(a, s) == OrFail(a, s)
getVotingResultMeta(a, s) == OrFail(a, s)

(* That there is nothing is written, and then written over. *)
getVotingMeta(a, s) == OrEmpty(a, s)

probationHistoricalRate(a, s) == OrEmpty(a, s)

(* Without a pagination, which may be left out, they panic. *)
BucketsByVoter(a, s) ==
  IF a.args.address \in Malformed \/ "pagination" \notin DOMAIN a.args THEN {Failure} ELSE OrEmpty(a, s)

BucketsByCandidate(a, s) == IF "pagination" \notin DOMAIN a.args THEN {Failure} ELSE OrFail(a, s)

-------------------------------------------------------------------------------
(* The resolvers of the roots.  Arguments are looked at before any query,  *)
(* but getXrcByAddress and its like do not look at theirs, and those that  *)
(* cut a list look when they have it.                                      *)
Account(a, s) ==
  CASE a.field = "activeAccounts" -> getActiveAccounts(a, s)
    [] a.field = "alias" -> getAlias(a, s)
    [] a.field = "operatorAddress" -> getOperatorAddress(a, s)
    [] a.field = "totalNumberOfHolders" -> getTotalNumberOfHolders(a, s)
    [] a.field = "totalAccountSupply" -> getTotalAccountSupply(a, s)

Action(a, s) ==
  IF BadPagination(a) \/ (a.field = "byType" /\ "pagination" \notin DOMAIN a.args) THEN {Failure}
  ELSE CASE a.field = "byDates" -> getActionsByDates(a, s)
         [] a.field = "byHash" -> getActionByHash(a, s)
         [] a.field = "byAddress" -> getActionsByAddress(a, s)
         [] a.field = "byAddressAndType" -> getActionsByAddressAndType(a, s)
         [] a.field = "byBucketIndex" -> getActionsByBucketIndex(a, s)
         [] a.field = "evmTransfersByAddress" -> getEvmTransfersByAddress(a, s)
         [] a.field = "byType" -> getActionsByType(a, s)
         [] a.field = "byVoter" -> getActionsByVoter(a, s)

Chain(a, s) ==
  CASE a.field = "tip" -> getLastEpochAndHeight(a, s)
    [] a.field = "votingResultMeta" -> getVotingResultMeta(a, s)
    [] a.field = "mostRecentTPS" -> getTPS(a, s)
    [] a.field = "numberOfActions" -> getNumberOfActions(a, s)
    [] a.field = "totalTransferredTokens" -> gettotalTransferredTokens(a, s)
    [] a.field = "supplies" -> getTotalAndTotalCirculatingSupply(a, s)

Delegate(a, s) ==
  IF a.args.delegateName \in Malformed THEN {Failure}
  ELSE CASE a.field = "reward" -> getRewards(a, s)
         [] a.field = "productivity" -> getProductivity(a, s)
         [] a.field = "bookkeeping" -> getBookkeeping(a, s)
         [] a.field = "bucketInfo" -> getBucketInfo(a, s)
         [] a.field = "staking" -> getStaking(a, s)
         [] a.field = "probationHistoricalRate" -> probationHistoricalRate(a, s)

Voting(a, s) ==
  CASE a.field = "candidateInfo" -> getCandidateList(a, s)
    [] a.field = "votingMeta" -> getVotingMeta(a, s)
    [] a.field = "rewardSources" -> getRewardSources(a, s)

Xrc20(a, s) ==
  IF BadPagination(a) THEN {Failure}
  ELSE CASE a.field = "byContractAddress" -> getXrcByContractAddress(a, s)
         [] a.field = "byAddress" -> getXrcByAddress(a, s)
         [] a.field = "byPage" -> getXrcByPage(a, s)
         [] a.field = "xrc20Addresses" -> getXrcAddresses(a, s)
         [] a.field = "tokenHolderAddresses" -> xrcTokenHolderAddresses(a, s)
         [] a.field = "byContractAndAddress" -> getXrcByContractAndAddress(a, s)

Hermes2(a, s) ==
  IF BadPagination(a) THEN {Failure}
  ELSE CASE a.field = "byDelegate" -> getHermes2ByDelegate(a, s)
         [] a.field = "byVoter" -> getHermes2ByVoter(a, s)
         [] a.field = "hermesMeta" -> getHermes2HermesMeta(a, s)

Resolve(a, s) ==
  CASE a.of = "account" -> Account(a, s)
    [] a.of = "action" -> Action(a, s)
    [] a.of = "chain" -> Chain(a, s)
    [] a.of = "delegate" -> Delegate(a, s)
    [] a.of = "voting" -> Voting(a, s)
    [] a.of = "xrc20" -> Xrc20(a, s)
    [] a.of = "hermes2" -> Hermes2(a, s)
    [] a.of = "hermes" -> HermesBookkeeping(a, s)
    [] a.of = "hermesAverageStats" -> HermesAverageStats(a, s)
    [] a.of = "topHolders" -> IF BadPagination(a) THEN {Failure} ELSE TopHolders(a, s)
    [] a.of = "bucketsByVoter" -> IF BadPagination(a) THEN {Failure} ELSE BucketsByVoter(a, s)
    [] a.of = "bucketsByCandidate" -> IF BadPagination(a) THEN {Failure} ELSE BucketsByCandidate(a, s)

(* The roots whose resolvers do all themselves. *)
Direct == {"hermes", "hermesAverageStats", "topHolders", "bucketsByVoter", "bucketsByCandidate"}

(* The queries of other modules' tables. *)
AboutVotes(a, s) ==
  \/ a.of \in {"delegate", "voting"} \cup (Direct \ {"topHolders"})
  \/ a.field \in {"alias", "operatorAddress", "votingResultMeta"}
  \/ a.field = "byDelegate" /\ RatioNext(a, s)

Decodes(a) == a.field \in {"alias", "rewardSources", "hermes", "hermesAverageStats"}

(* The fields one goroutine is for.  Chain looks for a                     *)
(* totalCirculatingSupplyNoRewardPoo, so that asking for                   *)
(* totalCirculatingSupplyNoRewardPool alone starts none.                   *)
Supplies == {"totalSupply", "totalCirculatingSupply", "totalCirculatingSupplyNoRewardPool"}

Tips == {"mostRecentEpoch", "mostRecentBlockHeight"}

Written(name) == IF name \in Supplies THEN "supplies" ELSE IF name \in Tips THEN "tip" ELSE name

LaunchedForTotal(names) ==
  (names \ (Supplies \cup Tips)) \cup (IF "totalSupply" \in names THEN {"supplies"} ELSE {})

Launched(names) ==
  (names \ (Supplies \cup Tips))
    \cup (IF names \cap {"totalSupply", "totalCirculatingSupply"} # {} THEN {"supplies"} ELSE {})

HasNoFields(root, name) == root.name \in Direct \/ name = "supplies"

AskArgs(doc, root, name) ==
  IF HasNoFields(root, name) THEN MeantArgs(doc.variables, root)
  ELSE Joined(parseFieldArguments(doc.variables, root, name), MeantArgs(doc.variables, root))

Ask(doc, i, name) ==
  LET root == doc.roots[i]
  IN  [ root |-> i, of |-> root.name, field |-> name, args |-> AskArgs(doc, root, name),
        sub |-> IF HasNoFields(root, name) THEN {} ELSE haveField(root, name) ]

AsksOf(doc, i) ==
  LET root == doc.roots[i]
  IN  {Ask(doc, i, n) : n \in IF root.name \in Direct THEN {root.name} ELSE Launched(CollectAllFields(root.sub))}

Asks(doc) == UNION {AsksOf(doc, i) : i \in DOMAIN doc.roots}

ChainRoots(doc) == {i \in DOMAIN doc.roots : doc.roots[i].name = "chain"}

-------------------------------------------------------------------------------
Init ==
  /\ ViewsInit
  /\ blocks = <<>>
  /\ tables = <<InitBalances(Genesis)>>
  /\ bucketTable \in BOOLEAN
  /\ request = None /\ pending = {} /\ seen = <<>> /\ response = <<>> /\ failed = {}
  /\ walk = <<>>

(* A block is indexed and committed. *)
PutBlock ==
  /\ CommitBlock
  /\ Cardinality(visible') <= MaxViews
  /\ \E b \in Candidates[height + 1] :
       /\ CanHandle(b, bucketTable)
       /\ blocks' = Append(blocks, b)
       /\ tables' = Append(tables, HandleBlock(T(height), b, Buckets[GetEpochNumber(b.height)]))
  /\ UNCHANGED <<bucketTable, request, pending, seen, response, failed, walk>>

ForgetView ==
  /\ Forget
  /\ UNCHANGED <<blocks, tables, bucketTable, request, pending, seen, response, failed, walk>>

(* The roots of a document, worked on concurrently, and below each a       *)
(* goroutine for each field; Chain looks for the last block first.         *)
Begin(doc) ==
  LET chains == ChainRoots(doc)
  IN  /\ request' = doc
      /\ pending' = {a \in Asks(doc) : a.root \notin chains} \cup {Tip(i) : i \in chains}
      /\ seen' = [a \in Asks(doc) \cup {Tip(i) : i \in chains} |-> <<>>]
      /\ response' = <<>>
      /\ failed' = {}

Query(doc) ==
  /\ request = None
  /\ AcceptedDocument(doc)
  /\ Begin(doc)
  /\ UNCHANGED <<index, walk>>

(* The tables nobody may have made. *)
NeedsBuckets(a) == a.of = "action" /\ a.field \in {"byVoter", "byBucketIndex"}

(* A query on some connection; it waits for nothing else in the request. *)
Select(a) ==
  /\ a \in pending
  /\ Resolve(a, seen[a]) = {More}
  /\ NeedsBuckets(a) => bucketTable
  /\ \E v \in IF AboutVotes(a, seen[a]) THEN {Some, Absent} \cup (IF Decodes(a) THEN {Odd} ELSE {}) ELSE visible :
       seen' = [seen EXCEPT ![a] = Append(@, v)]
  /\ UNCHANGED <<index, request, pending, response, failed, walk>>

(* A connection breaks, at most once in a request (a bound), or the table  *)
(* is not there.                                                           *)
FailSelect(a) ==
  /\ a \in pending
  /\ Resolve(a, seen[a]) = {More}
  /\ (NeedsBuckets(a) /\ ~bucketTable) \/ \A b \in DOMAIN seen : Broken \notin ToSet(seen[b])
  /\ seen' = [seen EXCEPT ![a] = Append(@, Broken)]
  /\ UNCHANGED <<index, request, pending, response, failed, walk>>

Updated(f, x, y) == [z \in DOMAIN f \cup {x} |-> IF z = x THEN y ELSE f[z]]

(* A goroutine returns.  An error (or a panic in the root's resolver) is   *)
(* the answer to the root, but for the other goroutines to be waited for.  *)
Return(a) ==
  /\ a \in pending
  /\ \E o \in Resolve(a, seen[a]) \ {More} :
       IF o = Failure
       THEN /\ failed' = failed \cup {a.root}
            /\ pending' = pending \ {a}
            /\ UNCHANGED response
       ELSE /\ response' = IF o = Silence THEN response ELSE Updated(response, <<a.root, o.to>>, o.value)
            /\ pending' = (pending \ {a}) \cup (IF a = Tip(a.root) THEN AsksOf(request, a.root) ELSE {})
            /\ UNCHANGED failed
  /\ UNCHANGED <<index, request, seen, walk>>

Answering == request # None /\ pending = {}

Got(a) == response[<<a.root, a.field>>]

(* A root that must not be null takes the whole answer with it. *)
DataIsNull == \E i \in failed : ~QueryType[request.roots[i].name].null

(* A client that has got a full page of a list that is all it has asked    *)
(* for, the first one or one it has turned to, asks for the next.          *)
NextPage ==
  /\ Answering /\ failed = {}
  /\ \E a \in Asks(request), doc \in Forms :
       /\ Asks(request) = {a}
       /\ a.of = "action" /\ a.field \in {"byAddress", "byType"} /\ "pagination" \in DOMAIN a.args
       /\ {"skip", "first"} \subseteq DOMAIN a.args.pagination
       /\ walk = <<>> => Page(a).skip = 0
       /\ Cardinality(Got(a).rows) = Page(a).first
       /\ AcceptedDocument(doc)
       /\ Asks(doc) = {[a EXCEPT !.args.pagination.skip = @ + Page(a).first]}
       /\ Begin(doc)
       /\ walk' = Append(walk, [page |-> Page(a), seen |-> seen[a], rows |-> Got(a).rows])
  /\ UNCHANGED index

(* A client that wants no more. *)
Leave ==
  /\ Answering
  /\ request' = None /\ seen' = <<>> /\ response' = <<>> /\ failed' = {} /\ walk' = <<>>
  /\ UNCHANGED <<index, pending>>

Next ==
  \/ PutBlock
  \/ ForgetView
  \/ \E doc \in Forms : Query(doc)
  \/ \E a \in pending : Select(a) \/ FailSelect(a) \/ Return(a)
  \/ NextPage
  \/ Leave

Spec == Init /\ [][Next]_vars

-------------------------------------------------------------------------------
(* The asks that have an answer of their own when a request comes back:    *)
(* that there are no actions of an address may mean a bucket.              *)
Overwritten(a) ==
  /\ a.of = "action" /\ a.field = "byAddress" /\ \E b \in AsksOf(request, a.root) : b.field = "byBucketIndex"
  /\ ~Got(a).exist

Answered ==
  IF ~Answering \/ DataIsNull THEN {}
  ELSE {a \in Asks(request) : a.root \notin failed /\ <<a.root, a.field>> \in DOMAIN response /\ ~Overwritten(a)}

Lists(a) ==
  \/ a.of = "action" /\ a.field \in {"byType", "byAddress", "byAddressAndType", "byBucketIndex", "byVoter"}
  \/ a.of = "xrc20" /\ a.field \in {"byContractAddress", "byAddress", "byContractAndAddress", "byPage"}

(* What xrc721 is asked for is read from tables of its own, as what xrc20  *)
(* is asked for is.                                                        *)
ASSUME FormsAssumption ==
  None \notin Forms /\ \A doc \in Forms : \A i \in DOMAIN doc.roots : doc.roots[i].name # "xrc721"

(* The actions of the chain up to v, and those a list is about.            *)
ChainActions(v) == UNION {{<<h, act>> : act \in blocks[h].actions} : h \in 1 .. v}

(* The buckets that are an owner's: nobody has come to own them later.  (An *)
(* owner who gets a bucket back is not told; see NewVersionListed of       *)
(* StakingVotes.)                                                          *)
SeenBy(k) == UNION {Buckets[j] : j \in 1 .. k}

OwnedAt(v, owner) ==
  LET last == GetEpochNumber(v)
  IN  {b.index : b \in {c \in SeenBy(last) :
         /\ c.owner = owner
         /\ \E k \in 1 .. last :
              /\ c \in SeenBy(k) \ SeenBy(k - 1)
              /\ \A d \in SeenBy(last) : d.index = c.index => d \in SeenBy(k)}}

Involves(x, address) == address \in {x.from, x.to}

AboutAction(a, act, v) ==
  CASE a.field = "byType" -> act.type = a.args.type
    [] a.field = "byAddress" -> Involves(act, a.args.address)
    [] a.field = "byAddressAndType" -> Involves(act, a.args.address) /\ act.type = a.args.type
    [] a.field = "byBucketIndex" -> act.bucket = a.args.bucketIndex
    [] a.field = "byVoter" -> act.bucket \in OwnedAt(v, a.args.voter)

AboutToken(a, token) ==
  CASE a.field = "byContractAddress" -> token.contract = a.args.address
    [] a.field = "byAddress" -> Involves(token, a.args.address)
    [] a.field = "byContractAndAddress" -> token.contract = a.args.contract /\ Involves(token, a.args.address)
    [] a.field = "byPage" -> TRUE

Expected(a, v) ==
  IF a.of = "action" THEN {p \in ChainActions(v) : AboutAction(a, p[2], v)}
  ELSE IF a.of = "xrc20" THEN {p \in ChainActions(v) : p[2].token # NoToken /\ AboutToken(a, p[2].token)}
  ELSE ChainActions(v)

Least(m, n) == IF m < n THEN m ELSE n

(* The views the rows of an answer, and its count, come from. *)
RowsView(a, s) == IF a.field = "byType" THEN s[1] ELSE s[2]
CountView(a, s) == IF a.field = "byType" THEN s[2] ELSE s[1]

(* However many blocks come in while an answer is made, its count is that  *)
(* of the actions the field is about which the chain had when they were    *)
(* counted, and its rows are as many as the page can have of the chain     *)
(* they were read from; the number of actions is that of the epochs asked  *)
(* for, or of those up to the last that the root had read of, whatever     *)
(* view it is counted in.  (The count that comes with byDates is one of    *)
(* blocks.)                                                                *)
AnswersTellOfTheChain ==
  \A a \in Answered :
    /\ Lists(a) =>
         LET page == Page(a)
             all == Cardinality(Expected(a, RowsView(a, seen[a])))
         IN  /\ Got(a).exist => Got(a).count = Cardinality(Expected(a, CountView(a, seen[a])))
             /\ Cardinality(Got(a).rows) = IF page.skip >= all THEN 0 ELSE Least(page.first, all - page.skip)
    /\ a.field = "numberOfActions" /\ Got(a).exist =>
         LET range == RangeAsked(a, GetEpochNumber(seen[Tip(a.root)][2]))
             epoch(p) == GetEpochNumber(p[1])
         IN  Got(a).count =
               Cardinality({p \in ChainActions(seen[a][3]) : range.startEpoch <= epoch(p) /\ epoch(p) <= Ending(range)})

(* If views are taken in order, the count that follows a list covers it: a *)
(* client never sees a page that lies beyond the count.  (A count that     *)
(* precedes its list may be smaller.)                                      *)
CountCoversPage ==
  \A a \in Answered :
    a.field \in {"byType", "tokenHolderAddresses"} /\ Got(a).exist /\ seen[a][1] <= seen[a][2] =>
      Page(a).skip + Cardinality(Got(a).rows) <= Got(a).count

(* A client that turns the pages of a list while blocks come in may see a  *)
(* row twice, but it misses none that was there when it began and is not   *)
(* older than what it has come to, provided that no page is read on a      *)
(* connection that remembers an older block than the page before, and that *)
(* there are no two rows of one block.                                     *)
PagesLeaveNoGap ==
  \A a \in Answered :
    walk # <<>> =>
      LET last == Len(walk) + 1
          at(i) == RowsView(a, IF i = last THEN seen[a] ELSE walk[i].seen)
          rows(i) == IF i = last THEN Got(a).rows ELSE walk[i].rows
          read == {x.hash : x \in UNION {rows(i) : i \in 1 .. last}}
      IN  /\ \A i \in 1 .. last - 1 : at(i) <= at(i + 1)
          /\ \A p, q \in Expected(a, at(last)) : p[1] = q[1] => p = q
          => \A p \in Expected(a, at(1)) :
               (\E x \in rows(last) : x.height <= p[1]) => p \in read

(* A root that nothing was wrong with has every field it was asked for,    *)
(* also when another root has failed, and even if that one takes the whole *)
(* answer with it; but for an offset that no action of byAddressAndType is *)
(* beyond, a bucket without actions, which is told in another field, and   *)
(* the supply that is asked for under a name that Chain does not look for. *)
NoneBeyond(a) == Page(a).skip >= Cardinality(Expected(a, seen[a][1]))

FieldsWritten ==
  Answering =>
    \A i \in DOMAIN request.roots \ failed :
      LET root == request.roots[i]
          names == IF root.name \in Direct THEN {root.name} ELSE CollectAllFields(root.sub)
      IN  \A n \in names :
            \/ <<i, Written(n)>> \in DOMAIN response
            \/ n = "byBucketIndex" /\ <<i, "byAddress">> \in DOMAIN response
            \/ n = "byAddressAndType" /\ NoneBeyond(Ask(request, i, n))
            \/ n = "totalCirculatingSupplyNoRewardPool" /\ names \cap Supplies = {n}

(* The resolvers look for the arguments of a field themselves, in a        *)
(* document that may use variables for them.  What they find is what the   *)
(* document means, in a root that asks for the field once, and for a list  *)
(* below it once, but for ranges of epochs and for the pages of lists of   *)
(* token transfers; and if the document has variables at all, what is      *)
(* written out in a page is lost, and a text that is the name of a         *)
(* variable is taken for it.                                               *)
WrittenOut(v) == v.kind = "object" /\ \E n \in DOMAIN v.children : v.children[n].kind = "literal"

Heeded(args, sel) ==
  LET variables == request.variables
  IN  \A n \in DOMAIN sel.args :
        \/ n \in DOMAIN args /\ args[n] = Meant(variables, sel.args[n])
        \/ /\ DOMAIN variables # {}
           /\ WrittenOut(sel.args[n]) \/ (sel.args[n].kind = "literal" /\ sel.args[n].raw \in DOMAIN variables)

Once(sels, name) == {i \in DOMAIN sels : Named(sels, name) = {i}}

ArgumentsHeeded ==
  request # None =>
    \A a \in {x \in Asks(request) : x.of # "chain"} :
      \A i \in Once(request.roots[a.root].sub, a.field) :
        LET field == request.roots[a.root].sub[i]
        IN  /\ Heeded(a.args, field)
            /\ a.of # "xrc20" \/ a.field = "tokenHolderAddresses" =>
                 \A j \in DOMAIN field.sub : j \in Once(field.sub, field.sub[j].name) => Heeded(a.args, field.sub[j])

(* What an account has earned by the end of an epoch that is over is what  *)
(* the blocks up to then moved to it less what they moved from it, those   *)
(* apart whose log could not be read; what all have earned is nothing, so  *)
(* that what came out of Nobody is the supply of all the others.           *)
MovedUpTo(e) ==
  UNION {{<<i, x>> : x \in blocks[i].log} : i \in {j \in 1 .. height : blocks[j].readable /\ GetEpochNumber(j) <= e}}

AmountOf(moves) == SumFunction([p \in moves |-> p[2].amount])

IncomeAgrees ==
  \A e \in 1 .. GetEpochNumber(height) - 1 :
    LET moved == MovedUpTo(e)
        parties == {p[2].from : p \in moved} \cup {p[2].to : p \in moved}
        incomes == {x \in T(height).account_income : x.epoch <= e}
    IN  /\ \A a \in parties :
             IncomeOf(T(height), a, e) =
               AmountOf({p \in moved : p[2].to = a}) - AmountOf({p \in moved : p[2].from = a})
        /\ SumFunction([x \in incomes |-> x.income]) = 0

(* A payment of Hermes is one delegate's and counted once, in the totals   *)
(* and in the list of the voter, however many Distribute events an action  *)
(* has: it is all the contracts have paid out in the actions they did      *)
(* distribute in.                                                          *)
PaymentsCountedOnce ==
  LET last == GetEpochNumber(height)
      paid == {p \in MovedUpTo(last) :
                 /\ p[2].from \in MultiSend
                 /\ \E a \in blocks[p[1]].actions : a = p[2].act /\ a.to = Hermes /\ a.ok /\ a.distributes # <<>>}
      voters == {p[2].to : p \in paid}
  IN  /\ GetHermes2Meta(T(height), 1, last).total = AmountOf(paid)
      /\ \A v \in voters :
           Cardinality(GetHermes2ByVoter(T(height), <<1, last, v>>)) = Cardinality({p \in paid : p[2].to = v})

===============================================================================
