--------------------------------- MODULE Tables ---------------------------------
(***************************************************************************)
(* The rows a block leaves behind: what the handlers of the blocks,        *)
(* actions and accounts protocols write in its transaction                 *)
(* (indexprotocol/blocks, indexprotocol/actions, indexprotocol/accounts).  *)
(*                                                                         *)
(* A block is [height, actions, log, readable]: its actions, the transfers *)
(* in the transaction log the node keeps of it, and whether the node       *)
(* answers when asked for that log.  An action is                          *)
(* [type, from, to, ok, bucket, distributes, token]: bucket is the one its *)
(* staking log names, distributes the delegates of its Distribute events   *)
(* in the order of its logs, token what a token transfer in it is of.      *)
(* An action's hash is its height and itself.                              *)
(***************************************************************************)
EXTENDS EpochCtx, FiniteSets, SequencesExt

CONSTANTS
  Nobody,       \* the address '' of whoever is paid or pays outside of accounts
  ZeroAddress,  \* the address of all zeros, where coins are burned
  NoBucket,     \* no staking log
  NoToken,      \* no token transfer
  Hermes,       \* HermesContractAddress
  MultiSend     \* MultiSendContractAddressList

-------------------------------------------------------------------------------
EmptyTables ==
  [ block_history |-> {}, action_history |-> {}, bucket_actions |-> {},
    hermes_contract |-> {}, xrc_history |-> {}, xrc_holders |-> {},
    balance_history |-> {}, account_income |-> {}, staking_bucket |-> {} ]

Hash(b, act) == <<b.height, act>>

(* Accounts' Initialize: the balances of genesis, as of epoch 0.           *)
InitBalances(balances) ==
  [EmptyTables EXCEPT !.balance_history =
     {[epoch |-> 0, height |-> 0, hash |-> <<0>>, type |-> "genesis",
       from |-> Nobody, to |-> a, amount |-> balances[a]] : a \in DOMAIN balances}]

(* The types MostRecentTPS reads; staking has columns too. *)
TpsTypes ==
  {"transfer", "execution", "depositToRewardingFund", "claimFromRewardingFund", "grantReward", "putPollResult"}

(* A column for each type says how many of a block's actions are of it.    *)
updateBlockHistory(t, b) ==
  t.block_history \cup
    {[ height |-> b.height, epoch |-> GetEpochNumber(b.height), actions |-> Cardinality(b.actions),
       tps |-> Cardinality({a \in b.actions : a.type \in TpsTypes}) ]}

updateActionHistory(t, b) ==
  t.action_history \cup
    {[hash |-> Hash(b, a), height |-> b.height, type |-> a.type, from |-> a.from, to |-> a.to]
       : a \in b.actions}

Staking(b) == {a \in b.actions : a.bucket # NoBucket}

updateBucketActions(t, b) ==
  t.bucket_actions \cup {[hash |-> Hash(b, a), bucket |-> a.bucket] : a \in Staking(b)}

Distributions(b) == {a \in b.actions : a.to = Hermes /\ a.ok /\ a.distributes # <<>>}

HermesRow(b, a, delegate) ==
  [hash |-> Hash(b, a), epoch |-> GetEpochNumber(b.height), height |-> b.height, delegate |-> delegate]

AllDistributeEvents(t, b) ==
  t.hermes_contract \cup
    UNION {{HermesRow(b, a, a.distributes[i]) : i \in DOMAIN a.distributes} : a \in Distributions(b)}

(* The last Distribute event of each successful call of the Hermes         *)
(* contract, and no other.                                                 *)
updateHermesContract(t, b) ==
  t.hermes_contract \cup {HermesRow(b, a, Last(a.distributes)) : a \in Distributions(b)}

Tokens(b) == {a \in b.actions : a.token # NoToken}

(* What Xrc says in detail, for one token transfer in an action.           *)
updateXrc20History(t, b) ==
  t.xrc_history \cup
    {[hash |-> Hash(b, a), height |-> b.height, contract |-> a.token.contract,
      from |-> a.token.from, to |-> a.token.to] : a \in Tokens(b)}

Holdings(b) ==
  UNION {{<<a.token.contract, a.token.from>>, <<a.token.contract, a.token.to>>} : a \in Tokens(b)}

(* A pair of token and holder has one row for all time. *)
updateXrc20Holders(t, b) ==
  t.xrc_holders \cup
    {[contract |-> p[1], holder |-> p[2], height |-> b.height]
       : p \in Holdings(b) \ {<<x.contract, x.holder>> : x \in t.xrc_holders}}

(* The transfers of a block, none if its log cannot be read: the error is  *)
(* dropped.                                                                *)
getTransactionLog(b) == IF b.readable THEN b.log ELSE {}

updateBalanceHistory(t, b) ==
  t.balance_history \cup
    {[epoch |-> GetEpochNumber(b.height), height |-> b.height, hash |-> Hash(b, x.act),
      type |-> x.type, from |-> x.from, to |-> x.to, amount |-> x.amount] : x \in getTransactionLog(b)}

Total(rows) == SumFunction([x \in rows |-> x.amount])

Inflow(t, e, a) == Total({x \in t.balance_history : x.epoch = e /\ x.to = a})
Outflow(t, e, a) == Total({x \in t.balance_history : x.epoch = e /\ x.from = a})

Received(t, e) == {x.to : x \in {y \in t.balance_history : y.epoch = e}}
Spent(t, e) == {x.from : x \in {y \in t.balance_history : y.epoch = e}}

IncomeOfReceivers(t, e) ==
  IF e = 0 THEN t.account_income
  ELSE t.account_income \cup
         {[epoch |-> e, address |-> a, income |-> Inflow(t, e, a) - Outflow(t, e, a)] : a \in Received(t, e)}

(* account_inflow and account_outflow, and account_income from both: a     *)
(* left join for whoever has received something, a right join for whoever  *)
(* has spent.                                                              *)
rebuildAccountIncomeTable(t, e) ==
  IF e = 0 THEN t.account_income
  ELSE t.account_income \cup
         {[epoch |-> e, address |-> a, income |-> Inflow(t, e, a) - Outflow(t, e, a)]
            : a \in Received(t, e) \cup Spent(t, e)}

(* The latest row of a bucket. *)
Current(t, index) ==
  {x \in t.staking_bucket :
     x.index = index /\ \A y \in t.staking_bucket : y.index = index => y.id <= x.id}

(* The buckets there are, read by the block that opens an epoch: a row for *)
(* each that never was like this before (INSERT IGNORE; StakingVotes says  *)
(* more).                                                                  *)
updateStakingResult(t, e, buckets) ==
  t.staking_bucket \cup
    {[index |-> b.index, owner |-> b.owner, id |-> e]
       : b \in {c \in buckets : \A x \in t.staking_bucket : x.index # c.index \/ x.owner # c.owner}}

(* An INSERT fails without a row (every block grants a reward, so it has   *)
(* an action), and so does one into bucket_actions if somebody has not     *)
(* made that table: CreateTables does not.                                 *)
CanHandle(b, bucketTable) == b.actions # {} /\ (Staking(b) # {} => bucketTable)

HandleBlock(t, b, buckets) ==
  LET e == GetEpochNumber(b.height)
      opens == IsEpochStart(b.height)
  IN  [ block_history |-> updateBlockHistory(t, b),
        action_history |-> updateActionHistory(t, b),
        bucket_actions |-> updateBucketActions(t, b),
        hermes_contract |-> updateHermesContract(t, b),
        xrc_history |-> updateXrc20History(t, b),
        xrc_holders |-> updateXrc20Holders(t, b),
        balance_history |-> updateBalanceHistory(t, b),
        account_income |-> IF opens THEN rebuildAccountIncomeTable(t, e - 1) ELSE t.account_income,
        staking_bucket |-> IF opens THEN updateStakingResult(t, e, buckets) ELSE t.staking_bucket ]

===============================================================================
