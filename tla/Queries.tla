-------------------------------- MODULE Queries --------------------------------
(***************************************************************************)
(* What is asked of the tables: the SELECTs of queryprotocol/actions,      *)
(* queryprotocol/chainmeta and queryprotocol/hermes2, each as a function   *)
(* of the tables t and of what is asked for.                               *)
(***************************************************************************)
EXTENDS Tables

CONSTANTS
  TotalBalance,  \* 10B + 2.7B less what nsv1 and bnfx hold
  LockAddress    \* the address whose coins do not circulate

-------------------------------------------------------------------------------
(* Pages.  A list is ordered by time, newest first, and rows of one block  *)
(* come in any order, another one each time.  (Unordered is a slip.)       *)
Unordered(rows, n) == kSubset(IF n < Cardinality(rows) THEN n ELSE Cardinality(rows), rows)

Newest(rows, n) ==
  {s \in kSubset(IF n < Cardinality(rows) THEN n ELSE Cardinality(rows), rows) :
     \A x \in s, y \in rows \ s : x.height >= y.height}

Limit(rows, skip, first) ==
  UNION {{b \ a : b \in {s \in Newest(rows, skip + first) : a \subseteq s}} : a \in Newest(rows, skip)}

-------------------------------------------------------------------------------
(* queryprotocol/actions: lists of actions, and how many there are. *)
GetActionsByDates(t, dates) ==
  {x \in t.action_history : dates[1] <= x.height /\ x.height <= dates[2]}

GetActionCountByDates(t, dates) ==
  Cardinality({x \in t.block_history : dates[1] <= x.height /\ x.height <= dates[2]})

GetActionsByType(t, type) == {x \in t.action_history : x.type = type}

GetActionCountByType(t, type) == Cardinality({x \in t.action_history : x.type = type})

GetActionDetailByHash(t, hash) == {x \in t.action_history : x.hash = hash}

EvmTransfersOf(t, hash) == {x \in t.balance_history : x.type = "execution" /\ x.hash = hash}

GetActionsByAddress(t, addr) == {x \in t.action_history : x.from = addr \/ x.to = addr}

GetActionCountByAddress(t, addr) ==
  Cardinality({x \in t.action_history : x.from = addr \/ x.to = addr})

(* Asked for as <<address, type>>. *)
GetActionsByAddressAndType(t, key) ==
  {x \in t.action_history : (x.from = key[1] \/ x.to = key[1]) /\ x.type = key[2]}

GetActionCountByAddressAndType(t, key) ==
  Cardinality({x \in t.action_history : (x.from = key[1] \/ x.to = key[1]) /\ x.type = key[2]})

(* Whose latest row says they are the voter's. *)
BucketsOfVoter(t, voter) ==
  {x.index : x \in {y \in t.staking_bucket : y \in Current(t, y.index) /\ y.owner = voter}}

GetBucketActionCountByVoter(t, voter) ==
  Cardinality({x \in t.bucket_actions : x.bucket \in BucketsOfVoter(t, voter)})

GetBucketActionsByVoter(t, voter) ==
  LET hashes == {x.hash : x \in {y \in t.bucket_actions : y.bucket \in BucketsOfVoter(t, voter)}}
  IN  {x \in t.action_history : x.hash \in hashes}

GetActionCountByBucketIndex(t, index) == Cardinality({x \in t.bucket_actions : x.bucket = index})

GetActionsByBucketIndex(t, index) ==
  {x \in t.action_history : \E y \in t.bucket_actions : y.bucket = index /\ y.hash = x.hash}

GetEvmTransferCount(t, addr) ==
  Cardinality({x \in t.balance_history : x.type = "execution" /\ (x.from = addr \/ x.to = addr)})

GetEvmTransferDetailListByAddress(t, addr) ==
  {x \in t.balance_history : x.type = "execution" /\ (x.from = addr \/ x.to = addr)}

-------------------------------------------------------------------------------
(* Tokens. *)
GetXrc20TransactionCount(t, contract) == Cardinality({x \in t.xrc_history : x.contract = contract})

GetXrc20(t, contract) == {x \in t.xrc_history : x.contract = contract}

(* A LIKE over the topics, which hold both addresses. *)
GetXrc20HistoryCount(t, addr) == Cardinality({x \in t.xrc_history : addr \in {x.from, x.to}})

GetXrc20ByAddress(t, addr) == {x \in t.xrc_history : addr \in {x.from, x.to}}

GetXrc20HistoryByContractCount(t, key) ==
  Cardinality({x \in t.xrc_history : x.contract = key[1] /\ key[2] \in {x.from, x.to}})

GetXrc20ByContractAndAddress(t, key) ==
  {x \in t.xrc_history : x.contract = key[1] /\ key[2] \in {x.from, x.to}}

GetXrc20Count(t) == Cardinality(t.xrc_history)

GetXrc20ByPage(t) == t.xrc_history

GetXrc20HolderCount(t, contract) == Cardinality({x \in t.xrc_holders : x.contract = contract})

GetXrc20Holders(t, contract) == {x \in t.xrc_holders : x.contract = contract}

GetXrc20AddressesCount(t) == Cardinality({x.contract : x \in t.xrc_history})

(* GROUP BY address, each with the time of its last transfer.              *)
GetXrc20Addresses(t) ==
  {[contract |-> c, height |-> Max({x.height : x \in {y \in t.xrc_history : y.contract = c}})]
     : c \in {x.contract : x \in t.xrc_history}}

-------------------------------------------------------------------------------
(* Accounts.  A SUM over no rows is NULL, which does not fit a string: the *)
(* query fails.                                                            *)
GetActiveAccount(t) == {[from |-> x.from, height |-> x.height] : x \in t.action_history}

IncomeOf(t, addr, last) ==
  SumFunction([x \in {y \in t.account_income : y.address = addr /\ y.epoch <= last} |-> x.income])

(* Ordered by balance, which takes the place of time. *)
GetTopHolders(t, last) ==
  {[address |-> a, height |-> IncomeOf(t, a, last)]
     : a \in {x.address : x \in {y \in t.account_income : y.epoch <= last}} \ {Nobody, ZeroAddress}}

GetTotalNumberOfHolders(t) == Cardinality({x.address : x \in t.account_income} \ {Nobody})

SupplyRows(t) == {x \in t.account_income : x.epoch # 0 /\ x.address = Nobody}

Magnitude(n) == IF n < 0 THEN 0 - n ELSE n

GetTotalAccountSupply(t) == Magnitude(SumFunction([x \in SupplyRows(t) |-> x.income]))

-------------------------------------------------------------------------------
(* Chain meta. *)
CurrentHeight(t) == Max({x.height : x \in t.block_history})
CurrentEpoch(t) == Max({x.epoch : x \in t.block_history})

BlocksOfEpochs(t, first, last) == {x \in t.block_history : first <= x.epoch /\ x.epoch <= last}

GetNumberOfActions(t, first, last) ==
  SumFunction([x \in BlocksOfEpochs(t, first, last) |-> x.actions])

GetTotalTransferredTokens(t, first, last) ==
  Total({x \in t.balance_history : first <= x.epoch /\ x.epoch <= last})

getBalanceSumByAddress(t, addr) ==
  SumFunction([x \in {y \in t.account_income : y.address = addr} |-> x.income])

GetTotalSupply(t) == TotalBalance - getBalanceSumByAddress(t, ZeroAddress)

(* The blocks whose actions MostRecentTPS divides by their time. *)
BlockWindow(t, tip, ranges) ==
  {x \in t.block_history : tip - (IF tip < ranges THEN tip ELSE ranges) + 1 <= x.height /\ x.height <= tip}

-------------------------------------------------------------------------------
(* Hermes: a payment from a MultiSend contract in an action that has a     *)
(* Distribute event, both of the epochs asked for.                         *)
Distributed(t, first, last) ==
  {p \in {x \in t.balance_history : x.from \in MultiSend} \X t.hermes_contract :
     /\ p[1].hash = p[2].hash
     /\ {p[1].epoch, p[2].epoch} \subseteq first .. last}

Amounts(pairs) == SumFunction([p \in pairs |-> p[1].amount])

Payments(pairs) ==
  {[to |-> p[1].to, delegate |-> p[2].delegate, amount |-> p[1].amount, hash |-> p[1].hash,
    height |-> p[2].height] : p \in pairs}

(* Asked for as <<first epoch, last epoch, name or address>>. *)
GetHermes2ByDelegate(t, key) == {p \in Distributed(t, key[1], key[2]) : p[2].delegate = key[3]}

GetHermes2ByVoter(t, key) == {p \in Distributed(t, key[1], key[2]) : p[1].to = key[3]}

GetHermes2Meta(t, first, last) ==
  LET pairs == Distributed(t, first, last)
  IN  [ delegates |-> Cardinality({p[2].delegate : p \in pairs}),
        recipients |-> Cardinality({p[1].to : p \in pairs}),
        total |-> Amounts(pairs) ]

===============================================================================
