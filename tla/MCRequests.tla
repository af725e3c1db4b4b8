------------------------------- MODULE MCRequests -------------------------------
(***************************************************************************)
(* Three blocks in two epochs, each one of two, and requests for every     *)
(* field.                                                                  *)
(***************************************************************************)
EXTENDS Requests

CONSTANTS a1, a2, a3, tok, del1, del2, bad, v1, v2

Act(type, from, to) ==
  [ type |-> type, from |-> from, to |-> to, ok |-> TRUE, bucket |-> NoBucket,
    distributes |-> <<>>, token |-> NoToken ]

Grant == Act("grantReward", a3, Nobody)
Transfer == Act("transfer", a1, a2)
Burn == Act("transfer", a1, ZeroAddress)
Create == [Act("stakeCreate", a2, Nobody) EXCEPT !.bucket = 1]
Distribute ==
  [Act("execution", a3, Hermes) EXCEPT
     !.distributes = <<del1, del2>>, !.token = [contract |-> tok, from |-> a1, to |-> a2]]

Move(act, type, from, to, amount) == [act |-> act, type |-> type, from |-> from, to |-> to, amount |-> amount]

B(h, actions, log) == [height |-> h, actions |-> actions, log |-> log, readable |-> TRUE]

TransferBlock(h) == B(h, {Transfer}, {Move(Transfer, "transfer", a1, a2, 1)})
BurnBlock(h) == B(h, {Burn, Grant}, {Move(Burn, "transfer", a1, ZeroAddress, 2), Move(Grant, "grantReward", Nobody, a3, 3)})
StakeBlock(h) == B(h, {Create, Transfer}, {Move(Create, "stakeCreate", a2, Nobody, 4)})
HermesBlock(h) ==
  B(h, {Distribute}, {Move(Distribute, "execution", "multisend", a1, 2), Move(Distribute, "execution", "multisend", a2, 3)})

MCCandidates ==
  << {TransferBlock(1), HermesBlock(1)},
     {StakeBlock(2), [HermesBlock(2) EXCEPT !.readable = FALSE]},
     {BurnBlock(3)} >>

MCGenesis == [a \in {a1} |-> 9]

Bucket(owner) == [index |-> 1, owner |-> owner]
MCBuckets == [e \in 0 .. 2 |-> CASE e = 0 -> {} [] e = 1 -> {Bucket(a2)} [] e = 2 -> {Bucket(a1)}]

(* Documents. *)
Leaf(name) == Sel(name, NoArgs, <<>>)
Leaves(names) == [i \in DOMAIN names |-> Leaf(names[i])]
Literals(args) == [n \in DOMAIN args |-> Lit(args[n])]

P(skip, first) == "pagination" :> Obj([skip |-> Lit(skip), first |-> Lit(first)])
Epochs2(first, count) == [startEpoch |-> Lit(first), epochCount |-> Lit(count)]

Doc(variables, roots) == [variables |-> variables, roots |-> roots]
One(root, args, sub) == Doc(<<>>, <<Sel(root, args, sub)>>)

(* A field with a list below it, which may be paginated. *)
List(field, args, list, page) == Sel(field, args, <<Sel(list, page, <<Leaf("actHash")>>), Leaf("count")>>)
Actions(field, args, page) == List(field, Literals(args), "actions", page)
Exists(field, args) == Sel(field, args, <<Leaf("exist")>>)

Addr(x) == "address" :> x
Transfers(field, args) == Sel(field, Literals(args), Leaves(<<"exist", "count">>))
XrcPage(n, page) == [numPerPage |-> n, page |-> page]
Addresses(field, args) == Sel(field, args, <<Leaf("addresses"), Leaf("count")>>)

ActionForms ==
  { One("action", NoArgs, <<Actions("byDates", [startDate |-> 1, endDate |-> 3], NoArgs)>>),
    One("action", NoArgs, <<Actions("byType", "type" :> "transfer", P(0, 1))>>),
    One("action", NoArgs, <<Actions("byType", "type" :> "transfer", P(0, 501))>>),
    One("action", NoArgs, <<Actions("byType", "type" :> "transferStake", P(0, 1))>>),
    One("action", NoArgs, <<Actions("byType", "type" :> "transfer", P(1, 1))>>),
    One("action", NoArgs, <<Actions("byType", "type" :> "transfer", P(2, 1))>>),
    One("action", NoArgs, <<Actions("byAddress", Addr(a1), P(0, 1))>>),
    One("action", NoArgs, <<Actions("byAddress", Addr(a1), P(1, 1))>>),
    One("action", NoArgs, <<Actions("byAddress", Addr(a1), P(2, 1))>>),
    One("action", NoArgs, <<Actions("byAddressAndType", Addr(a1) @@ "type" :> "transfer", P(1, 1))>>),
    One("action", NoArgs, <<Actions("byAddressAndType", Addr(a2) @@ "type" :> "execution", NoArgs)>>),
    One("action", NoArgs, <<Actions("byVoter", "voter" :> a1, NoArgs)>>),
    One("action", NoArgs, << Actions("byAddress", Addr(a2), NoArgs),
                             Actions("byBucketIndex", "bucketIndex" :> 1, P(0, 2)) >>),
    One("action", NoArgs, <<List("evmTransfersByAddress", Literals(Addr(a2)), "evmTransfers", NoArgs)>>),
    One("action", NoArgs, <<Sel("byHash", "actHash" :> Lit(<<1, Distribute>>),
                                <<Sel("evmTransfers", NoArgs, <<Leaf("quantity")>>)>>)>>) }

TokenForms ==
  { One("xrc20", NoArgs, <<Sel("byContractAddress", Literals(Addr(tok) @@ XrcPage(1, 1)),
                               <<Sel("xrc20", P(0, 5), <<Leaf("hash")>>), Leaf("count")>>)>>),
    One("xrc20", NoArgs, <<Transfers("byAddress", Addr(a2) @@ XrcPage(1, 0))>>),
    One("xrc20", NoArgs, <<Transfers("byContractAndAddress", "contract" :> tok @@ Addr(a1) @@ XrcPage(1, 2))>>),
    One("xrc20", NoArgs, <<Sel("byPage", P(0, 2), <<Leaf("count")>>)>>),
    One("xrc20", NoArgs, <<Addresses("xrc20Addresses", P(0, 1))>>),
    One("xrc20", NoArgs, <<Addresses("tokenHolderAddresses", "tokenAddress" :> Lit(tok))>>) }

AccountForms ==
  { One("account", NoArgs, <<Sel("activeAccounts", "count" :> Lit(2), <<>>)>>),
    One("account", NoArgs, <<Leaf("totalNumberOfHolders"), Exists("alias", "operatorAddress" :> Lit(a1))>>),
    One("account", NoArgs, <<Leaf("totalAccountSupply"), Exists("operatorAddress", "aliasName" :> Lit(bad))>>),
    Doc(<<>>, << Sel("topHolders", "endEpochNumber" :> Lit(1) @@ P(0, 2), <<Leaf("balance")>>),
                 Sel("account", NoArgs, <<Exists("operatorAddress", "aliasName" :> Lit(del1))>>) >>) }

ChainForms ==
  { One("chain", NoArgs, <<Sel("mostRecentTPS", "blockWindow" :> Lit(2), <<>>), Leaf("mostRecentEpoch")>>),
    One("chain", NoArgs, <<Exists("numberOfActions", NoArgs)>>),
    One("chain", NoArgs, <<Exists("numberOfActions", "pagination" :> Obj(Epochs2(2, 1)))>>),
    One("chain", NoArgs, <<Exists("numberOfActions", "pagination" :> Obj(Epochs2(1, -1)))>>),
    One("chain", NoArgs, <<Sel("totalTransferredTokens", "pagination" :> Obj(Epochs2(2, 1)), <<>>)>>),
    One("chain", NoArgs, <<Leaf("totalTransferredTokens")>>),
    One("chain", NoArgs, Leaves(<<"totalCirculatingSupply", "totalCirculatingSupplyNoRewardPool">>)),
    One("chain", NoArgs, <<Leaf("totalCirculatingSupplyNoRewardPool")>>),
    One("chain", NoArgs, <<Sel("votingResultMeta", NoArgs, <<Leaf("votedTokens")>>)>>) }

Of(name) == Epochs2(1, 1) @@ "delegateName" :> Lit(name)
Delegate1 == Of(del2)
Bookkept(percentage) == [percentage |-> Lit(percentage), includeFoundationBonus |-> Lit(TRUE)]
Hermes1 == Epochs2(1, 1) @@ "rewardAddress" :> Lit(a1)

DelegateForms ==
  { One("delegate", Delegate1, <<Exists("reward", NoArgs), Exists("staking", NoArgs)>>),
    One("delegate", Delegate1, <<Exists("productivity", NoArgs), Leaf("probationHistoricalRate")>>),
    One("delegate", Of(bad), <<Exists("staking", NoArgs)>>),
    One("delegate", Delegate1, <<Exists("bookkeeping", Bookkept(101))>>),
    One("delegate", Delegate1,
        << Sel("bookkeeping", Bookkept(100), <<Sel("rewardDistribution", P(2, 1), <<Leaf("amount")>>)>>),
           Sel("bucketInfo", NoArgs, <<Sel("bucketInfoList", P(1, 1), <<Leaf("count")>>)>>) >>),
    One("voting", Epochs2(1, 1),
        << Sel("candidateInfo", NoArgs, <<Leaf("epochNumber")>>), Exists("votingMeta", NoArgs),
           Exists("rewardSources", "voterIotexAddress" :> Lit(a2)) >>),
    Doc(<<>>, << Sel("hermes", Hermes1 @@ "waiverThreshold" :> Lit(50), <<Leaf("exist")>>),
                 Sel("hermesAverageStats", Hermes1, <<Leaf("exist")>>) >>),
    Doc(<<>>, << Sel("bucketsByVoter", Addr(Lit(a1)), <<Leaf("votes")>>),
                 Sel("hermesAverageStats", Hermes1, <<Leaf("exist")>>) >>),
    One("bucketsByVoter", Addr(Lit(bad)) @@ P(0, 1), <<Leaf("votes")>>),
    One("bucketsByVoter", Addr(Lit(a1)) @@ P(0, 1), <<Leaf("votes")>>),
    One("bucketsByCandidate", "name" :> Lit(del1) @@ P(0, 1), <<Leaf("votes")>>) }

HermesForms ==
  { One("hermes2", Epochs2(1, 1),
        <<Sel("byDelegate", "delegateName" :> Lit(del2),
              << Sel("voterInfoList", P(0, 1), <<Leaf("amount")>>),
                 Sel("distributionRatio", NoArgs, <<Leaf("epochNumber")>>), Leaf("count") >>)>>),
    One("hermes2", Epochs2(1, 1),
        <<Sel("byDelegate", "delegateName" :> Lit(bad), <<Sel("distributionRatio", NoArgs, <<Leaf("epochNumber")>>)>>)>>),
    One("hermes2", Epochs2(1, 2), <<Sel("byVoter", "voterAddress" :> Lit(a2),
                                        <<Sel("delegateInfoList", NoArgs, <<Leaf("amount")>>)>>)>>),
    One("hermes2", Epochs2(1, 2), <<Sel("byVoter", "voterAddress" :> Lit(a2), Leaves(<<"count", "exist">>))>>),
    One("hermes2", Epochs2(1, 2), <<Exists("hermesMeta", NoArgs)>>) }

(* With variables: the arguments, a page, the parts of a page, a page that *)
(* is written out, a name that is that of a variable, a range of epochs.   *)
V(kind, value) == [kind |-> kind, value |-> value]
With(variables, root, sub) == Doc(variables, <<Sel(root, NoArgs, sub)>>)

VariableForms ==
  { With(v1 :> V("String", a1) @@ v2 :> V("Pagination", [skip |-> 0, first |-> 1]), "action",
         <<List("byAddress", Addr(Var(v1)), "actions", "pagination" :> Var(v2))>>),
    With(v1 :> V("Int", 1) @@ v2 :> V("Int", 2), "action",
         <<List("byType", "type" :> Lit("transfer"), "actions",
                "pagination" :> Obj([skip |-> Var(v1), first |-> Var(v2)]))>>),
    With(v1 :> V("String", a1), "action", <<List("byAddress", Addr(Var(v1)), "actions", P(0, 1))>>),
    With(a1 :> V("String", a2), "action", <<List("byAddress", Addr(Lit(a1)), "actions", NoArgs)>>),
    With(v1 :> V("EpochRange", [startEpoch |-> 1, epochCount |-> 1]), "chain",
         <<Exists("numberOfActions", "pagination" :> Var(v1))>>),
    (* Twice the same field, or the same list, under other aliases. *)
    With(<<>>, "action", <<Actions("byAddress", Addr(a2), P(0, 1)), Actions("byAddress", Addr(a1), P(0, 2))>>),
    With(<<>>, "action", <<Sel("byAddress", "address" :> Lit(a1),
                               <<Sel("actions", P(0, 1), <<Leaf("actHash")>>), Sel("actions", P(1, 1), <<Leaf("actHash")>>)>>)>>) }

MCForms ==
  UNION {ActionForms, TokenForms, AccountForms, ChainForms, DelegateForms, HermesForms, VariableForms}

ASSUME FormsAccepted == \A doc \in MCForms : AcceptedDocument(doc)

===============================================================================
