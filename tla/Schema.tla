--------------------------------- MODULE Schema ---------------------------------
(***************************************************************************)
(* The types of the GraphQL schema as graphql/generated.go executes them:  *)
(* of each type its fields, of each field the type of what it is or of     *)
(* what it lists, whether it may be null, and its arguments.               *)
(*                                                                         *)
(* A field is read from the object a resolver has filled.  If it is null   *)
(* and must not be, so is the object it is in.  The objects that a list    *)
(* holds have no fields that may be null.                                  *)
(***************************************************************************)
EXTENDS Naturals, Sequences

-------------------------------------------------------------------------------
(* Fields and arguments. *)
Must(kind) == [kind |-> kind, optional |-> FALSE]
May(kind) == [kind |-> kind, optional |-> TRUE]

(* The arguments that are objects, and the numbers each is made of.        *)
PartsOf == [Pagination |-> {"skip", "first"}, EpochRange |-> {"startEpoch", "epochCount"}]
Inputs == DOMAIN PartsOf

Null(type, args) == [type |-> type, null |-> TRUE, args |-> args]
NonNull(type, args) == [type |-> type, null |-> FALSE, args |-> args]

NoArgs == <<>>

(* What f has, and what else g has.                                        *)
Joined(f, g) == [n \in DOMAIN f \cup DOMAIN g |-> IF n \in DOMAIN f THEN f[n] ELSE g[n]]

Scalar == NonNull("scalar", NoArgs)
Scalars(names) == [n \in names |-> Scalar]

Paged(type) == NonNull(type, [pagination |-> May("Pagination")])

Epochs == [startEpoch |-> Must("Int"), epochCount |-> Must("Int")]

-------------------------------------------------------------------------------
(* What a request may ask for. *)
QueryType ==
  [ account |-> Null("Account", NoArgs),
    chain |-> Null("Chain", NoArgs),
    delegate |-> Null("Delegate", Joined(Epochs, [delegateName |-> Must("String")])),
    voting |-> Null("Voting", Epochs),
    hermes |-> Null("Hermes", Joined(Epochs, [rewardAddress |-> Must("String"), waiverThreshold |-> Must("Int")])),
    hermesAverageStats |-> Null("AverageHermesStats", Joined(Epochs, [rewardAddress |-> Must("String")])),
    xrc20 |-> Null("Xrc20", NoArgs),
    xrc721 |-> Null("Xrc721", NoArgs),
    action |-> Null("Action", NoArgs),
    topHolders |-> NonNull("TopHolder", [endEpochNumber |-> Must("Int"), pagination |-> Must("Pagination")]),
    hermes2 |-> Null("Hermes2", Epochs),
    bucketsByVoter |-> NonNull("BucketInfo", [address |-> Must("String"), pagination |-> May("Pagination")]),
    bucketsByCandidate |-> NonNull("BucketInfo", [name |-> Must("String"), pagination |-> May("Pagination")]) ]

TopHolderType == Scalars({"address", "balance"})

-------------------------------------------------------------------------------
(* Accounts. *)
AccountType ==
  [ activeAccounts |-> Null("scalar", [count |-> Must("Int")]),
    alias |-> Null("Alias", [operatorAddress |-> Must("String")]),
    operatorAddress |-> Null("OperatorAddress", [aliasName |-> Must("String")]),
    totalNumberOfHolders |-> Scalar,
    totalAccountSupply |-> Scalar ]

AliasType == Scalars({"exist", "aliasName"})

OperatorAddressType == Scalars({"exist", "operatorAddress"})

-------------------------------------------------------------------------------
(* Actions. *)
ActionType ==
  [ byDates |-> Null("ActionList", [startDate |-> Must("Int"), endDate |-> Must("Int")]),
    byHash |-> Null("ActionDetail", [actHash |-> Must("String")]),
    byAddress |-> Null("ActionList", [address |-> Must("String")]),
    byAddressAndType |-> Null("ActionList", [address |-> Must("String"), type |-> Must("String")]),
    byBucketIndex |-> Null("ActionList", [bucketIndex |-> Must("Int")]),
    evmTransfersByAddress |-> Null("EvmTransferList", [address |-> Must("String")]),
    byType |-> Null("ActionList", [type |-> Must("String")]),
    byVoter |-> Null("ActionList", [voter |-> Must("String")]) ]

ActionListType == Joined(Scalars({"exist", "count"}), [actions |-> Paged("ActionInfo")])

ActionInfoType ==
  Scalars({"actHash", "blkHash", "timeStamp", "actType", "sender", "recipient", "amount", "gasFee"})

ActionDetailType == [actionInfo |-> Null("ActionInfo", NoArgs), evmTransfers |-> NonNull("EvmTransfer", NoArgs)]

EvmTransferType == Scalars({"from", "to", "quantity"})

EvmTransferListType == Joined(Scalars({"exist", "count"}), [evmTransfers |-> Paged("EvmTransferDetail")])

EvmTransferDetailType == Scalars({"from", "to", "quantity", "actHash", "blkHash", "timeStamp"})

-------------------------------------------------------------------------------
(* Tokens. *)
OfPage == [address |-> Must("String"), numPerPage |-> Must("Int"), page |-> Must("Int")]

Xrc20Type ==
  [ byContractAddress |-> Null("XrcList", OfPage),
    byAddress |-> Null("XrcList", OfPage),
    byPage |-> Null("XrcList", [pagination |-> Must("Pagination")]),
    xrc20Addresses |-> Null("XrcAddressList", [pagination |-> Must("Pagination")]),
    tokenHolderAddresses |-> Null("XrcHolderAddressList", [tokenAddress |-> Must("String")]),
    byContractAndAddress |-> Null("XrcList", Joined(OfPage, [contract |-> Must("String")])) ]

Xrc721Type ==
  [ byContractAddress |-> Null("XrcList", OfPage),
    byAddress |-> Null("XrcList", OfPage),
    byPage |-> Null("XrcList", [pagination |-> Must("Pagination")]),
    xrc721Addresses |-> Null("XrcAddressList", [pagination |-> Must("Pagination")]),
    tokenHolderAddresses |-> Null("XrcHolderAddressList", [tokenAddress |-> Must("String")]) ]

XrcListType ==
  Joined(Scalars({"exist", "count"}), [xrc20 |-> Paged("XrcInfo"), xrc721 |-> Paged("XrcInfo")])

XrcInfoType == Scalars({"contract", "hash", "timestamp", "from", "to", "quantity"})

XrcAddressListType == Joined(Scalars({"exist", "count"}), [addresses |-> Paged("scalar")])

XrcHolderAddressListType == Joined(Scalars({"count"}), [addresses |-> Paged("scalar")])

-------------------------------------------------------------------------------
(* The chain. *)
ChainType ==
  [ mostRecentEpoch |-> Scalar, mostRecentBlockHeight |-> Scalar,
    totalSupply |-> Scalar, totalCirculatingSupply |-> Scalar, totalCirculatingSupplyNoRewardPool |-> Scalar,
    votingResultMeta |-> Null("VotingResultMeta", NoArgs),
    mostRecentTPS |-> NonNull("scalar", [blockWindow |-> Must("Int")]),
    numberOfActions |-> Null("NumberOfActions", [pagination |-> May("EpochRange")]),
    totalTransferredTokens |-> NonNull("scalar", [pagination |-> May("EpochRange")]) ]

VotingResultMetaType == Scalars({"totalCandidates", "totalWeightedVotes", "votedTokens"})

NumberOfActionsType == Scalars({"exist", "count"})

-------------------------------------------------------------------------------
(* Delegates. *)
DelegateType ==
  [ reward |-> Null("Reward", NoArgs),
    productivity |-> Null("Productivity", NoArgs),
    bookkeeping |-> Null("Bookkeeping", [ percentage |-> Must("Int"), includeBlockReward |-> May("Boolean"),
                                          includeFoundationBonus |-> Must("Boolean") ]),
    bucketInfo |-> Null("BucketInfoOutput", NoArgs),
    staking |-> Null("StakingOutput", NoArgs),
    probationHistoricalRate |-> Scalar ]

RewardType == Scalars({"exist", "blockReward", "epochReward", "foundationBonus"})

ProductivityType == Scalars({"exist", "production", "expectedProduction"})

BookkeepingType == Joined(Scalars({"exist", "count"}), [rewardDistribution |-> Paged("RewardDistribution")])

RewardDistributionType == Scalars({"voterEthAddress", "voterIotexAddress", "amount"})

BucketInfoOutputType == Joined(Scalars({"exist"}), [bucketInfoList |-> Paged("BucketInfoList")])

BucketInfoListType == Joined(Scalars({"epochNumber", "count"}), [bucketInfo |-> NonNull("BucketInfo", NoArgs)])

BucketInfoType ==
  Scalars({"voterEthAddress", "voterIotexAddress", "isNative", "votes", "weightedVotes",
           "remainingDuration", "startTime", "decay"})

StakingOutputType == Joined(Scalars({"exist"}), [stakingInfo |-> NonNull("StakingInformation", NoArgs)])

StakingInformationType == Scalars({"epochNumber", "totalStaking", "selfStaking"})

-------------------------------------------------------------------------------
(* Votings. *)
VotingType ==
  [ candidateInfo |-> NonNull("CandidateInfoList", NoArgs),
    votingMeta |-> Null("VotingMeta", NoArgs),
    rewardSources |-> Null("RewardSources", [voterIotexAddress |-> Must("String")]) ]

CandidateInfoListType == Joined(Scalars({"epochNumber"}), [candidates |-> NonNull("CandidateInfo", NoArgs)])

CandidateInfoType ==
  Scalars({"name", "address", "totalWeightedVotes", "selfStakingTokens", "operatorAddress", "rewardAddress"})

VotingMetaType == Joined(Scalars({"exist"}), [candidateMeta |-> NonNull("CandidateMeta", NoArgs)])

CandidateMetaType ==
  Scalars({"epochNumber", "totalCandidates", "consensusDelegates", "totalWeightedVotes", "votedTokens"})

RewardSourcesType == Joined(Scalars({"exist"}), [delegateDistributions |-> NonNull("DelegateAmount", NoArgs)])

DelegateAmountType == Scalars({"delegateName", "amount"})

-------------------------------------------------------------------------------
(* Hermes. *)
HermesType == Joined(Scalars({"exist"}), [hermesDistribution |-> NonNull("HermesDistribution", NoArgs)])

HermesDistributionType ==
  Joined(Scalars({"delegateName", "stakingIotexAddress", "voterCount", "waiveServiceFee", "refund"}),
         [rewardDistribution |-> NonNull("RewardDistribution", NoArgs)])

AverageHermesStatsType == Joined(Scalars({"exist"}), [averagePerEpoch |-> NonNull("HermesAverage", NoArgs)])

HermesAverageType == Scalars({"delegateName", "rewardDistribution", "totalWeightedVotes"})

Hermes2Type ==
  [ byDelegate |-> Null("ByDelegateResponse", [delegateName |-> Must("String")]),
    byVoter |-> Null("ByVoterResponse", [voterAddress |-> Must("String")]),
    hermesMeta |-> Null("HermesMeta", NoArgs) ]

ByDelegateResponseType ==
  Joined(Scalars({"exist", "count", "totalRewardsDistributed"}),
         [voterInfoList |-> Paged("VoterInfo"), distributionRatio |-> NonNull("Ratio", NoArgs)])

VoterInfoType == Scalars({"voterAddress", "fromEpoch", "toEpoch", "amount", "actionHash", "timestamp"})

RatioType == Scalars({"epochNumber", "blockRewardRatio", "epochRewardRatio", "foundationBonusRatio"})

ByVoterResponseType ==
  Joined(Scalars({"exist", "count", "totalRewardsReceived"}), [delegateInfoList |-> Paged("DelegateInfo")])

DelegateInfoType == Scalars({"delegateName", "fromEpoch", "toEpoch", "amount", "actionHash", "timestamp"})

HermesMetaType == Scalars({"exist", "numberOfDelegates", "numberOfRecipients", "totalRewardsDistributed"})

-------------------------------------------------------------------------------
(* The fields of each type, by its name. *)
FieldsOf ==
  [ Query |-> QueryType, TopHolder |-> TopHolderType,
    Account |-> AccountType, Alias |-> AliasType, OperatorAddress |-> OperatorAddressType,
    Action |-> ActionType, ActionList |-> ActionListType, ActionInfo |-> ActionInfoType,
    ActionDetail |-> ActionDetailType, EvmTransfer |-> EvmTransferType,
    EvmTransferList |-> EvmTransferListType, EvmTransferDetail |-> EvmTransferDetailType,
    Xrc20 |-> Xrc20Type, Xrc721 |-> Xrc721Type, XrcList |-> XrcListType, XrcInfo |-> XrcInfoType,
    XrcAddressList |-> XrcAddressListType, XrcHolderAddressList |-> XrcHolderAddressListType,
    Chain |-> ChainType, VotingResultMeta |-> VotingResultMetaType, NumberOfActions |-> NumberOfActionsType,
    Delegate |-> DelegateType, Reward |-> RewardType, Productivity |-> ProductivityType,
    Bookkeeping |-> BookkeepingType, RewardDistribution |-> RewardDistributionType,
    BucketInfoOutput |-> BucketInfoOutputType, BucketInfoList |-> BucketInfoListType,
    BucketInfo |-> BucketInfoType, StakingOutput |-> StakingOutputType,
    StakingInformation |-> StakingInformationType,
    Voting |-> VotingType, CandidateInfoList |-> CandidateInfoListType, CandidateInfo |-> CandidateInfoType,
    VotingMeta |-> VotingMetaType, CandidateMeta |-> CandidateMetaType,
    RewardSources |-> RewardSourcesType, DelegateAmount |-> DelegateAmountType,
    Hermes |-> HermesType, HermesDistribution |-> HermesDistributionType,
    AverageHermesStats |-> AverageHermesStatsType, HermesAverage |-> HermesAverageType,
    Hermes2 |-> Hermes2Type, ByDelegateResponse |-> ByDelegateResponseType, VoterInfo |-> VoterInfoType,
    Ratio |-> RatioType, ByVoterResponse |-> ByVoterResponseType, DelegateInfo |-> DelegateInfoType,
    HermesMeta |-> HermesMetaType ]

===============================================================================
