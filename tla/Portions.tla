-------------------------------- MODULE Portions --------------------------------
(***************************************************************************)
(* The reward portions of delegates after Fairbank                         *)
(* (indexprotocol/votings/stakingprotocol.go).                             *)
(*                                                                         *)
(* A delegate sets the share of its rewards that goes to its voters in a   *)
(* contract, which logs a ProfileUpdated event.  The first native-staking  *)
(* epoch reads all events since the contract was deployed; every later one *)
(* starts from the portions in the voting_result rows of the epoch before  *)
(* and applies the events since that epoch began.  Rows are written for    *)
(* the candidates as of the start of the epoch before, so a delegate that  *)
(* is no candidate there loses what its row would have carried on.         *)
(*                                                                         *)
(* The three portions (block, epoch, foundation) go through the same code  *)
(* side by side; one of them is modelled.                                  *)
(***************************************************************************)
EXTENDS EpochCtx, FiniteSets

CONSTANTS
  Delegates,        \* staking addresses
  Values,           \* portions a delegate may set; 0 is what an unset one reads as
  HasContract,      \* whether RewardPortionContract is configured
  DeployHeight,     \* RewardPortionContractDeployHeight
  ToBlockIncluded,  \* whether GetLogsByRange returns the logs of ToBlock (the node's choice)
  MaxHeight,        \* bound on the height of the chain
  MaxUpdates,       \* bound on the events in the contract's log
  MaxChanges        \* bound on the registrations and withdrawals of candidates

ASSUME PortionsAssumption ==
  /\ 0 \in Values
  /\ HasContract \in BOOLEAN
  /\ DeployHeight \in Nat
  /\ ToBlockIncluded \in BOOLEAN
  /\ MaxHeight \in Nat
  /\ MaxUpdates \in Nat
  /\ MaxChanges \in Nat
  /\ ForkIsSafe
  /\ IsEpochStart(FairbankEffectiveHeight)
  /\ FairbankEffectiveHeight <= MaxHeight

VARIABLES
  tip,            \* height of the chain
  log,            \* a delegate's last ProfileUpdated event in each block
  candidates,     \* the staking candidates of the last block
  standing,       \* the staking candidates after the first block of each epoch
  changes,        \* how often a delegate has become a candidate or ceased to be one
  voting_result,  \* per epoch, the portions of the delegates with a row
  indexed         \* the last epoch whose first block is indexed

chain == <<tip, log, candidates, standing, changes>>
vars == <<chain, voting_result, indexed>>

-------------------------------------------------------------------------------

Epochs == 0 .. GetEpochNumber(MaxHeight)

(* The first epoch with votes from native staking. *)
FairbankEpoch == GetEpochNumber(FairbankEffectiveHeight)

NoRows == [d \in {} |-> 0]

Init ==
  /\ tip = 0
  /\ log = {}
  /\ candidates \in SUBSET Delegates
  /\ standing = [e \in Epochs |-> IF e = 0 THEN candidates ELSE {}]
  /\ changes = 0
  /\ voting_result = [e \in Epochs |-> NoRows]
  /\ indexed = FairbankEpoch - 1

(* A block, with what it does to the profiles and to the candidates: a     *)
(* delegate is dropped from the list when its self-stake is withdrawn.     *)
NewBlock ==
  /\ tip < MaxHeight
  /\ tip' = tip + 1
  /\ \/ log' = log
     \/ /\ tip' >= DeployHeight
        /\ Cardinality(log) < MaxUpdates
        /\ \E d \in Delegates, v \in Values :
             log' = log \cup {[height |-> tip', delegate |-> d, value |-> v]}
  /\ \/ UNCHANGED <<candidates, changes>>
     \/ /\ changes < MaxChanges
        /\ changes' = changes + 1
        /\ \E d \in Delegates :
             candidates' = IF d \in candidates THEN candidates \ {d} ELSE candidates \cup {d}
  /\ standing' = IF IsEpochStart(tip')
                   THEN [standing EXCEPT ![GetEpochNumber(tip')] = candidates']
                   ELSE standing
  /\ UNCHANGED <<voting_result, indexed>>

-------------------------------------------------------------------------------
(* The events the node returns for FromBlock = from, ToBlock = from+count. *)
getLog(from, count) ==
  {u \in log : from <= u.height /\ IF ToBlockIncluded THEN u.height <= from + count
                                                      ELSE u.height < from + count}

UpdatesOf(d, updates) == {u \in updates : u.delegate = d}

(* The events are applied in log order: the last one stands. *)
Newest(updates) == CHOOSE u \in updates : \A w \in updates : w.height <= u.height

UpdatedUnlessSet(portion, updates) ==
  [d \in Delegates |-> IF UpdatesOf(d, updates) = {} \/ portion[d] # 0
                         THEN portion[d] ELSE Newest(UpdatesOf(d, updates)).value]

(* The portions, overridden by those in the log. *)
Updated(portion, updates) ==
  [d \in Delegates |-> IF UpdatesOf(d, updates) = {}
                         THEN portion[d] ELSE Newest(UpdatesOf(d, updates)).value]

(* A delegate without a row has no entry in the map, which then reads as 0. *)
getLastEpochPortion(e) ==
  [d \in Delegates |-> IF d \in DOMAIN voting_result[e] THEN voting_result[e][d] ELSE 0]

UpdatesFromThisEpoch(e) == getLog(GetEpochHeight(e), GetEpochHeight(e) - GetEpochHeight(e - 1))

(* The events an epoch adds: all of them for the first one. *)
UpdatesFor(e) ==
  LET from == IF e = FairbankEpoch THEN DeployHeight ELSE GetEpochHeight(e - 1)
  IN  getLog(from, GetEpochHeight(e) - from)

getAllStakingDelegateRewardPortions(e) ==
  IF e = FairbankEpoch THEN Updated([d \in Delegates |-> 0], UpdatesFor(e))
                    ELSE Updated(getLastEpochPortion(e - 1), UpdatesFor(e))

(* What makes getAllStakingDelegateRewardPortions fail: at Fairbank, no    *)
(* contract or one deployed no earlier; later, no row of the epoch before. *)
PortionsAvailable(e) ==
  IF e = FairbankEpoch THEN HasContract /\ DeployHeight < FairbankEffectiveHeight
                    ELSE DOMAIN voting_result[e - 1] # {}

(* GetAllStakingCandidates at the first block of the epoch before. *)
GetAllStakingCandidates(e) == standing[e - 1]

(* processStaking, on the first block of an epoch.  The indexer may be any *)
(* number of blocks behind the chain.  A failed call rolls the block back, *)
(* and it is tried again.                                                  *)
processStaking ==
  \E e \in Epochs :
    /\ e = indexed + 1
    /\ tip >= GetEpochHeight(e)
    /\ PortionsAvailable(e)
    /\ voting_result' = [voting_result EXCEPT ![e] =
         [d \in GetAllStakingCandidates(e) |-> getAllStakingDelegateRewardPortions(e)[d]]]
    /\ indexed' = e
    /\ UNCHANGED chain

Next == NewBlock \/ processStaking

Spec == Init /\ [][Next]_vars

-------------------------------------------------------------------------------
(* The types of the variables. *)
TypeOK ==
  /\ tip \in 0 .. MaxHeight
  /\ log \subseteq [height : 1 .. MaxHeight, delegate : Delegates, value : Values]
  /\ candidates \subseteq Delegates
  /\ standing \in [Epochs -> SUBSET Delegates]
  /\ changes \in 0 .. MaxChanges
  /\ voting_result \in [Epochs -> UNION {[S -> Values] : S \in SUBSET Delegates}]
  /\ indexed \in (FairbankEpoch - 1) .. GetEpochNumber(MaxHeight)

(* The last height whose events count for epoch e. *)
Horizon(e) == IF ToBlockIncluded THEN GetEpochHeight(e) ELSE GetEpochHeight(e) - 1

(* All that d has set by the time of epoch e. *)
Settings(d, e) == {u \in UpdatesOf(d, log) : u.height <= Horizon(e)}

IndexedEpochs == FairbankEpoch .. indexed

(* d has had a row in every epoch for which its latest event counts. *)
Kept(d, e) ==
  \A f \in FairbankEpoch .. e :
    Newest(Settings(d, e)).height <= Horizon(f) => d \in DOMAIN voting_result[f]

(* Reading the log piecemeal, an epoch at a time and as late as one likes, *)
(* comes to the same as reading it at once: a delegate that has been a     *)
(* candidate without a break since its last update is listed with what it  *)
(* set then.  The pieces must neither leave a gap nor let an older event   *)
(* win, and the rows must be carried from epoch to epoch.                  *)
PortionKept ==
  \A e \in IndexedEpochs : \A d \in DOMAIN voting_result[e] :
    Settings(d, e) # {} /\ Kept(d, e) =>
      voting_result[e][d] = Newest(Settings(d, e)).value

(* A portion the delegate has changed since is never paid out: a row holds *)
(* the latest value or, if that got lost, none at all.  Coming back as a   *)
(* candidate does not bring an old value back.                             *)
NeverOutdated ==
  \A e \in IndexedEpochs : \A d \in DOMAIN voting_result[e] :
    voting_result[e][d] # 0 =>
      /\ Settings(d, e) # {}
      /\ voting_result[e][d] = Newest(Settings(d, e)).value

-------------------------------------------------------------------------------
(* stakingprotocol.go: "get latest portion".  A candidate is listed with   *)
(* the portion it has set last.                                            *)
LatestPortion ==
  \A e \in IndexedEpochs : \A d \in DOMAIN voting_result[e] :
    Settings(d, e) # {} => voting_result[e][d] = Newest(Settings(d, e)).value

===============================================================================
