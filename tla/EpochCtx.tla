------------------------------- MODULE EpochCtx -------------------------------
(***************************************************************************)
(* Height <-> epoch arithmetic (epochctx/epochctx.go).                     *)
(*                                                                         *)
(* The chain is cut into epochs of NumDelegates * NumSubEpochs blocks up   *)
(* to the Dardanelles fork and of NumDelegates * NumSubEpochsDardanelles   *)
(* blocks after it.  Every protocol handler decides with these functions   *)
(* whether a block opens an epoch, so an off-by-one here shifts every      *)
(* per-epoch table.                                                        *)
(*                                                                         *)
(* NewIndexer always installs EnableDardanellesSubEpoch, so dardanellesOn  *)
(* is TRUE and is not a parameter.  The mutual recursion of the two Go     *)
(* methods is one level deep (both branches taken at the fork are the      *)
(* pre-fork ones) and is unfolded into DardanellesEpoch and                *)
(* DardanellesEpochHeight.                                                 *)
(***************************************************************************)
EXTENDS Naturals

CONSTANTS
  NumDelegates,             \* block producers per sub-epoch
  NumSubEpochs,             \* sub-epochs per epoch up to the fork
  NumSubEpochsDardanelles,  \* sub-epochs per epoch after the fork
  DardanellesHeight,        \* height of the fork
  FairbankHeight            \* height of the native-staking fork

(* The values of config.yaml are 24, 15, 30, 1816201 and 5165641.  A zero  *)
(* divides by zero in GetEpochNumber; a fork at height 0 puts the first    *)
(* heights into epoch 0 and makes every epochNumber-1 wrap around.         *)
ASSUME EpochCtxAssumption ==
  /\ NumDelegates \in Nat \ {0}
  /\ NumSubEpochs \in Nat \ {0}
  /\ NumSubEpochsDardanelles \in Nat \ {0}
  /\ DardanellesHeight \in Nat \ {0}
  /\ FairbankHeight \in Nat

-------------------------------------------------------------------------------

(* Blocks in an epoch before and after the fork. *)
EpochLength == NumDelegates * NumSubEpochs
EpochLengthDardanelles == NumDelegates * NumSubEpochsDardanelles

(* GetEpochNumber and GetEpochHeight as they are computed up to the fork.  *)
PreForkEpoch(height) == (((height - 1) \div NumDelegates) \div NumSubEpochs) + 1
PreForkHeight(epochNum) == ((epochNum - 1) * EpochLength) + 1

(* The epoch the fork falls in, and its first height. *)
DardanellesEpoch == PreForkEpoch(DardanellesHeight)
DardanellesEpochHeight == PreForkHeight(DardanellesEpoch)

(* The epoch a height belongs to. *)
GetEpochNumber(height) ==
  IF height = 0 THEN 0
  ELSE IF height <= DardanellesHeight THEN PreForkEpoch(height)
  ELSE DardanellesEpoch
         + (((height - DardanellesEpochHeight) \div NumDelegates)
              \div NumSubEpochsDardanelles)

(* The first height of an epoch. *)
GetEpochHeight(epochNum) ==
  IF epochNum = 0 THEN 0
  ELSE IF epochNum <= DardanellesEpoch THEN PreForkHeight(epochNum)
  ELSE DardanellesEpochHeight
         + ((epochNum - DardanellesEpoch) * EpochLengthDardanelles)

(* The height from which delegates and votes come from native staking:     *)
(* one post-Dardanelles epoch after the fork height.                       *)
FairbankEffectiveHeight == FairbankHeight + EpochLengthDardanelles

(* The test every HandleBlock makes for its per-epoch work. *)
IsEpochStart(height) == height = GetEpochHeight(GetEpochNumber(height))

(* Epochs stay contiguous across the fork when the fork opens an epoch, or *)
(* when epochs do not get shorter there; config.yaml satisfies both.       *)
ForkIsSafe ==
  \/ DardanellesHeight = DardanellesEpochHeight
  \/ NumSubEpochsDardanelles >= NumSubEpochs

===============================================================================
