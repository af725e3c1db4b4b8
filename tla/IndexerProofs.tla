----------------------------- MODULE IndexerProofs -----------------------------
(***************************************************************************)
(* The indexer, proved for every chain length, epoch geometry, batch size  *)
(* and for every interleaving.  The first theorems are about an            *)
(* environment that reports its errors: no panic and no failed COMMIT      *)
(* under Transact, no short answer of the node.  The last ones say what is *)
(* left when it does not.                                                  *)
(***************************************************************************)
EXTENDS Indexer, ArithmeticProofs

(* The environment the first theorems are about. *)
ErrorsReported == Env \subseteq {"error", "crash", "readonly"}

-------------------------------------------------------------------------------
(* Facts about epochs, specialised to the heights of the model. *)

LEMMA Constants ==
  /\ MaxHeight \in Nat \ {0}
  /\ RangeQueryLimit \in Nat \ {0}
  /\ ForkIsSafe
  /\ GetEpochNumber(0) = 0
BY IndexerAssumption DEF GetEpochNumber

(* Five handlers run in a transaction. *)
LEMMA FiveHandlers ==
  /\ Len(IndexProtocols) = 5
  /\ 0 .. Len(IndexProtocols) + 1 = 0 .. 6
BY DEF IndexProtocols

(* Epoch numbers of the heights in play. *)
LEMMA EpochType ==
  ASSUME NEW h \in Heights
  PROVE  /\ h \in Nat \ {0}
         /\ GetEpochNumber(h) \in Nat \ {0}
         /\ GetEpochNumber(h) \in Epochs
<1>1. h \in Nat \ {0} /\ MaxHeight \in Nat \ {0} /\ h <= MaxHeight
  BY Constants DEF Heights
<1>2. GetEpochNumber(h) \in Nat \ {0} /\ GetEpochNumber(MaxHeight) \in Nat \ {0}
  BY <1>1, Constants, HeightInEpoch
<1>3. GetEpochNumber(h) <= GetEpochNumber(MaxHeight)
  BY <1>1, Constants, EpochMonotone
<1> QED
  BY <1>1, <1>2, <1>3 DEF Epochs

(* What one more block does to the epoch count. *)
LEMMA EpochOfNext ==
  ASSUME NEW n \in Heights
  PROVE  /\ GetEpochNumber(n - 1) \in Nat
         /\ ~ IsEpochStart(n) => GetEpochNumber(n) = GetEpochNumber(n - 1)
         /\ IsEpochStart(n) => GetEpochNumber(n) = GetEpochNumber(n - 1) + 1
<1>1. CASE n = 1
  <2>1. n - 1 = 0
    BY <1>1
  <2> QED
    BY <1>1, <2>1, Constants, FirstEpoch
<1>2. CASE n # 1
  <2>1. n - 1 \in Nat \ {0} /\ (n - 1) + 1 = n
    BY <1>2, EpochType
  <2>2. GetEpochNumber(n - 1) \in Nat
    BY <2>1, Constants, HeightInEpoch
  <2> DEFINE m == n - 1
  <2>3. \/ GetEpochNumber(m + 1) = GetEpochNumber(m) /\ ~ IsEpochStart(m + 1)
        \/ GetEpochNumber(m + 1) = GetEpochNumber(m) + 1 /\ IsEpochStart(m + 1)
    BY <2>1, Constants, EpochStep
  <2> QED
    BY <2>1, <2>2, <2>3
<1> QED
  BY <1>1, <1>2

(* A block belongs to no later epoch than one above it. *)
LEMMA EpochOfEarlier ==
  ASSUME NEW n \in Heights, NEW h \in 1 .. n
  PROVE  h \in Heights /\ GetEpochNumber(h) <= GetEpochNumber(n)
<1>1. h \in Nat \ {0} /\ n \in Nat \ {0} /\ h <= n /\ h \in Heights
  BY EpochType, Constants DEF Heights
<1> QED
  BY <1>1, Constants, EpochMonotone

-------------------------------------------------------------------------------
(* The index up to a height. *)

LEMMA HeightsOfIndex ==
  ASSUME NEW n \in 0 .. MaxHeight
  PROVE  /\ HeightsOf(IndexUpTo(n).block) = 1 .. n
         /\ HeightsOf(IndexUpTo(n).reward) = 1 .. n
<1>1. \A h : BlockRow(h).height = h /\ RewardRow(h).height = h
  BY DEF BlockRow, RewardRow
<1>2. HeightsOf({BlockRow(h) : h \in 1 .. n}) = 1 .. n
  BY <1>1 DEF HeightsOf
<1>3. HeightsOf({RewardRow(h) : h \in 1 .. n}) = 1 .. n
  BY <1>1 DEF HeightsOf
<1>4. /\ IndexUpTo(n).block = {BlockRow(h) : h \in 1 .. n}
      /\ IndexUpTo(n).reward = {RewardRow(h) : h \in 1 .. n}
  BY DEF IndexUpTo
<1> QED
  BY <1>2, <1>3, <1>4

LEMMA TipOfIndex ==
  ASSUME NEW n \in 0 .. MaxHeight
  PROVE  TipOf(IndexUpTo(n)) = n
<1> DEFINE b == IndexUpTo(n).block
<1>1. HeightsOf(b) = 1 .. n /\ n \in Nat
  BY HeightsOfIndex, Constants
<1>2. (b = {}) <=> (n = 0)
  <2>1. (b = {}) => HeightsOf(b) = {}
    BY DEF HeightsOf
  <2>2. (HeightsOf(b) = {}) => b = {}
    BY DEF HeightsOf
  <2> QED
    BY <1>1, <2>1, <2>2
<1>3. CASE n = 0
  BY <1>2, <1>3 DEF TipOf
<1>4. CASE n # 0
  <2>1. n \in 1 .. n /\ \A g \in 1 .. n : g <= n
    BY <1>1, <1>4
  <2>2. \A h \in 1 .. n : (\A g \in 1 .. n : g <= h) => h = n
    BY <1>1, <2>1
  <2>3. (CHOOSE h \in 1 .. n : \A g \in 1 .. n : g <= h) = n
    BY <2>1, <2>2
  <2>4. TipOf(IndexUpTo(n)) = CHOOSE h \in 1 .. n : \A g \in 1 .. n : g <= h
    BY <1>1, <1>2, <1>4 DEF TipOf
  <2> QED
    BY <2>3, <2>4
<1> QED
  BY <1>3, <1>4

LEMMA ReportsType ==
  ASSUME NEW n \in 0 .. MaxHeight
  PROVE  ReportsUpTo(n) \in [Epochs -> SUBSET Heights]
<1>1. 1 .. n \subseteq Heights
  BY Constants DEF Heights
<1> QED
  BY <1>1 DEF ReportsUpTo

(* The index is well typed as far up as the chain may grow. *)
LEMMA IndexType ==
  ASSUME NEW n \in 0 .. MaxHeight
  PROVE  IndexUpTo(n) \in Tables
<1>1. 1 .. n \subseteq Heights /\ 0 .. n \subseteq {0} \cup Heights /\ n \in Nat
  BY Constants DEF Heights
<1>2. \A h \in 1 .. n : h \in Heights /\ GetEpochNumber(h) \in Epochs
  BY <1>1, EpochType
<1>3. {BlockRow(h) : h \in 1 .. n}
        \subseteq [height : Heights, active : {0} \cup Epochs, names : {0} \cup Epochs]
  BY <1>2 DEF BlockRow
<1>4. {RewardRow(h) : h \in 1 .. n} \subseteq [height : Heights, names : {0} \cup Epochs]
  BY <1>2 DEF RewardRow
<1>5. 1 .. GetEpochNumber(n) \subseteq Epochs
  <2>1. CASE n = 0
    BY <2>1, Constants
  <2>2. CASE n # 0
    <3>1. n \in Heights
      BY <1>1, <2>2, Constants DEF Heights
    <3>2. /\ GetEpochNumber(n) \in 1 .. GetEpochNumber(MaxHeight)
      BY <3>1, EpochType DEF Epochs
    <3>3. GetEpochNumber(MaxHeight) \in Nat
      BY Constants, HeightInEpoch
    <3> QED
      BY <3>2, <3>3 DEF Epochs
  <2> QED
    BY <2>1, <2>2
<1> QED
  BY <1>1, <1>3, <1>4, <1>5, ReportsType DEF IndexUpTo, Tables

(* The rows a block adds to the tables that have one row per block or      *)
(* epoch.                                                                  *)
LEMMA NextRows ==
  ASSUME NEW n \in Heights
  PROVE  LET before == IndexUpTo(n - 1)
             after == IndexUpTo(n)
         IN  /\ after.block = before.block \cup {BlockRow(n)}
             /\ after.action = before.action \cup {n}
             /\ after.reward = before.reward \cup {RewardRow(n)}
             /\ after.voting = IF IsEpochStart(n) THEN before.voting \cup {GetEpochNumber(n)}
                                                  ELSE before.voting
             /\ after.balance = before.balance \cup {n}
<1>1. n \in Nat \ {0}
  BY EpochType
<1>2. 1 .. n = (1 .. n - 1) \cup {n} /\ 0 .. n = (0 .. n - 1) \cup {n}
  BY <1>1
<1>3. {BlockRow(h) : h \in 1 .. n} = {BlockRow(h) : h \in 1 .. n - 1} \cup {BlockRow(n)}
  BY <1>2
<1>4. {RewardRow(h) : h \in 1 .. n} = {RewardRow(h) : h \in 1 .. n - 1} \cup {RewardRow(n)}
  BY <1>2
<1>5. 1 .. GetEpochNumber(n)
        = IF IsEpochStart(n) THEN (1 .. GetEpochNumber(n - 1)) \cup {GetEpochNumber(n)}
                             ELSE 1 .. GetEpochNumber(n - 1)
  <2> DEFINE p == GetEpochNumber(n - 1)
             q == GetEpochNumber(n)
  <2>1. p \in Nat /\ (IsEpochStart(n) => q = p + 1) /\ (~ IsEpochStart(n) => q = p)
    BY EpochOfNext
  <2>2. 1 .. p + 1 = (1 .. p) \cup {p + 1}
    BY <2>1
  <2> QED
    BY <2>1, <2>2
<1> QED
  BY <1>2, <1>3, <1>4, <1>5 DEF IndexUpTo

(* Closing an epoch with the block that opens the next one sums up exactly *)
(* the blocks of the epoch, and no other block changes a report.           *)
LEMMA NextReports ==
  ASSUME NEW n \in Heights
  PROVE  ReportsUpTo(n) =
           [e \in Epochs |->
             IF /\ IsEpochStart(n) /\ e = GetEpochNumber(n) - 1 /\ e # 0
                /\ ReportsUpTo(n - 1)[e] = {}
               THEN {h \in 1 .. n - 1 : GetEpochNumber(h) = e}
               ELSE ReportsUpTo(n - 1)[e]]
<1> DEFINE p == GetEpochNumber(n - 1)
           q == GetEpochNumber(n)
           sum(e, k) == {h \in 1 .. k : GetEpochNumber(h) = e}
<1>1. /\ n \in Nat \ {0} /\ q \in Nat \ {0} /\ p \in Nat
      /\ IsEpochStart(n) => q = p + 1
      /\ ~ IsEpochStart(n) => q = p
  BY EpochType, EpochOfNext
<1>2. \A e \in Epochs : e \in Nat \ {0}
  <2>1. GetEpochNumber(MaxHeight) \in Nat
    BY Constants, HeightInEpoch
  <2> QED
    BY <2>1 DEF Epochs
<1>3. \A e \in Epochs : e < q => sum(e, n) = sum(e, n - 1)
  <2>1. 1 .. n = (1 .. n - 1) \cup {n}
    BY <1>1
  <2> QED
    BY <1>1, <1>2, <2>1
<1>4. ASSUME NEW e \in Epochs
      PROVE  ReportsUpTo(n)[e] =
               IF IsEpochStart(n) /\ e = q - 1 /\ e # 0 /\ ReportsUpTo(n - 1)[e] = {}
                 THEN sum(e, n - 1) ELSE ReportsUpTo(n - 1)[e]
  <2>1. /\ ReportsUpTo(n)[e] = IF e < q THEN sum(e, n) ELSE {}
        /\ ReportsUpTo(n - 1)[e] = IF e < p THEN sum(e, n - 1) ELSE {}
    BY DEF ReportsUpTo
  <2>2. e \in Nat \ {0}
    BY <1>2
  <2>3. CASE e < p
    <3>1. (e # q - 1) \/ ~ IsEpochStart(n)
      BY <1>1, <2>2, <2>3
    <3>2. e < q
      BY <1>1, <2>2, <2>3
    <3> QED
      BY <1>3, <2>1, <2>3, <3>1, <3>2
  <2>4. CASE ~ (e < p) /\ e < q
    <3>1. IsEpochStart(n) /\ e = q - 1 /\ e # 0
      BY <1>1, <2>2, <2>4
    <3>2. sum(e, n) = sum(e, n - 1)
      BY <1>3, <2>4
    <3> HIDE DEF p, q, sum
    <3> QED
      BY <2>1, <2>4, <3>1, <3>2
  <2>5. CASE ~ (e < p) /\ ~ (e < q)
    <3>1. e # q - 1
      BY <1>1, <2>2, <2>5
    <3> HIDE DEF p, q, sum
    <3> QED
      BY <2>1, <2>5, <3>1
  <2> QED
    BY <2>3, <2>4, <2>5
<1>5. ReportsUpTo(n) = [e \in Epochs |-> ReportsUpTo(n)[e]]
  BY DEF ReportsUpTo
<1> QED
  BY <1>4, <1>5

-------------------------------------------------------------------------------
(* The open transaction. *)

(* The transaction starts from the index so far and ends with the index    *)
(* that has one more block.                                                *)
LEMMA StageEnds ==
  ASSUME NEW n \in Heights
  PROVE  /\ StageOf(n, 1) = IndexUpTo(n - 1)
         /\ StageOf(n, Len(IndexProtocols) + 1) = IndexUpTo(n)
BY FiveHandlers DEF StageOf, IndexUpTo

LEMMA StageType ==
  ASSUME NEW n \in Heights, NEW k
  PROVE  StageOf(n, k) \in Tables
<1>1. n - 1 \in 0 .. MaxHeight /\ n \in 0 .. MaxHeight
  BY Constants DEF Heights
<1>2. IndexUpTo(n - 1) \in Tables /\ IndexUpTo(n) \in Tables
  BY <1>1, IndexType
<1> HIDE DEF IndexUpTo
<1> QED
  BY <1>2 DEF StageOf, Tables

(* The epoch rebuild of a block, from the rows of the blocks before it. *)
LEMMA RebuiltReports ==
  ASSUME height \in Heights, NEW source,
         source \in {1 .. height - 1, 0 .. height - 1}
  PROVE  Rebuilt(ReportsUpTo(height - 1), source) = ReportsUpTo(height)
<1> DEFINE n == height
<1>1. n \in Nat \ {0}
  BY EpochType
<1>2. \A e \in Epochs : e # 0 =>
        {h \in source : GetEpochNumber(h) = e} = {h \in 1 .. n - 1 : GetEpochNumber(h) = e}
  <2>1. \A h \in 0 .. n - 1 : h \in 1 .. n - 1 \/ h = 0
    BY <1>1
  <2> QED
    BY <1>1, <2>1, Constants
<1>3. Rebuilt(ReportsUpTo(n - 1), source) =
        [e \in Epochs |->
          IF /\ IsEpochStart(n) /\ e = GetEpochNumber(n) - 1 /\ e # 0
             /\ ReportsUpTo(n - 1)[e] = {}
            THEN {h \in source : GetEpochNumber(h) = e}
            ELSE ReportsUpTo(n - 1)[e]]
  BY DEF Rebuilt, ClosesEpoch, epochNumber
<1> HIDE DEF n
<1>4. Rebuilt(ReportsUpTo(n - 1), source) =
        [e \in Epochs |->
          IF /\ IsEpochStart(n) /\ e = GetEpochNumber(n) - 1 /\ e # 0
             /\ ReportsUpTo(n - 1)[e] = {}
            THEN {h \in 1 .. n - 1 : GetEpochNumber(h) = e}
            ELSE ReportsUpTo(n - 1)[e]]
  BY <1>2, <1>3
<1> QED
  BY <1>4, NextReports DEF n

(* What the invariant says once the process is up. *)
LEMMA ProcessUp ==
  ASSUME IInv, pc # "down"
  PROVE  /\ TipOf(db) \in 0 .. MaxHeight
         /\ TipOf(db) <= tip
         /\ db = IndexUpTo(TipOf(db))
<1>1. db # EmptyTables
  BY DEF IInv, ProcessConsistent, EmptyTables
<1>2. PICK n \in 0 .. tip : db = IndexUpTo(n)
  BY <1>1 DEF IInv, IndexDetermined
<1>3. n \in 0 .. MaxHeight /\ n <= tip
  BY <1>2, Constants DEF IInv, TypeOK
<1> QED
  BY <1>2, <1>3, TipOfIndex

(* What the invariant says while a transaction is open. *)
LEMMA InTransaction ==
  ASSUME IInv, pc = "tx"
  PROVE  /\ height \in Heights
         /\ height <= tip
         /\ height - 1 \in 0 .. MaxHeight
         /\ lastHeight = height - 1
         /\ lastHeight + 1 = height
         /\ db = IndexUpTo(height - 1)
         /\ work = StageOf(height, step)
         /\ step \in 1 .. 6
         /\ epochNumber \in Epochs
<1>1. /\ lastHeight \in 0 .. MaxHeight /\ batch.next \in Nat /\ batch.last \in 0 .. MaxHeight
      /\ batch.tip \in 0 .. MaxHeight /\ tip \in 0 .. MaxHeight
      /\ step \in 0 .. 6
  BY DEF IInv, TypeOK, IndexProtocols
<1>2. /\ batch.next = lastHeight + 1 /\ batch.next <= batch.last /\ step >= 1
      /\ batch.last <= batch.tip /\ batch.tip <= tip
  BY DEF IInv, BatchContiguous, ProcessConsistent
<1>3. lastHeight = TipOf(db) /\ db = IndexUpTo(TipOf(db)) /\ work = StageOf(height, step)
  BY ProcessUp DEF IInv, TrackerIsTip, TransactionIsolated
<1>4. height \in Heights /\ height - 1 = lastHeight /\ height - 1 \in 0 .. MaxHeight
  BY <1>1, <1>2, Constants DEF height, Heights
<1> QED
  BY <1>1, <1>2, <1>3, <1>4, EpochType DEF epochNumber, height

(* With no block missing, the database refuses nothing. *)
LEMMA NeverRefused ==
  ASSUME IInv, NEW id, Running(id)
  PROVE  ~ Refused(id)
<1> DEFINE n == height
           before == IndexUpTo(n - 1)
           after == IndexUpTo(n)
<1>1. /\ pc = "tx" /\ n \in Heights /\ work = StageOf(n, step)
      /\ n - 1 \in 0 .. MaxHeight /\ n \in 0 .. MaxHeight
  BY InTransaction, Constants DEF Running, Heights
<1>2. /\ HeightsOf(before.block) = 1 .. n - 1
      /\ HeightsOf(after.block) = 1 .. n
      /\ n \in Nat \ {0}
  BY <1>1, HeightsOfIndex, EpochType
<1>3. /\ id = "blocks" => step = 1
      /\ id = "actions" => step = 2
      /\ id = "rewards" => step = 3
      /\ id = "votings" => step = 4
  BY DEF Running, IndexProtocols
<1>4. id = "blocks" => n \notin HeightsOf(work.block)
  <2>1. id = "blocks" => work.block = before.block
    BY <1>1, <1>3 DEF StageOf
  <2> QED
    BY <1>2, <2>1
<1>5. id = "actions" => n \in HeightsOf(work.block)
  <2>1. id = "actions" => work.block = after.block
    BY <1>1, <1>3 DEF StageOf
  <2> QED
    BY <1>2, <2>1
<1>6. id \in {"rewards", "votings"} => work.voting = 1 .. GetEpochNumber(n - 1)
  BY <1>1, <1>3 DEF StageOf, IndexUpTo
<1>7. /\ GetEpochNumber(n - 1) \in Nat
      /\ IsEpochStart(n) => GetEpochNumber(n) = GetEpochNumber(n - 1) + 1
  BY <1>1, EpochOfNext
<1>8. id = "rewards" => \A e \in Epochs : ClosesEpoch(e) => e \in work.voting
  <2>1. SUFFICES ASSUME id = "rewards", NEW e \in Epochs, ClosesEpoch(e)
                 PROVE  e \in work.voting
    OBVIOUS
  <2>2. e = GetEpochNumber(n - 1) /\ e # 0
    BY <1>7, <2>1 DEF ClosesEpoch, epochNumber
  <2> QED
    BY <1>6, <1>7, <2>1, <2>2
<1>9. id = "votings" => ~ (IsEpochStart(n) /\ epochNumber \in work.voting)
  BY <1>6, <1>7 DEF epochNumber
<1> QED
  BY <1>4, <1>5, <1>8, <1>9 DEF Refused, BlockExists, BlockMissing, VotesMissing, VotesExist

-------------------------------------------------------------------------------
(* Initially the invariant holds. *)
LEMMA InvInit == Init => IInv
<1> SUFFICES ASSUME Init PROVE IInv
  OBVIOUS
<1>1. EmptyTables \in Tables
  <2>1. [e \in Epochs |-> {}] \in [Epochs -> SUBSET Heights]
    OBVIOUS
  <2> QED
    BY <2>1 DEF EmptyTables, Tables
<1>2. /\ 0 \in 0 .. MaxHeight
      /\ tip \in 0 .. MaxHeight
  BY Constants DEF Init
<1>3. TypeOK
  <2>1. mem \in [active : {0} \cup Epochs, operator : {0} \cup Epochs, reward : {0} \cup Epochs]
    BY DEF Init, NilMaps
  <2>2. batch \in [start : Nat, count : Nat, tip : 0 .. MaxHeight, next : Nat, last : 0 .. MaxHeight]
    BY <1>2 DEF Init, NoBatch
  <2>3. poll \in [state : {"waiting", "height", "error"}, tip : 0 .. MaxHeight]
    BY <1>2 DEF Init, Waiting
  <2>4. step \in 0 .. Len(IndexProtocols) + 1
    BY FiveHandlers DEF Init
  <2>5. pc \in {"down", "boot", "readonly", "request", "blocks", "tx", "idle"}
    BY DEF Init
  <2> QED
    BY <1>1, <1>2, <2>1, <2>2, <2>3, <2>4, <2>5 DEF TypeOK, Init
<1>4. BatchContiguous
  BY <1>2, Constants DEF BatchContiguous, Init, NoBatch, Waiting
<1>5. ProcessConsistent
  BY DEF ProcessConsistent, Init
<1> QED
  BY <1>3, <1>4, <1>5
  DEF IInv, IndexDetermined, TrackerIsTip, MapsNeverStale, TransactionIsolated, Init

(* The process may end at any point. *)
LEMMA InvExit ==
  ASSUME IInv, Exit
  PROVE  IInv'
<1> USE DEF Exit, NilMaps, NoBatch, Waiting
<1>1. TypeOK'
  <2>1. TypeOK /\ 0 \in 0 .. MaxHeight
    BY Constants DEF IInv
  <2>2. mem' \in [active : {0} \cup Epochs, operator : {0} \cup Epochs, reward : {0} \cup Epochs]
    OBVIOUS
  <2>3. batch' \in [start : Nat, count : Nat, tip : 0 .. MaxHeight, next : Nat, last : 0 .. MaxHeight]
    BY <2>1
  <2>4. poll' \in [state : {"waiting", "height", "error"}, tip : 0 .. MaxHeight]
    BY <2>1
  <2>5. step' \in 0 .. Len(IndexProtocols) + 1
    BY FiveHandlers
  <2>6. pc' \in {"down", "boot", "readonly", "request", "blocks", "tx", "idle"}
    OBVIOUS
  <2> QED
    BY <2>1, <2>2, <2>3, <2>4, <2>5, <2>6 DEF TypeOK
<1>2. IndexDetermined'
  BY DEF IInv, IndexDetermined
<1>3. BatchContiguous'
  BY Constants DEF IInv, BatchContiguous, TypeOK
<1>4. ProcessConsistent'
  BY DEF IInv, ProcessConsistent
<1> QED
  BY <1>1, <1>2, <1>3, <1>4 DEF IInv, TrackerIsTip, MapsNeverStale, TransactionIsolated

(* A batch may end with an error, as long as it leaves usable maps. *)
MapsUsable(maps) ==
  /\ maps \in [active : {0} \cup Epochs, operator : {0} \cup Epochs, reward : {0} \cup Epochs]
  /\ Fresh(maps.operator)
  /\ Fresh(maps.reward)
  /\ maps.operator # 0 => maps.active # 0 /\ Fresh(maps.active)

LEMMA InvReturnError ==
  ASSUME IInv, pc \in {"request", "blocks", "tx"}, NEW maps, MapsUsable(maps), ReturnError(maps)
  PROVE  IInv'
<1>1. CASE ~ subscribed
  BY <1>1, InvExit DEF ReturnError
<1>2. CASE subscribed
  <2> USE <1>2, Constants DEF IInv, ReturnError, NoBatch
  <2>1. TypeOK'
    BY FiveHandlers DEF TypeOK, MapsUsable
  <2>2. IndexDetermined'
    BY DEF IndexDetermined
  <2>3. TrackerIsTip'
    BY DEF TrackerIsTip
  <2>4. MapsNeverStale'
    BY DEF MapsNeverStale, MapsUsable, Fresh
  <2>5. BatchContiguous'
    BY DEF BatchContiguous, TypeOK
  <2>6. ProcessConsistent'
    BY DEF ProcessConsistent
  <2> QED
    BY <2>1, <2>2, <2>3, <2>4, <2>5, <2>6 DEF TransactionIsolated
<1> QED
  BY <1>1, <1>2

(* Starting: the genesis balances make the empty database the index of no  *)
(* block, and leave any other index as it is.                              *)
LEMMA InvInitialize ==
  ASSUME IInv, Initialize
  PROVE  IInv'
<1>1. \E n \in 0 .. tip : db' = IndexUpTo(n)
  <2>1. CASE db = EmptyTables
    <3>1. 1 .. 0 = {} /\ 0 .. 0 = {0} /\ 0 \in 0 .. tip
      BY DEF IInv, TypeOK
    <3>2. ReportsUpTo(0) = [e \in Epochs |-> {}]
      BY <3>1 DEF ReportsUpTo
    <3>3. {BlockRow(h) : h \in 1 .. 0} = {} /\ {RewardRow(h) : h \in 1 .. 0} = {}
      BY <3>1
    <3>4. 1 .. GetEpochNumber(0) = {}
      BY Constants
    <3>5. db' = IndexUpTo(0)
      BY <2>1, <3>1, <3>2, <3>3, <3>4 DEF Initialize, InitialBalances, EmptyTables, IndexUpTo
    <3> QED
      BY <3>1, <3>5
  <2>2. ASSUME NEW n \in 0 .. tip, db = IndexUpTo(n)
        PROVE  db' = IndexUpTo(n)
    <3>1. 0 \in 0 .. n
      BY DEF IInv, TypeOK
    <3>2. 0 \in db.balance
      BY <2>2, <3>1 DEF IndexUpTo
    <3>3. [db EXCEPT !.balance = @ \cup {0}] = db
      BY <3>2 DEF IInv, TypeOK, Tables
    <3> QED
      BY <2>2, <3>3 DEF Initialize, InitialBalances
  <2> QED
    BY <2>1, <2>2 DEF IInv, IndexDetermined
<1>2. db' \in Tables /\ 0 \in db'.balance
  <2>1. db \in Tables
    BY DEF IInv, TypeOK
  <2> QED
    BY <2>1 DEF Initialize, InitialBalances, Tables
<1>3. TypeOK'
  BY <1>2 DEF IInv, TypeOK, Initialize
<1>4. IndexDetermined'
  BY <1>1 DEF IndexDetermined, Initialize
<1>5. BatchContiguous'
  BY DEF IInv, BatchContiguous, Initialize
<1>6. ProcessConsistent'
  BY <1>2 DEF IInv, ProcessConsistent, Initialize
<1> QED
  BY <1>3, <1>4, <1>5, <1>6
  DEF IInv, TrackerIsTip, MapsNeverStale, TransactionIsolated, Initialize

(* The chain grows under the process, which does not see it. *)
LEMMA InvChainGrows ==
  ASSUME IInv, ChainGrows
  PROVE  IInv'
<1>1. TypeOK'
  BY Constants DEF IInv, TypeOK, ChainGrows, process
<1>2. IndexDetermined'
  BY DEF IInv, TypeOK, IndexDetermined, ChainGrows, process
<1>3. BatchContiguous'
  BY DEF IInv, TypeOK, BatchContiguous, ChainGrows, process
<1> QED
  BY <1>1, <1>2, <1>3
  DEF IInv, TrackerIsTip, MapsNeverStale, TransactionIsolated, ProcessConsistent,
      ChainGrows, process, Fresh, height, epochNumber

(* The process learns how far it got, and goes on from there or not at all. *)
LEMMA InvBoot ==
  ASSUME IInv, CatchUp \/ StayReadOnly
  PROVE  IInv'
<1>1. /\ pc = "boot" /\ pc' \in {"request", "readonly"}
      /\ lastHeight' = TipOf(db)
      /\ UNCHANGED <<tip, db, subscribed, poll, step, work, mem>>
      /\ \/ /\ pc' = "readonly" /\ UNCHANGED batch
         \/ /\ pc' = "request"
            /\ batch' = [start |-> TipOf(db) + 1, count |-> 0, tip |-> tip, next |-> 0, last |-> 0]
  BY DEF CatchUp, StayReadOnly, EnterBatch
<1>2. TipOf(db) \in 0 .. MaxHeight
  BY <1>1, ProcessUp
<1>3. TypeOK'
  BY <1>1, <1>2, Constants DEF IInv, TypeOK
<1>4. mem = NilMaps /\ MapsNeverStale'
  BY <1>1 DEF IInv, ProcessConsistent, MapsNeverStale, NilMaps, Fresh
<1>5. BatchContiguous'
  BY <1>1, <1>2 DEF IInv, TypeOK, BatchContiguous
<1>6. ProcessConsistent'
  BY <1>1 DEF IInv, ProcessConsistent
<1> QED
  BY <1>1, <1>3, <1>4, <1>5, <1>6
  DEF IInv, IndexDetermined, TrackerIsTip, TransactionIsolated

-------------------------------------------------------------------------------
(* IndexInBatch. *)

(* The maps a process carries are usable when a batch fails before any     *)
(* handler of the next block has run.                                      *)
LEMMA MapsBetweenBlocks ==
  ASSUME IInv, pc \notin {"down", "boot"}
  PROVE  MapsUsable(mem)
BY DEF IInv, TypeOK, MapsNeverStale, MapsUsable

(* A full answer starts with the next height to index and ends where the   *)
(* next request will start; without "short" every answer is full.          *)
LEMMA InvRequestBlocks ==
  ASSUME IInv, ErrorsReported, RequestBlocks
  PROVE  IInv'
<1> DEFINE left == batch.tip - batch.start + 1
           count == IF RangeQueryLimit > left THEN left ELSE RangeQueryLimit
           full == batch.start + count - 1
<1>1. /\ pc = "request" /\ pc' = "blocks" /\ batch.start <= batch.tip
      /\ batch' = [batch EXCEPT !.count = count, !.next = batch.start, !.last = full]
      /\ UNCHANGED <<tip, db, subscribed, lastHeight, poll, step, work, mem>>
  BY DEF RequestBlocks, ErrorsReported
<1>2. /\ batch.start \in Nat /\ batch.tip \in 0 .. MaxHeight
      /\ batch.start = lastHeight + 1 /\ batch.tip <= tip /\ lastHeight \in 0 .. MaxHeight
      /\ batch \in [start : Nat, count : Nat, tip : 0 .. MaxHeight,
                    next : Nat, last : 0 .. MaxHeight]
  BY <1>1 DEF IInv, TypeOK, BatchContiguous
<1>3. /\ count \in Nat \ {0} /\ full \in 0 .. MaxHeight
      /\ full + 1 = batch.start + count /\ full <= batch.tip /\ batch.start <= full
  BY <1>1, <1>2, Constants
<1> HIDE DEF count, full
<1>4. /\ batch' \in [start : Nat, count : Nat, tip : 0 .. MaxHeight,
                     next : Nat, last : 0 .. MaxHeight]
      /\ batch'.start = batch.start /\ batch'.count = count /\ batch'.tip = batch.tip
      /\ batch'.next = batch.start /\ batch'.last = full
  BY <1>1, <1>2, <1>3
<1>5. TypeOK'
  BY <1>1, <1>4 DEF IInv, TypeOK
<1>6. BatchContiguous'
  BY <1>1, <1>2, <1>3, <1>4 DEF IInv, TypeOK, BatchContiguous
<1>7. TrackerIsTip' /\ MapsNeverStale' /\ TransactionIsolated' /\ ProcessConsistent'
  BY <1>1 DEF IInv, TrackerIsTip, MapsNeverStale, TransactionIsolated, ProcessConsistent, Fresh
<1> QED
  BY <1>1, <1>5, <1>6, <1>7 DEF IInv, IndexDetermined

(* An answer is used up, or the batch is done. *)
LEMMA InvBatchSteps ==
  ASSUME IInv, ReplyDone \/ BatchDone
  PROVE  IInv'
<1>1. CASE ReplyDone
  <2>1. /\ pc = "blocks" /\ pc' = "request" /\ batch.next > batch.last
        /\ batch' = [batch EXCEPT !.start = @ + batch.count, !.count = 0, !.next = 0, !.last = 0]
        /\ UNCHANGED <<tip, db, subscribed, lastHeight, poll, step, work, mem>>
    BY <1>1 DEF ReplyDone
  <2>2. /\ batch \in [start : Nat, count : Nat, tip : 0 .. MaxHeight,
                      next : Nat, last : 0 .. MaxHeight]
        /\ lastHeight \in 0 .. MaxHeight
        /\ batch.next = lastHeight + 1 /\ batch.next <= batch.last + 1
        /\ batch.last + 1 = batch.start + batch.count
    BY <2>1 DEF IInv, TypeOK, BatchContiguous
  <2>3. /\ batch' \in [start : Nat, count : Nat, tip : 0 .. MaxHeight,
                       next : Nat, last : 0 .. MaxHeight]
        /\ batch'.start = lastHeight + 1 /\ batch'.tip = batch.tip
    <3>1. /\ batch.next \in Nat /\ batch.last \in Nat /\ lastHeight \in Nat
          /\ batch.start \in Nat /\ batch.count \in Nat
      BY <2>2, Constants
    <3>2. batch.start + batch.count = lastHeight + 1
      BY <2>1, <2>2, <3>1
    <3>3. batch' = [batch EXCEPT !.start = lastHeight + 1, !.count = 0, !.next = 0, !.last = 0]
      BY <2>1, <3>2
    <3>4. 0 \in 0 .. MaxHeight /\ lastHeight + 1 \in Nat
      BY <3>1, Constants
    <3> QED
      BY <2>2, <3>3, <3>4
  <2>4. TypeOK' /\ BatchContiguous'
    BY <2>1, <2>3 DEF IInv, TypeOK, BatchContiguous
  <2>5. TrackerIsTip' /\ MapsNeverStale' /\ TransactionIsolated' /\ ProcessConsistent'
    BY <2>1 DEF IInv, TrackerIsTip, MapsNeverStale, TransactionIsolated, ProcessConsistent, Fresh
  <2> QED
    BY <2>1, <2>4, <2>5 DEF IInv, IndexDetermined
<1>2. CASE BatchDone
  <2>1. /\ pc = "request" /\ pc' = "idle" /\ subscribed' = TRUE
        /\ batch' = [start |-> 0, count |-> 0, tip |-> 0, next |-> 0, last |-> 0]
        /\ UNCHANGED <<tip, db, lastHeight, poll, step, work, mem>>
    BY <1>2 DEF BatchDone, NoBatch
  <2>2. TypeOK' /\ BatchContiguous'
    BY <2>1, Constants DEF IInv, TypeOK, BatchContiguous
  <2>3. TrackerIsTip' /\ MapsNeverStale' /\ TransactionIsolated' /\ ProcessConsistent'
    BY <2>1 DEF IInv, TrackerIsTip, MapsNeverStale, TransactionIsolated, ProcessConsistent, Fresh
  <2> QED
    BY <2>1, <2>2, <2>3 DEF IInv, IndexDetermined
<1> QED
  BY <1>1, <1>2

(* A transaction starts on the committed index. *)
LEMMA InvBegin ==
  ASSUME IInv, Begin
  PROVE  IInv'
<1>1. /\ pc = "blocks" /\ pc' = "tx" /\ step' = 1 /\ batch.next <= batch.last
      /\ UNCHANGED <<tip, db, subscribed, lastHeight, batch, poll, work, mem>>
  BY DEF Begin
<1>2. /\ batch.next = lastHeight + 1 /\ lastHeight \in 0 .. MaxHeight
      /\ batch.last <= batch.tip /\ batch.tip \in 0 .. MaxHeight /\ batch.last \in 0 .. MaxHeight
  BY <1>1 DEF IInv, TypeOK, BatchContiguous
<1>3. height \in Heights /\ height' = height /\ height - 1 = lastHeight
  BY <1>1, <1>2, Constants DEF height, Heights
<1>4. work = IndexUpTo(height - 1)
  BY <1>1, <1>3, ProcessUp DEF IInv, TransactionIsolated, TrackerIsTip
<1>5. TransactionIsolated'
  BY <1>1, <1>3, <1>4, StageEnds DEF TransactionIsolated
<1>6. TypeOK'
  BY <1>1, FiveHandlers DEF IInv, TypeOK
<1>7. TrackerIsTip' /\ MapsNeverStale' /\ BatchContiguous' /\ ProcessConsistent'
  BY <1>1 DEF IInv, TrackerIsTip, MapsNeverStale, BatchContiguous, ProcessConsistent, Fresh
<1> QED
  BY <1>1, <1>5, <1>6, <1>7 DEF IInv, IndexDetermined

(* What the polling goroutine sends is never above the tip, and the next   *)
(* batch starts after the last indexed block whatever was sent.            *)
LEMMA InvSubscription ==
  ASSUME IInv, Subscription
  PROVE  IInv'
<1>1. CASE Tick \/ TickFails \/ ReceiveReport
  <2>1. /\ poll'.state \in {"waiting", "height", "error"} /\ poll'.tip \in {0, tip}
        /\ poll' = [state |-> poll'.state, tip |-> poll'.tip]
        /\ UNCHANGED <<tip, db, pc, subscribed, lastHeight, batch, step, work, mem>>
    BY <1>1 DEF Tick, TickFails, ReceiveReport, Waiting
  <2>2. TypeOK' /\ BatchContiguous'
    BY <2>1, Constants DEF IInv, TypeOK, BatchContiguous
  <2>3. TrackerIsTip' /\ MapsNeverStale' /\ TransactionIsolated' /\ ProcessConsistent'
    BY <2>1 DEF IInv, TrackerIsTip, MapsNeverStale, TransactionIsolated, ProcessConsistent,
                Fresh, height, epochNumber
  <2> QED
    BY <2>1, <2>2, <2>3 DEF IInv, IndexDetermined
<1>2. CASE ReceiveHeight
  <2>1. /\ pc = "idle" /\ pc' = "request"
        /\ batch' = [start |-> lastHeight + 1, count |-> 0, tip |-> poll.tip,
                     next |-> 0, last |-> 0]
        /\ poll' = [state |-> "waiting", tip |-> 0]
        /\ UNCHANGED <<tip, db, subscribed, lastHeight, step, work, mem>>
    BY <1>2 DEF ReceiveHeight, EnterBatch, Waiting
  <2>2. poll.tip \in 0 .. MaxHeight /\ poll.tip <= tip /\ lastHeight \in 0 .. MaxHeight
    BY DEF IInv, TypeOK, BatchContiguous
  <2>3. TypeOK' /\ BatchContiguous'
    BY <2>1, <2>2, Constants DEF IInv, TypeOK, BatchContiguous
  <2>4. TrackerIsTip' /\ MapsNeverStale' /\ TransactionIsolated' /\ ProcessConsistent'
    BY <2>1 DEF IInv, TrackerIsTip, MapsNeverStale, TransactionIsolated, ProcessConsistent, Fresh
  <2> QED
    BY <2>1, <2>3, <2>4 DEF IInv, IndexDetermined
<1> QED
  BY <1>1, <1>2 DEF Subscription

-------------------------------------------------------------------------------
(* The handlers. *)

(* Maps of the block's own epoch are what the next block may find. *)
LEMMA OwnEpochIsFresh ==
  ASSUME IInv, pc = "tx"
  PROVE  Fresh(epochNumber)
<1>1. height \in Heights /\ lastHeight = height - 1 /\ lastHeight + 1 = height
  BY InTransaction
<1>2. IsEpochStart(height) \/ GetEpochNumber(height) = GetEpochNumber(height - 1)
  BY <1>1, EpochOfNext
<1> QED
  BY <1>1, <1>2 DEF Fresh, epochNumber

(* However far a handler gets, it leaves maps that can be used. *)
LEMMA MapsDuringUsable ==
  ASSUME IInv, pc = "tx", NEW id, NEW maps \in MapsDuring(id)
  PROVE  MapsUsable(maps)
<1>1. MapsUsable(mem)
  BY MapsBetweenBlocks
<1>2. /\ epochNumber \in Epochs /\ epochNumber # 0
      /\ Fresh(epochNumber) /\ lastHeight + 1 = height
  BY InTransaction, OwnEpochIsFresh, EpochType DEF epochNumber
<1>3. CASE maps = mem
  BY <1>1, <1>3
<1>4. CASE maps = [mem EXCEPT !.active = epochNumber, !.operator = epochNumber]
  BY <1>1, <1>2, <1>4 DEF MapsUsable
<1>5. CASE maps = [mem EXCEPT !.reward = epochNumber]
  BY <1>1, <1>2, <1>5 DEF MapsUsable
<1>6. CASE maps = [mem EXCEPT !.active = epochNumber] /\ BlocksMustRefresh
  BY <1>1, <1>2, <1>6 DEF MapsUsable
<1> QED
  BY <1>3, <1>4, <1>5, <1>6 DEF MapsDuring, MapsAfter, updateDelegates, updateCandidateRewardAddress,
                                   updateActiveBlockProducers

(* A handler that does not refresh its map holds the one of this epoch. *)
LEMMA MapsAreOfThisEpoch ==
  ASSUME IInv, pc = "tx"
  PROVE  /\ MapsAfter("blocks").active = epochNumber
         /\ MapsAfter("blocks").operator = epochNumber
         /\ MapsAfter("rewards").reward = epochNumber
<1>1. /\ height \in Heights /\ lastHeight = height - 1 /\ lastHeight + 1 = height
      /\ MapsUsable(mem)
  BY InTransaction, MapsBetweenBlocks
<1>2. ~ IsEpochStart(height) => GetEpochNumber(lastHeight) = epochNumber
  BY <1>1, EpochOfNext DEF epochNumber
<1>3. epochNumber # 0
  BY <1>1, EpochType DEF epochNumber
<1>4. MapsAfter("blocks").active = epochNumber /\ MapsAfter("blocks").operator = epochNumber
  <2>1. CASE BlocksMustRefresh
    BY <1>1, <2>1 DEF MapsAfter, updateDelegates, MapsUsable
  <2>2. CASE ~ BlocksMustRefresh
    <3>1. mem.active = epochNumber /\ mem.operator = epochNumber
      BY <1>1, <1>2, <2>2 DEF BlocksMustRefresh, MapsUsable, Fresh
    <3> QED
      BY <2>2, <3>1 DEF MapsAfter
  <2> QED
    BY <2>1, <2>2
<1>5. MapsAfter("rewards").reward = epochNumber
  <2>1. CASE RewardsMustRefresh
    BY <1>1, <2>1 DEF MapsAfter, updateCandidateRewardAddress, MapsUsable
  <2>2. CASE ~ RewardsMustRefresh
    <3>1. mem.reward = epochNumber
      BY <1>1, <1>2, <2>2 DEF RewardsMustRefresh, MapsUsable, Fresh
    <3> QED
      BY <2>2, <3>1 DEF MapsAfter
  <2> QED
    BY <2>1, <2>2
<1> QED
  BY <1>4, <1>5

(* A handler that has done its part of the block preserves the invariant.  *)
LEMMA InvHandled ==
  ASSUME IInv, pc = "tx", step \in 1 .. 5, step' = step + 1,
         work' = StageOf(height, step + 1),
         UNCHANGED <<tip, db, pc, subscribed, lastHeight, batch, poll>>,
         \E id : mem' = MapsAfter(id),
         step = 1 => mem' = MapsAfter("blocks"),
         step = 3 => mem' = MapsAfter("rewards"),
         step \notin {1, 3} => mem' = mem
  PROVE  IInv'
<1>1. /\ height \in Heights /\ height' = height /\ epochNumber' = epochNumber
      /\ lastHeight' = lastHeight
  BY InTransaction DEF height, epochNumber
<1>2. MapsUsable(mem')
  <2>1. PICK id : mem' = MapsAfter(id)
    OBVIOUS
  <2>2. MapsAfter(id) \in MapsDuring(id)
    BY DEF MapsDuring
  <2> QED
    BY <2>1, <2>2, MapsDuringUsable
<1>3. TypeOK'
  <2>1. work' \in Tables
    BY <1>1, StageType
  <2>2. step' \in 0 .. Len(IndexProtocols) + 1
    BY FiveHandlers
  <2> QED
    BY <1>2, <2>1, <2>2 DEF IInv, TypeOK, MapsUsable
<1>4. MapsNeverStale'
  BY <1>1, <1>2 DEF MapsNeverStale, MapsUsable, Fresh
<1>5. TransactionIsolated'
  BY <1>1 DEF TransactionIsolated
<1>6. ProcessConsistent'
  <2>1. step' > 1 => mem'.active = epochNumber /\ mem'.operator = epochNumber
    <3>1. CASE step = 1
      BY <3>1, MapsAreOfThisEpoch
    <3>2. CASE step = 3
      <4>1. /\ mem' = MapsAfter("rewards")
            /\ mem.active = epochNumber /\ mem.operator = epochNumber
        BY <3>2 DEF IInv, ProcessConsistent
      <4>2. mem \in [active : {0} \cup Epochs, operator : {0} \cup Epochs, reward : {0} \cup Epochs]
        BY DEF IInv, TypeOK
      <4> QED
        BY <4>1, <4>2 DEF MapsAfter, updateCandidateRewardAddress
    <3>3. CASE step \notin {1, 3}
      BY <3>3 DEF IInv, ProcessConsistent
    <3> QED
      BY <3>1, <3>2, <3>3
  <2>2. step' > 3 => mem'.reward = epochNumber
    <3>1. CASE step = 3
      BY <3>1, MapsAreOfThisEpoch
    <3>2. CASE step # 3
      BY <3>2 DEF IInv, ProcessConsistent
    <3> QED
      BY <3>1, <3>2
  <2> QED
    BY <1>1, <2>1, <2>2 DEF IInv, ProcessConsistent
<1>7. IndexDetermined' /\ TrackerIsTip' /\ BatchContiguous'
  BY DEF IInv, IndexDetermined, TrackerIsTip, BatchContiguous
<1> QED
  BY <1>3, <1>4, <1>5, <1>6, <1>7 DEF IInv

(* A handler that rebuilds a report and adds a row updates two tables.     *)
LEMMA UpdateBlocks ==
  ASSUME NEW t \in Tables, NEW x, NEW y
  PROVE  [t EXCEPT !.productivity = x, !.block = y] =
           [block |-> y, action |-> t.action, reward |-> t.reward, voting |-> t.voting,
            balance |-> t.balance, productivity |-> x,
            accountReward |-> t.accountReward, accountIncome |-> t.accountIncome]
<1> DEFINE r == [t EXCEPT !.productivity = x]
<1>1. r =
        [block |-> t.block, action |-> t.action, reward |-> t.reward, voting |-> t.voting,
         balance |-> t.balance, productivity |-> x,
         accountReward |-> t.accountReward, accountIncome |-> t.accountIncome]
  BY DEF Tables
<1>2. [t EXCEPT !.productivity = x, !.block = y] = [r EXCEPT !.block = y]
  OBVIOUS
<1> HIDE DEF r
<1> QED
  BY <1>1, <1>2

LEMMA UpdateRewards ==
  ASSUME NEW t \in Tables, NEW x, NEW y
  PROVE  [t EXCEPT !.accountReward = x, !.reward = y] =
           [block |-> t.block, action |-> t.action, reward |-> y, voting |-> t.voting,
            balance |-> t.balance, productivity |-> t.productivity,
            accountReward |-> x, accountIncome |-> t.accountIncome]
<1> DEFINE r == [t EXCEPT !.accountReward = x]
<1>1. r =
        [block |-> t.block, action |-> t.action, reward |-> t.reward, voting |-> t.voting,
         balance |-> t.balance, productivity |-> t.productivity,
         accountReward |-> x, accountIncome |-> t.accountIncome]
  BY DEF Tables
<1>2. [t EXCEPT !.accountReward = x, !.reward = y] = [r EXCEPT !.reward = y]
  OBVIOUS
<1> HIDE DEF r
<1> QED
  BY <1>1, <1>2

LEMMA UpdateBalances ==
  ASSUME NEW t \in Tables, NEW x, NEW y
  PROVE  [t EXCEPT !.accountIncome = x, !.balance = y] =
           [block |-> t.block, action |-> t.action, reward |-> t.reward, voting |-> t.voting,
            balance |-> y, productivity |-> t.productivity,
            accountReward |-> t.accountReward, accountIncome |-> x]
<1> DEFINE r == [t EXCEPT !.accountIncome = x]
<1>1. r =
        [block |-> t.block, action |-> t.action, reward |-> t.reward, voting |-> t.voting,
         balance |-> t.balance, productivity |-> t.productivity,
         accountReward |-> t.accountReward, accountIncome |-> x]
  BY DEF Tables
<1>2. [t EXCEPT !.accountIncome = x, !.balance = y] = [r EXCEPT !.balance = y]
  OBVIOUS
<1> HIDE DEF r
<1> QED
  BY <1>1, <1>2

(* The tables a handler is responsible for are the ones in which two       *)
(* stages of a transaction differ.                                         *)
LEMMA StageBlocks ==
  ASSUME NEW n \in Heights
  PROVE  StageOf(n, 2) = [StageOf(n, 1) EXCEPT !.productivity = IndexUpTo(n).productivity,
                                            !.block = IndexUpTo(n).block]
<1> DEFINE t == StageOf(n, 1)
<1> HIDE DEF IndexUpTo
<1>1. t \in Tables
  BY StageType
<1>2. /\ t.block = IndexUpTo(n - 1).block
      /\ t.action = IndexUpTo(n - 1).action
      /\ t.reward = IndexUpTo(n - 1).reward
      /\ t.voting = IndexUpTo(n - 1).voting
      /\ t.balance = IndexUpTo(n - 1).balance
      /\ t.productivity = IndexUpTo(n - 1).productivity
      /\ t.accountReward = IndexUpTo(n - 1).accountReward
      /\ t.accountIncome = IndexUpTo(n - 1).accountIncome
  BY DEF StageOf
<1> HIDE DEF t
<1> DEFINE u ==
        [block |-> IndexUpTo(n).block, action |-> t.action, reward |-> t.reward,
         voting |-> t.voting, balance |-> t.balance,
         productivity |-> IndexUpTo(n).productivity, accountReward |-> t.accountReward,
         accountIncome |-> t.accountIncome]
<1>3. [t EXCEPT !.productivity = IndexUpTo(n).productivity, !.block = IndexUpTo(n).block] = u
  BY <1>1, UpdateBlocks
<1>4. StageOf(n, 2) = u
  BY <1>2 DEF StageOf
<1> QED
  BY <1>3, <1>4 DEF t

LEMMA StageRewards ==
  ASSUME NEW n \in Heights
  PROVE  StageOf(n, 4) = [StageOf(n, 3) EXCEPT !.accountReward = IndexUpTo(n).accountReward,
                                            !.reward = IndexUpTo(n).reward]
<1> DEFINE t == StageOf(n, 3)
<1> HIDE DEF IndexUpTo
<1>1. t \in Tables
  BY StageType
<1>2. /\ t.block = IndexUpTo(n).block
      /\ t.action = IndexUpTo(n).action
      /\ t.reward = IndexUpTo(n - 1).reward
      /\ t.voting = IndexUpTo(n - 1).voting
      /\ t.balance = IndexUpTo(n - 1).balance
      /\ t.productivity = IndexUpTo(n).productivity
      /\ t.accountReward = IndexUpTo(n - 1).accountReward
      /\ t.accountIncome = IndexUpTo(n - 1).accountIncome
  BY DEF StageOf
<1> HIDE DEF t
<1> DEFINE u ==
        [block |-> t.block, action |-> t.action, reward |-> IndexUpTo(n).reward,
         voting |-> t.voting, balance |-> t.balance,
         productivity |-> t.productivity, accountReward |-> IndexUpTo(n).accountReward,
         accountIncome |-> t.accountIncome]
<1>3. [t EXCEPT !.accountReward = IndexUpTo(n).accountReward, !.reward = IndexUpTo(n).reward] = u
  BY <1>1, UpdateRewards
<1>4. StageOf(n, 4) = u
  BY <1>2 DEF StageOf
<1> QED
  BY <1>3, <1>4 DEF t

LEMMA StageBalances ==
  ASSUME NEW n \in Heights
  PROVE  StageOf(n, 6) = [StageOf(n, 5) EXCEPT !.accountIncome = IndexUpTo(n).accountIncome,
                                            !.balance = IndexUpTo(n).balance]
<1> DEFINE t == StageOf(n, 5)
<1> HIDE DEF IndexUpTo
<1>1. t \in Tables
  BY StageType
<1>2. /\ t.block = IndexUpTo(n).block
      /\ t.action = IndexUpTo(n).action
      /\ t.reward = IndexUpTo(n).reward
      /\ t.voting = IndexUpTo(n).voting
      /\ t.balance = IndexUpTo(n - 1).balance
      /\ t.productivity = IndexUpTo(n).productivity
      /\ t.accountReward = IndexUpTo(n).accountReward
      /\ t.accountIncome = IndexUpTo(n - 1).accountIncome
  BY DEF StageOf
<1> HIDE DEF t
<1> DEFINE u ==
        [block |-> t.block, action |-> t.action, reward |-> t.reward,
         voting |-> t.voting, balance |-> IndexUpTo(n).balance,
         productivity |-> t.productivity, accountReward |-> t.accountReward,
         accountIncome |-> IndexUpTo(n).accountIncome]
<1>3. [t EXCEPT !.accountIncome = IndexUpTo(n).accountIncome, !.balance = IndexUpTo(n).balance] = u
  BY <1>1, UpdateBalances
<1>4. StageOf(n, 6) = u
  BY <1>2 DEF StageOf
<1> QED
  BY <1>3, <1>4 DEF t

(* Each handler brings its own tables to the state they must have with     *)
(* this block, from the tables its predecessors and the blocks before left. *)
LEMMA InvHandleBlocks ==
  ASSUME IInv, HandleBlocks
  PROVE  IInv'
<1> DEFINE before == IndexUpTo(height - 1)
           after == IndexUpTo(height)
<1>1. /\ pc = "tx" /\ step = 1 /\ step' = step + 1 /\ mem' = MapsAfter("blocks")
      /\ work' = [work EXCEPT
           !.productivity = Rebuilt(work.productivity, HeightsOf(work.block)),
           !.block = @ \cup {[height |-> height, active |-> mem'.active,
                              names |-> mem'.operator]}]
      /\ UNCHANGED <<tip, db, pc, subscribed, lastHeight, batch, poll>>
  BY DEF HandleBlocks, Running, IndexProtocols, rebuildProductivityTable
<1>2. height \in Heights /\ height - 1 \in 0 .. MaxHeight /\ work = StageOf(height, 1)
  BY <1>1, InTransaction
<1>3. [height |-> height, active |-> mem'.active, names |-> mem'.operator] = BlockRow(height)
  BY <1>1, MapsAreOfThisEpoch DEF BlockRow, epochNumber
<1>4. work = before /\ before \in Tables /\ HeightsOf(before.block) = 1 .. height - 1
  BY <1>2, StageEnds, HeightsOfIndex, IndexType
<1>5. Rebuilt(before.productivity, HeightsOf(before.block)) = after.productivity
  BY <1>2, <1>4, RebuiltReports DEF IndexUpTo
<1>6. after.block = before.block \cup {BlockRow(height)}
  BY <1>2, NextRows
<1> HIDE DEF before, after
<1>7. work' = [before EXCEPT !.productivity = after.productivity, !.block = after.block]
  BY <1>1, <1>3, <1>4, <1>5, <1>6
<1>8. work' = StageOf(height, step + 1)
  <2>1. StageOf(height, 2) = [StageOf(height, 1) EXCEPT !.productivity = after.productivity,
                                                    !.block = after.block]
    BY <1>2, StageBlocks DEF after
  <2>2. StageOf(height, 1) = before /\ step + 1 = 2
    BY <1>1, <1>2, <1>4
  <2> QED
    BY <1>7, <2>1, <2>2
<1> QED
  BY <1>1, <1>8, InvHandled

LEMMA InvHandleActions ==
  ASSUME IInv, HandleActions
  PROVE  IInv'
<1> DEFINE after == IndexUpTo(height)
<1>1. /\ pc = "tx" /\ step = 2 /\ step' = step + 1
      /\ work' = [work EXCEPT !.action = @ \cup {height}]
      /\ UNCHANGED <<tip, db, pc, subscribed, lastHeight, batch, poll, mem>>
  BY DEF HandleActions, Running, IndexProtocols
<1>2. height \in Heights /\ work = StageOf(height, 2)
  BY <1>1, InTransaction
<1>3. work.action \cup {height} = after.action
  BY <1>2, NextRows DEF StageOf
<1> HIDE DEF after
<1>4. work' = [work EXCEPT !.action = after.action]
  BY <1>1, <1>3
<1>5. work' = StageOf(height, step + 1)
  BY <1>1, <1>2, <1>4 DEF StageOf, after
<1>6. mem' = MapsAfter("actions")
  BY <1>1 DEF MapsAfter
<1> QED
  BY <1>1, <1>5, <1>6, InvHandled

LEMMA InvHandleRewards ==
  ASSUME IInv, HandleRewards
  PROVE  IInv'
<1> DEFINE before == IndexUpTo(height - 1)
           after == IndexUpTo(height)
<1>1. /\ pc = "tx" /\ step = 3 /\ step' = step + 1 /\ mem' = MapsAfter("rewards")
      /\ work' = [work EXCEPT
           !.accountReward = Rebuilt(work.accountReward, HeightsOf(work.reward)),
           !.reward = @ \cup {[height |-> height, names |-> mem'.reward]}]
      /\ UNCHANGED <<tip, db, pc, subscribed, lastHeight, batch, poll>>
  BY DEF HandleRewards, Running, IndexProtocols, rebuildAccountRewardTable
<1>2. height \in Heights /\ height - 1 \in 0 .. MaxHeight /\ work = StageOf(height, 3)
  BY <1>1, InTransaction
<1>3. [height |-> height, names |-> mem'.reward] = RewardRow(height)
  BY <1>1, MapsAreOfThisEpoch DEF RewardRow, epochNumber
<1>4. /\ work.reward = before.reward /\ work.accountReward = before.accountReward
      /\ HeightsOf(before.reward) = 1 .. height - 1
  <2> HIDE DEF IndexUpTo
  <2>1. work.reward = before.reward /\ work.accountReward = before.accountReward
    BY <1>2 DEF StageOf
  <2> QED
    BY <1>2, <2>1, HeightsOfIndex
<1>5. Rebuilt(before.accountReward, HeightsOf(before.reward)) = after.accountReward
  BY <1>2, <1>4, RebuiltReports DEF IndexUpTo
<1>6. after.reward = before.reward \cup {RewardRow(height)}
  BY <1>2, NextRows
<1> HIDE DEF before, after
<1>7. work' = [work EXCEPT !.accountReward = after.accountReward, !.reward = after.reward]
  BY <1>1, <1>3, <1>4, <1>5, <1>6
<1>8. work' = StageOf(height, step + 1)
  <2>1. StageOf(height, 4) = [StageOf(height, 3) EXCEPT !.accountReward = after.accountReward,
                                                    !.reward = after.reward]
    BY <1>2, StageRewards DEF after
  <2>2. StageOf(height, 3) = work /\ step + 1 = 4
    BY <1>1, <1>2
  <2> QED
    BY <1>7, <2>1, <2>2
<1> QED
  BY <1>1, <1>8, InvHandled

LEMMA InvHandleVotings ==
  ASSUME IInv, HandleVotings
  PROVE  IInv'
<1> DEFINE after == IndexUpTo(height)
<1>1. /\ pc = "tx" /\ step = 4 /\ step' = step + 1
      /\ work' = [work EXCEPT !.voting = IF IsEpochStart(height) THEN @ \cup {epochNumber} ELSE @]
      /\ UNCHANGED <<tip, db, pc, subscribed, lastHeight, batch, poll, mem>>
  BY DEF HandleVotings, Running, IndexProtocols
<1>2. height \in Heights /\ work = StageOf(height, 4)
  BY <1>1, InTransaction
<1>3. (IF IsEpochStart(height) THEN work.voting \cup {epochNumber} ELSE work.voting) = after.voting
  BY <1>2, NextRows DEF StageOf, epochNumber
<1> HIDE DEF after
<1>4. work' = [work EXCEPT !.voting = after.voting]
  BY <1>1, <1>3
<1>5. work' = StageOf(height, step + 1)
  BY <1>1, <1>2, <1>4 DEF StageOf, after
<1>6. mem' = MapsAfter("votings")
  BY <1>1 DEF MapsAfter
<1> QED
  BY <1>1, <1>5, <1>6, InvHandled

LEMMA InvHandleAccounts ==
  ASSUME IInv, ErrorsReported, HandleAccounts
  PROVE  IInv'
<1> DEFINE before == IndexUpTo(height - 1)
           after == IndexUpTo(height)
<1>1. /\ pc = "tx" /\ step = 5 /\ step' = step + 1
      /\ work' = [work EXCEPT
           !.accountIncome = Rebuilt(work.accountIncome, work.balance),
           !.balance = @ \cup {height}]
      /\ UNCHANGED <<tip, db, pc, subscribed, lastHeight, batch, poll, mem>>
  <2>1. "txlog" \notin Env
    BY DEF ErrorsReported
  <2>2. pc = "tx" /\ step = 5
    BY DEF HandleAccounts, Running, IndexProtocols
  <2> QED
    BY <2>1, <2>2 DEF HandleAccounts, getTransactionLog, rebuildAccountIncomeTable
<1>2. height \in Heights /\ work = StageOf(height, 5)
  BY <1>1, InTransaction
<1>3. /\ work.balance = before.balance /\ work.accountIncome = before.accountIncome
      /\ before.balance = 0 .. height - 1
  <2>1. before.balance = 0 .. height - 1
    BY DEF IndexUpTo
  <2> HIDE DEF IndexUpTo
  <2>2. work.balance = before.balance /\ work.accountIncome = before.accountIncome
    BY <1>2 DEF StageOf
  <2> QED
    BY <2>1, <2>2
<1>4. Rebuilt(before.accountIncome, before.balance) = after.accountIncome
  BY <1>2, <1>3, RebuiltReports DEF IndexUpTo
<1>5. after.balance = before.balance \cup {height}
  BY <1>2, NextRows
<1> HIDE DEF before, after
<1>6. work' = [work EXCEPT !.accountIncome = after.accountIncome, !.balance = after.balance]
  BY <1>1, <1>3, <1>4, <1>5
<1>7. work' = StageOf(height, step + 1)
  <2>1. StageOf(height, 6) = [StageOf(height, 5) EXCEPT !.accountIncome = after.accountIncome,
                                                    !.balance = after.balance]
    BY <1>2, StageBalances DEF after
  <2>2. StageOf(height, 5) = work /\ step + 1 = 6
    BY <1>1, <1>2
  <2> QED
    BY <1>6, <2>1, <2>2
<1>8. mem' = MapsAfter("accounts")
  BY <1>1 DEF MapsAfter
<1> QED
  BY <1>1, <1>7, <1>8, InvHandled

(* With the last handler done, COMMIT makes the index one block longer.    *)
LEMMA InvCommit ==
  ASSUME IInv, Commit
  PROVE  IInv'
<1>1. /\ pc = "tx" /\ step = 6 /\ lastHeight' = height
      /\ batch' = [batch EXCEPT !.next = @ + 1]
      /\ pc' = "blocks" /\ step' = 0 /\ db' = work
      /\ UNCHANGED <<tip, subscribed, poll, work, mem>>
  BY FiveHandlers DEF Commit, Tracked
<1>2. /\ height \in Heights /\ height <= tip /\ work = IndexUpTo(height)
  BY <1>1, InTransaction, StageEnds, FiveHandlers
<1>3. height \in 0 .. tip /\ height \in 0 .. MaxHeight
  BY <1>2, Constants DEF Heights, IInv, TypeOK
<1>4. /\ mem.active = epochNumber /\ mem.operator = epochNumber /\ mem.reward = epochNumber
      /\ epochNumber = GetEpochNumber(height)
      /\ epochNumber # 0
  BY <1>1, <1>2, EpochType DEF IInv, ProcessConsistent, epochNumber
<1>5. /\ batch \in [start : Nat, count : Nat, tip : 0 .. MaxHeight,
                    next : Nat, last : 0 .. MaxHeight]
      /\ height = batch.next /\ height <= batch.last
  BY <1>1 DEF IInv, TypeOK, BatchContiguous, height
<1>6. /\ batch' \in [start : Nat, count : Nat, tip : 0 .. MaxHeight,
                     next : Nat, last : 0 .. MaxHeight]
      /\ batch'.next = height + 1 /\ batch'.start = batch.start /\ batch'.count = batch.count
      /\ batch'.tip = batch.tip /\ batch'.last = batch.last
  BY <1>1, <1>5
<1>7. TypeOK'
  BY <1>1, <1>3, <1>6, FiveHandlers DEF IInv, TypeOK
<1>8. IndexDetermined'
  BY <1>1, <1>2, <1>3 DEF IndexDetermined
<1>9. TrackerIsTip'
  BY <1>1, <1>2, <1>3, TipOfIndex DEF TrackerIsTip
<1>10. MapsNeverStale'
  BY <1>1, <1>4 DEF MapsNeverStale, Fresh
<1>11. BatchContiguous'
  <2>1. batch.start <= lastHeight + 1 /\ batch.last + 1 = batch.start + batch.count
        /\ batch.last <= batch.tip /\ batch.tip <= tip /\ poll.tip <= tip
        /\ lastHeight + 1 = height
    BY <1>1, InTransaction DEF IInv, BatchContiguous
  <2>2. height \in Nat /\ batch.last \in Nat /\ batch.start \in Nat
    BY <1>2, <1>5, EpochType, Constants
  <2> QED
    BY <1>1, <1>5, <1>6, <2>1, <2>2 DEF BatchContiguous
<1>12. ProcessConsistent'
  <2>1. 0 \in IndexUpTo(height).balance
    BY <1>3, Constants DEF IndexUpTo
  <2> QED
    BY <1>1, <1>2, <2>1 DEF ProcessConsistent
<1>13. TransactionIsolated'
  BY <1>1 DEF TransactionIsolated
<1> QED
  BY <1>7, <1>8, <1>9, <1>10, <1>11, <1>12, <1>13 DEF IInv

(* A batch that fails, wherever it does. *)
LEMMA InvFailure ==
  ASSUME IInv, RequestFails \/ BeginFails \/ HandlerFails \/ HandlerRefused
  PROVE  IInv'
<1>1. CASE RequestFails \/ BeginFails
  <2>1. pc \in {"request", "blocks"} /\ ReturnError(mem)
    BY <1>1 DEF RequestFails, BeginFails
  <2> QED
    BY <2>1, MapsBetweenBlocks, InvReturnError
<1>2. CASE HandlerFails
  <2>1. PICK id : pc = "tx" /\ \E maps \in MapsDuring(id) : ReturnError(maps)
    BY <1>2 DEF HandlerFails, Running
  <2>2. PICK maps \in MapsDuring(id) : ReturnError(maps)
    BY <2>1
  <2> QED
    BY <2>1, <2>2, MapsDuringUsable, InvReturnError
<1>3. CASE HandlerRefused
  BY <1>3, NeverRefused DEF HandlerRefused
<1> QED
  BY <1>1, <1>2, <1>3

(* Every step preserves the invariant. *)
LEMMA InvNext ==
  ASSUME ErrorsReported, IInv, [Next]_vars
  PROVE  IInv'
<1>1. CASE ChainGrows
  BY <1>1, InvChainGrows
<1>2. CASE Crash \/ CatchUpFails
  BY <1>2, InvExit DEF Crash, CatchUpFails
<1>3. CASE Initialize
  BY <1>3, InvInitialize
<1>4. CASE CatchUp \/ StayReadOnly
  BY <1>4, InvBoot
<1>5. CASE RequestBlocks
  BY <1>5, InvRequestBlocks
<1>6. CASE ReplyDone \/ BatchDone
  BY <1>6, InvBatchSteps
<1>7. CASE Begin
  BY <1>7, InvBegin
<1>8. CASE RequestFails \/ BeginFails \/ HandlerFails \/ HandlerRefused
  BY <1>8, InvFailure
<1>9. CASE HandleBlocks
  BY <1>9, InvHandleBlocks
<1>10. CASE HandleActions
  BY <1>10, InvHandleActions
<1>11. CASE HandleRewards
  BY <1>11, InvHandleRewards
<1>12. CASE HandleVotings
  BY <1>12, InvHandleVotings
<1>13. CASE HandleAccounts
  BY <1>13, InvHandleAccounts
<1>14. CASE Commit
  BY <1>14, InvCommit
<1>15. CASE Subscription
  BY <1>15, InvSubscription
<1>16. CASE InitializeNotCommitted \/ CommitFails \/ HandlerPanics
  BY <1>16 DEF InitializeNotCommitted, CommitFails, HandlerPanics, ErrorsReported
<1>17. CASE UNCHANGED vars
  BY <1>17
  DEF vars, process, IInv, TypeOK, IndexDetermined, TrackerIsTip, MapsNeverStale,
      TransactionIsolated, BatchContiguous, ProcessConsistent, Fresh, height, epochNumber
<1> QED
  BY <1>1, <1>2, <1>3, <1>4, <1>5, <1>6, <1>7, <1>8, <1>9, <1>10, <1>11, <1>12,
     <1>13, <1>14, <1>15, <1>16, <1>17
  DEF Next, Start, IndexInBatch, Transact, HandleBlock

-------------------------------------------------------------------------------

(* The inductive invariant holds in every reachable state. *)
THEOREM InductiveInvariant ==
  ASSUME ErrorsReported
  PROVE  Spec => []IInv
<1>1. Init => IInv
  BY InvInit
<1>2. IInv /\ [Next]_vars => IInv'
  BY InvNext
<1> QED
  BY <1>1, <1>2, PTL DEF Spec

(* Transact, IndexInBatch and Start together make the database a function  *)
(* of the height it has reached: no gap, no partial block, no label from   *)
(* another epoch, and complete reports for every epoch that is over.       *)
THEOREM IndexIsDetermined ==
  ASSUME ErrorsReported
  PROVE  Spec => []IndexDetermined
<1>1. IInv => IndexDetermined
  BY DEF IInv
<1> QED
  BY <1>1, InductiveInvariant, PTL

(* Indexer.lastHeight and MAX(block_height) agree whenever blocks are      *)
(* indexed, so that a restart resumes where the process stopped.           *)
THEOREM TrackerIsAlwaysTip ==
  ASSUME ErrorsReported
  PROVE  Spec => []TrackerIsTip
<1>1. IInv => TrackerIsTip
  BY DEF IInv
<1> QED
  BY <1>1, InductiveInvariant, PTL

(* The delegate maps of the blocks and rewards protocols survive rollbacks *)
(* without ever being taken for another epoch's.                           *)
THEOREM MapsAreNeverStale ==
  ASSUME ErrorsReported
  PROVE  Spec => []MapsNeverStale
<1>1. IInv => MapsNeverStale
  BY DEF IInv
<1> QED
  BY <1>1, InductiveInvariant, PTL

-------------------------------------------------------------------------------
(* The indexer implements ChainIndex. *)

(* The abstract specification counts epochs as the indexer does. *)
LEMMA SameEpochs ==
  ASSUME NEW h
  PROVE  /\ Index!GetEpochNumber(h) = GetEpochNumber(h)
         /\ Index!IsEpochStart(h) <=> IsEpochStart(h)
BY DEF Index!IsEpochStart, Index!GetEpochHeight, Index!GetEpochNumber, Index!PreForkEpoch,
       Index!PreForkHeight, Index!DardanellesEpoch, Index!DardanellesEpochHeight,
       Index!EpochLength, Index!EpochLengthDardanelles,
       IsEpochStart, GetEpochHeight, GetEpochNumber, PreForkEpoch,
       PreForkHeight, DardanellesEpoch, DardanellesEpochHeight,
       EpochLength, EpochLengthDardanelles

(* The first block of an epoch is a height of the model. *)
LEMMA EpochNotEmpty ==
  ASSUME NEW e \in Epochs
  PROVE  BlocksOf(e) # {}
<1> DEFINE last == GetEpochNumber(MaxHeight)
<1>1. last \in Nat \ {0} /\ GetEpochHeight(last) <= MaxHeight
  BY Constants, HeightInEpoch
<1>2. e \in Nat \ {0} /\ e <= last
  BY <1>1 DEF Epochs
<1>3. GetEpochHeight(e) \in Nat \ {0} /\ GetEpochHeight(e) <= GetEpochHeight(last)
  <2>1. GetEpochHeight(e) \in Nat \ {0}
    BY <1>2, Constants, EpochHeightIncreasing
  <2>2. e < last => GetEpochHeight(e) < GetEpochHeight(last)
    BY <1>1, <1>2, Constants, EpochHeightIncreasing
  <2>3. GetEpochHeight(last) \in Nat
    <3>1. last + 1 \in Nat /\ last < last + 1
      BY <1>1
    <3> QED
      BY <1>1, <3>1, Constants, EpochHeightIncreasing
  <2> QED
    BY <1>1, <1>2, <2>1, <2>2, <2>3
<1>4. GetEpochHeight(e) \in Heights
  <2>1. GetEpochHeight(last) \in Nat
    <3>1. last + 1 \in Nat /\ last < last + 1
      BY <1>1
    <3> QED
      BY <1>1, <3>1, Constants, EpochHeightIncreasing
  <2> HIDE DEF last
  <2> QED
    BY <1>1, <1>3, <2>1, Constants DEF Heights
<1>5. GetEpochNumber(GetEpochHeight(e)) = e
  BY <1>2, Constants, EpochRoundTrip
<1> QED
  BY <1>4, <1>5 DEF BlocksOf

(* The refinement mapping of the index up to a height. *)
LEMMA MappedIndex ==
  ASSUME NEW n \in 0 .. MaxHeight
  PROVE  /\ IndexedIn(IndexUpTo(n)) = 1 .. n
         /\ ClosedIn(IndexUpTo(n)) = {e \in Epochs : e < GetEpochNumber(n)}
<1>1. IndexedIn(IndexUpTo(n)) = 1 .. n
  <2>1. /\ HeightsOf(IndexUpTo(n).block) = 1 .. n
        /\ HeightsOf(IndexUpTo(n).reward) = 1 .. n
        /\ IndexUpTo(n).action = 1 .. n
        /\ IndexUpTo(n).balance = 0 .. n
    BY HeightsOfIndex DEF IndexUpTo
  <2>2. (1 .. n) \cap (0 .. n) = 1 .. n
    BY Constants
  <2> QED
    BY <2>1, <2>2 DEF IndexedIn
<1>2. ASSUME NEW e \in Epochs
      PROVE  ReportsUpTo(n)[e] = BlocksOf(e) <=> e < GetEpochNumber(n)
  <2>1. CASE e < GetEpochNumber(n)
    <3>1. \A h \in Heights : GetEpochNumber(h) = e => h \in 1 .. n
      <4>1. SUFFICES ASSUME NEW h \in Heights, GetEpochNumber(h) = e, h > n
                     PROVE  FALSE
        BY Constants DEF Heights
      <4>2. n # 0
        BY <2>1, Constants DEF Epochs
      <4>3. GetEpochNumber(n) <= GetEpochNumber(h)
        BY <4>1, <4>2, Constants, EpochType, EpochMonotone
      <4>4. GetEpochNumber(n) \in Nat /\ GetEpochNumber(h) \in Nat
        BY <4>2, EpochType, Constants, HeightInEpoch
      <4> QED
        BY <2>1, <4>1, <4>3, <4>4
    <3>2. 1 .. n \subseteq Heights
      BY Constants DEF Heights
    <3>3. {h \in 1 .. n : GetEpochNumber(h) = e} = BlocksOf(e)
      BY <3>1, <3>2 DEF BlocksOf
    <3> QED
      BY <2>1, <3>3 DEF ReportsUpTo
  <2>2. CASE ~ (e < GetEpochNumber(n))
    BY <2>2, EpochNotEmpty DEF ReportsUpTo
  <2> QED
    BY <2>1, <2>2
<1>3. /\ IndexUpTo(n).productivity = ReportsUpTo(n)
      /\ IndexUpTo(n).accountReward = ReportsUpTo(n)
      /\ IndexUpTo(n).accountIncome = ReportsUpTo(n)
  BY DEF IndexUpTo
<1>4. ClosedIn(IndexUpTo(n)) = {e \in Epochs : e < GetEpochNumber(n)}
  BY <1>2, <1>3 DEF ClosedIn
<1> QED
  BY <1>1, <1>4

(* The empty database maps to the empty index, as does the one that holds  *)
(* the genesis balances only.                                              *)
LEMMA MappedEmpty == IndexedIn(EmptyTables) = {} /\ ClosedIn(EmptyTables) = {}
<1>1. IndexedIn(EmptyTables) = {}
  BY DEF IndexedIn, EmptyTables, HeightsOf
<1>2. \A e \in Epochs : EmptyTables.productivity[e] # BlocksOf(e)
  BY EpochNotEmpty DEF EmptyTables
<1> QED
  BY <1>1, <1>2 DEF ClosedIn

(* Indexing a block is the abstract Append. *)
LEMMA CommitAppends ==
  ASSUME IInv, Commit
  PROVE  Index!Append
<1> DEFINE h == height
<1>1. pc = "tx" /\ step = 6 /\ db' = work /\ UNCHANGED tip
  BY FiveHandlers DEF Commit, Tracked
<1>2. /\ h \in Heights /\ h <= tip /\ h - 1 \in 0 .. MaxHeight
      /\ db = IndexUpTo(h - 1) /\ db' = IndexUpTo(h)
  BY <1>1, InTransaction, StageEnds, FiveHandlers
<1>3. h \in 0 .. MaxHeight /\ h \in 1 .. tip
  BY <1>2, Constants DEF Heights, IInv, TypeOK
<1>4. /\ IndexedIn(db) = 1 .. h - 1 /\ IndexedIn(db') = 1 .. h
      /\ ClosedIn(db) = {e \in Epochs : e < GetEpochNumber(h - 1)}
      /\ ClosedIn(db') = {e \in Epochs : e < GetEpochNumber(h)}
  BY <1>2, <1>3, MappedIndex
<1>5. /\ GetEpochNumber(h - 1) \in Nat
      /\ ~ IsEpochStart(h) => GetEpochNumber(h) = GetEpochNumber(h - 1)
      /\ IsEpochStart(h) => GetEpochNumber(h) = GetEpochNumber(h - 1) + 1
  BY <1>2, EpochOfNext
<1>6. h = 1 => GetEpochNumber(h - 1) = 0 /\ GetEpochNumber(h) = 1
  BY Constants, FirstEpoch
<1>7. h > 1 => GetEpochNumber(h - 1) \in Epochs
  <2>1. h > 1 => h - 1 \in Heights
    BY <1>2, <1>3, Constants DEF Heights
  <2> QED
    BY <2>1, EpochType
<1>8. \A e \in Epochs : e \in Nat \ {0}
  <2>1. GetEpochNumber(MaxHeight) \in Nat
    BY Constants, HeightInEpoch
  <2> QED
    BY <2>1 DEF Epochs
<1>9. ClosedIn(db') = IF IsEpochStart(h) /\ h > 1 THEN ClosedIn(db) \cup {GetEpochNumber(h) - 1}
                                                 ELSE ClosedIn(db)
  <2>1. CASE IsEpochStart(h) /\ h > 1
    BY <1>4, <1>5, <1>7, <1>8, <2>1
  <2>2. CASE ~ (IsEpochStart(h) /\ h > 1)
    <3>1. h = 1 \/ GetEpochNumber(h) = GetEpochNumber(h - 1)
      BY <1>3, <1>5, <2>2
    <3>2. \A e \in Epochs : (e < GetEpochNumber(h)) <=> (e < GetEpochNumber(h - 1))
      BY <1>6, <1>8, <3>1
    <3> QED
      BY <1>4, <2>2, <3>2
  <2> QED
    BY <2>1, <2>2
<1> HIDE DEF h
<1> QED
  BY <1>1, <1>3, <1>4, <1>9, SameEpochs DEF Index!Append

(* The genesis balances are no block, and close no epoch. *)
LEMMA InitializeStutters ==
  ASSUME IInv, Initialize
  PROVE  UNCHANGED <<tip, IndexedIn(db), ClosedIn(db)>>
<1>1. db' = [db EXCEPT !.balance = @ \cup {0}] /\ UNCHANGED tip
  BY DEF Initialize, InitialBalances
<1>2. db \in Tables
  BY DEF IInv, TypeOK
<1>3. /\ db'.block = db.block /\ db'.action = db.action /\ db'.reward = db.reward
      /\ db'.balance = db.balance \cup {0}
      /\ db'.productivity = db.productivity
      /\ db'.accountReward = db.accountReward
      /\ db'.accountIncome = db.accountIncome
  BY <1>1, <1>2 DEF Tables
<1>4. 0 \notin db.action
  BY <1>2, Constants DEF Tables, Heights
<1>5. IndexedIn(db') = IndexedIn(db)
  BY <1>3, <1>4 DEF IndexedIn
<1>6. ClosedIn(db') = ClosedIn(db)
  BY <1>3 DEF ClosedIn
<1> QED
  BY <1>1, <1>5, <1>6

(* Every other step leaves the tables alone. *)
LEMMA StepsOfIndex ==
  ASSUME ErrorsReported, IInv, [Next]_vars
  PROVE  [Index!Next]_(Index!indexVars)
<1>1. CASE Commit
  BY <1>1, CommitAppends DEF Index!Next
<1>2. CASE Initialize
  BY <1>2, InitializeStutters DEF Index!indexVars
<1>3. CASE ChainGrows
  BY <1>3 DEF ChainGrows, Index!Next, Index!Grow
<1>4. CASE UNCHANGED <<tip, db>>
  BY <1>4 DEF Index!indexVars
<1>5. CASE Crash \/ CatchUpFails \/ RequestFails \/ BeginFails \/ HandlerFails \/ HandlerRefused
  <2>1. UNCHANGED <<tip, db>>
    BY <1>5 DEF Crash, CatchUpFails, RequestFails, BeginFails, HandlerFails, HandlerRefused,
                ReturnError, Exit
  <2> QED
    BY <1>4, <2>1
<1>6. CASE CatchUp \/ StayReadOnly \/ RequestBlocks \/ ReplyDone \/ BatchDone \/ Begin
  BY <1>4, <1>6 DEF CatchUp, StayReadOnly, RequestBlocks, ReplyDone, BatchDone, Begin
<1>7. CASE HandleBlocks \/ HandleActions \/ HandleRewards \/ HandleVotings \/ HandleAccounts
  BY <1>4, <1>7
  DEF HandleBlocks, HandleActions, HandleRewards, HandleVotings, HandleAccounts
<1>8. CASE Subscription
  BY <1>4, <1>8 DEF Subscription, Tick, TickFails, ReceiveHeight, ReceiveReport
<1>9. CASE InitializeNotCommitted \/ CommitFails \/ HandlerPanics
  BY <1>9 DEF InitializeNotCommitted, CommitFails, HandlerPanics, ErrorsReported
<1>10. CASE UNCHANGED vars
  BY <1>4, <1>10 DEF vars
<1> QED
  BY <1>1, <1>2, <1>3, <1>5, <1>6, <1>7, <1>8, <1>9, <1>10
  DEF Next, Start, IndexInBatch, Transact, HandleBlock

(* As far as safety goes, the indexer implements ChainIndex: whatever      *)
(* fails or is killed, blocks are added one at a time and in order, and an *)
(* epoch is closed in the step that adds the first block of the next one.  *)
THEOREM RefinesChainIndex ==
  ASSUME ErrorsReported
  PROVE  Spec => Index!Safety
<1>1. Init => Index!Init
  BY MappedEmpty DEF Init, Index!Init
<1>2. IInv /\ [Next]_vars => [Index!Next]_(Index!indexVars)
  BY StepsOfIndex
<1> QED
  BY <1>1, <1>2, InductiveInvariant, PTL DEF Spec, Index!Safety

-------------------------------------------------------------------------------
(* What holds whatever the environment does: panics, failed commits, short *)
(* answers and lost transaction logs included.                             *)

MapsType == [active : {0} \cup Epochs, operator : {0} \cup Epochs, reward : {0} \cup Epochs]

BatchType == [start : Nat, count : Nat, tip : 0 .. MaxHeight, next : Nat, last : 0 .. MaxHeight]

(* The highest block there is, if there is one. *)
LEMMA TipIsHighest ==
  ASSUME NEW t \in Tables
  PROVE  /\ TipOf(t) \in 0 .. MaxHeight
         /\ \A h \in HeightsOf(t.block) : h \in Heights /\ h <= TipOf(t)
         /\ TipOf(t) = 0 \/ TipOf(t) \in HeightsOf(t.block)
<1> DEFINE S == HeightsOf(t.block)
<1>1. S \subseteq Heights /\ S \subseteq Int
  BY Constants DEF Tables, HeightsOf, Heights
<1>2. IsFiniteSet(S)
  <2>1. IsFiniteSet(1 .. MaxHeight)
    BY Constants, FS_Interval
  <2> HIDE DEF S
  <2> QED
    BY <1>1, <2>1, FS_Subset DEF Heights
<1>3. CASE t.block = {}
  BY <1>3, Constants DEF TipOf, HeightsOf
<1>4. CASE t.block # {}
  <2>1. S # {}
    BY <1>4 DEF HeightsOf
  <2>2. PICK x \in S : \A y \in S : x >= y
    BY <1>1, <1>2, <2>1, GreatestExists
  <2>3. \A y \in S : y <= x
    BY <1>1, <2>2
  <2>4. TipOf(t) \in S /\ \A y \in S : y <= TipOf(t)
    BY <1>4, <2>3 DEF TipOf
  <2> QED
    BY <1>1, <2>4, Constants DEF Heights
<1> QED
  BY <1>3, <1>4

(* A block opens the epoch whose first height it has, and no other. *)
LEMMA OpensItsEpoch ==
  ASSUME NEW h \in Heights, NEW e \in Nat \ {0}
  PROVE  GetEpochHeight(e) = h <=> IsEpochStart(h) /\ GetEpochNumber(h) = e
BY EpochRoundTrip, Constants DEF IsEpochStart

LEMMA EpochsAreNumbers == \A e \in Epochs : e \in Nat \ {0}
BY HeightInEpoch, Constants DEF Epochs

LEMMA FaultInit == Init => FInv
<1> SUFFICES ASSUME Init  PROVE FInv
  OBVIOUS
<1>1. TypeOK
  BY InvInit DEF IInv
<1>2. HeightsOf({}) = {}
  BY DEF HeightsOf
<1>3. \A e \in Epochs : GetEpochHeight(e) \notin {}
  OBVIOUS
<1>4. RowsAgree /\ LostEpochStopsIndex
  BY <1>2, <1>3 DEF Init, EmptyTables, RowsAgree, LostEpochStopsIndex
<1> QED
  BY <1>1, <1>4 DEF FInv, Init, TrackerCovers, BatchAhead, TransactionExtends

(* The process may end at any point, and come back with or without the     *)
(* genesis balances.                                                       *)
LEMMA FaultExit ==
  ASSUME FInv, Exit
  PROVE  FInv'
<1>1. TypeOK'
  <2>1. TypeOK /\ 0 \in 0 .. MaxHeight
    BY Constants DEF FInv
  <2>2. mem' \in MapsType
    BY DEF Exit, NilMaps, MapsType
  <2>3. batch' \in BatchType
    BY <2>1 DEF Exit, NoBatch, BatchType
  <2>4. poll' \in [state : {"waiting", "height", "error"}, tip : 0 .. MaxHeight]
    BY <2>1 DEF Exit, Waiting
  <2>5. step' \in 0 .. Len(IndexProtocols) + 1
    BY FiveHandlers DEF Exit
  <2>6. pc' \in {"down", "boot", "readonly", "request", "blocks", "tx", "idle"}
    BY DEF Exit
  <2> QED
    BY <2>1, <2>2, <2>3, <2>4, <2>5, <2>6 DEF TypeOK, MapsType, BatchType, Exit
<1>2. RowsAgree' /\ LostEpochStopsIndex'
  BY DEF FInv, Exit, RowsAgree, LostEpochStopsIndex
<1> QED
  BY <1>1, <1>2 DEF FInv, Exit, TrackerCovers, BatchAhead, TransactionExtends

LEMMA FaultReturnError ==
  ASSUME FInv, pc \in {"request", "blocks", "tx"}, NEW maps \in MapsType, ReturnError(maps)
  PROVE  FInv'
<1>1. CASE ~ subscribed
  BY <1>1, FaultExit DEF ReturnError
<1>2. CASE subscribed
  <2>1. /\ pc' = "idle" /\ batch' = NoBatch /\ step' = 0 /\ work' = db /\ mem' = maps
        /\ tip' = tip /\ db' = db /\ subscribed' = subscribed
        /\ lastHeight' = lastHeight /\ poll' = poll
    BY <1>2 DEF ReturnError
  <2>2. TypeOK'
    BY <2>1, FiveHandlers, Constants DEF FInv, TypeOK, MapsType, NoBatch
  <2>3. RowsAgree' /\ LostEpochStopsIndex'
    BY <2>1 DEF FInv, RowsAgree, LostEpochStopsIndex
  <2> QED
    BY <2>1, <2>2, <2>3 DEF FInv, TrackerCovers, BatchAhead, TransactionExtends
<1> QED
  BY <1>1, <1>2

(* Maps stay maps however far a handler gets. *)
LEMMA MapsDuringType ==
  ASSUME FInv, pc = "tx", NEW id, NEW maps \in MapsDuring(id)
  PROVE  maps \in MapsType /\ height \in Heights /\ epochNumber \in Epochs
<1>1. height \in Heights
  <2>1. batch.next \in Nat /\ batch.next <= batch.last /\ batch.last \in 0 .. MaxHeight
        /\ lastHeight \in 0 .. MaxHeight /\ lastHeight < batch.next
    BY DEF FInv, TypeOK, BatchAhead
  <2> QED
    BY <2>1, Constants DEF height, Heights
<1>2. epochNumber \in Epochs
  BY <1>1, EpochType DEF epochNumber
<1>3. mem \in MapsType
  BY DEF FInv, TypeOK, MapsType
<1> QED
  BY <1>1, <1>2, <1>3 DEF MapsDuring, MapsAfter, MapsType, updateActiveBlockProducers,
                          updateDelegates, updateCandidateRewardAddress

(* Between a start and the first block. *)
LEMMA FaultStart ==
  ASSUME FInv, Initialize \/ InitializeNotCommitted \/ CatchUp \/ StayReadOnly
  PROVE  FInv'
<1>1. TypeOK /\ 0 \in 0 .. MaxHeight /\ db \in Tables
  BY Constants DEF FInv, TypeOK
<1>2. CASE Initialize
  <2> DEFINE t == [db EXCEPT !.balance = @ \cup {0}]
  <2>1. /\ pc = "down" /\ pc' = "boot" /\ db' = t /\ work' = t
        /\ tip' = tip /\ subscribed' = subscribed /\ lastHeight' = lastHeight
        /\ batch' = batch /\ poll' = poll /\ step' = step /\ mem' = mem
    BY <1>2 DEF Initialize, InitialBalances
  <2>2. /\ t.block = db.block /\ t.action = db.action /\ t.reward = db.reward
        /\ t.voting = db.voting /\ t.balance = db.balance \cup {0}
        /\ t.accountReward = db.accountReward
    BY <1>1 DEF Tables
  <2>3. t \in Tables
    BY <1>1 DEF Tables
  <2> HIDE DEF t
  <2>4. TypeOK'
    BY <1>1, <2>1, <2>3 DEF TypeOK
  <2>5. RowsAgree'
    BY <2>1, <2>2 DEF FInv, RowsAgree
  <2>6. LostEpochStopsIndex'
    BY <2>1, <2>2 DEF FInv, LostEpochStopsIndex
  <2> QED
    BY <2>1, <2>4, <2>5, <2>6 DEF FInv, TrackerCovers, BatchAhead, TransactionExtends
<1>3. CASE InitializeNotCommitted
  <2>1. /\ pc = "down" /\ pc' = "boot" /\ tip' = tip /\ db' = db /\ work' = work
        /\ subscribed' = subscribed /\ lastHeight' = lastHeight
        /\ batch' = batch /\ poll' = poll /\ step' = step /\ mem' = mem
    BY <1>3 DEF InitializeNotCommitted
  <2>2. TypeOK'
    BY <1>1, <2>1 DEF TypeOK
  <2>3. RowsAgree' /\ LostEpochStopsIndex'
    BY <2>1 DEF FInv, RowsAgree, LostEpochStopsIndex
  <2> QED
    BY <2>1, <2>2, <2>3 DEF FInv, TrackerCovers, BatchAhead, TransactionExtends
<1>4. CASE CatchUp \/ StayReadOnly
  <2>1. /\ pc = "boot" /\ pc' \in {"request", "readonly"} /\ lastHeight' = TipOf(db)
        /\ pc' = "request" => batch' = [start |-> lastHeight' + 1, count |-> 0, tip |-> tip,
                                        next |-> 0, last |-> 0]
        /\ pc' = "readonly" => batch' = batch
        /\ tip' = tip /\ db' = db /\ work' = work
        /\ subscribed' = subscribed /\ poll' = poll /\ step' = step /\ mem' = mem
    BY <1>4 DEF CatchUp, StayReadOnly, EnterBatch
  <2>2. TipOf(db) \in 0 .. MaxHeight /\ \A h \in HeightsOf(db.block) : h <= TipOf(db)
    BY <1>1, TipIsHighest
  <2>3. batch' \in BatchType
    BY <1>1, <2>1, <2>2, Constants DEF TypeOK, BatchType
  <2>4. TypeOK'
    BY <1>1, <2>1, <2>2, <2>3 DEF TypeOK, BatchType
  <2>5. RowsAgree' /\ LostEpochStopsIndex'
    BY <2>1 DEF FInv, RowsAgree, LostEpochStopsIndex
  <2>6. TrackerCovers'
    BY <2>1, <2>2 DEF TrackerCovers
  <2>7. BatchAhead'
    BY <2>1, <2>2, Constants DEF BatchAhead
  <2> QED
    BY <2>1, <2>4, <2>5, <2>6, <2>7 DEF FInv, TransactionExtends
<1> QED
  BY <1>2, <1>3, <1>4

(* Asking for blocks and coming to the end of an answer or of a batch. *)
LEMMA FaultRequests ==
  ASSUME FInv, RequestBlocks \/ ReplyDone \/ BatchDone
  PROVE  FInv'
<1>1. TypeOK /\ batch \in BatchType /\ lastHeight \in 0 .. MaxHeight
  BY DEF FInv, TypeOK, BatchType
<1>2. UNCHANGED <<tip, db, lastHeight, poll, step, work, mem>> /\ subscribed' \in BOOLEAN
  BY <1>1 DEF RequestBlocks, ReplyDone, BatchDone, TypeOK
<1>3. RowsAgree' /\ LostEpochStopsIndex'
  BY <1>2 DEF FInv, RowsAgree, LostEpochStopsIndex
<1>4. CASE RequestBlocks
  <2> DEFINE left == batch.tip - batch.start + 1
             count == IF RangeQueryLimit > left THEN left ELSE RangeQueryLimit
             full == batch.start + count - 1
  <2>1. /\ pc = "request" /\ pc' = "blocks" /\ batch.start <= batch.tip
        /\ \E last \in batch.start .. full :
             batch' = [batch EXCEPT !.count = count, !.next = batch.start, !.last = last]
    BY <1>4 DEF RequestBlocks
  <2>2. PICK last \in batch.start .. full :
          batch' = [batch EXCEPT !.count = count, !.next = batch.start, !.last = last]
    BY <2>1
  <2>3. /\ batch.start \in Nat /\ batch.tip \in 0 .. MaxHeight /\ lastHeight < batch.start
        /\ count \in Nat /\ full <= batch.tip /\ full \in Int
    BY <1>1, <2>1, Constants DEF FInv, BatchAhead, BatchType
  <2>4. /\ batch'.start = batch.start /\ batch'.count = count /\ batch'.tip = batch.tip
        /\ batch'.next = batch.start /\ batch'.last = last /\ batch' = [start |-> batch.start, count |-> count, tip |-> batch.tip, next |-> batch.start, last |-> last]
    BY <1>1, <2>2 DEF BatchType
  <2>5. last \in Int /\ batch.start <= last /\ last <= full
    BY <2>2, <2>3
  <2>6. last < batch.start + count /\ last \in 0 .. MaxHeight /\ last <= batch.tip
    BY <2>3, <2>5, Constants
  <2> HIDE DEF left, count, full
  <2>7. batch' \in BatchType
    BY <2>3, <2>4, <2>6 DEF BatchType
  <2>8. TypeOK'
    BY <1>1, <1>2, <2>1, <2>7 DEF TypeOK, BatchType
  <2>9. BatchAhead'
    BY <1>1, <1>2, <2>1, <2>3, <2>4, <2>5, <2>6 DEF BatchAhead
  <2> QED
    BY <1>2, <1>3, <2>1, <2>8, <2>9 DEF FInv, TrackerCovers, TransactionExtends
<1>5. CASE ReplyDone
  <2>1. /\ pc = "blocks" /\ pc' = "request" /\ batch.next > batch.last
        /\ batch' = [batch EXCEPT !.start = @ + batch.count, !.count = 0, !.next = 0, !.last = 0]
    BY <1>5 DEF ReplyDone
  <2>2. batch' = [start |-> batch.start + batch.count, count |-> 0, tip |-> batch.tip,
                  next |-> 0, last |-> 0]
    BY <1>1, <2>1 DEF BatchType
  <2>3. batch' \in BatchType
    BY <1>1, <2>2, Constants DEF BatchType
  <2>4. TypeOK'
    BY <1>1, <1>2, <2>1, <2>3 DEF TypeOK, BatchType
  <2>5. lastHeight < batch.start + batch.count
    BY <1>1, <2>1, Constants DEF FInv, BatchAhead, BatchType
  <2>6. BatchAhead'
    BY <1>2, <2>1, <2>2, <2>5 DEF BatchAhead
  <2> QED
    BY <1>2, <1>3, <2>1, <2>4, <2>6 DEF FInv, TrackerCovers, TransactionExtends
<1>6. CASE BatchDone
  <2>1. pc = "request" /\ pc' = "idle" /\ batch' = NoBatch
    BY <1>6 DEF BatchDone
  <2>2. TypeOK'
    BY <1>1, <1>2, <2>1, Constants DEF TypeOK, NoBatch
  <2> QED
    BY <1>2, <1>3, <2>1, <2>2 DEF FInv, TrackerCovers, BatchAhead, TransactionExtends
<1> QED
  BY <1>4, <1>5, <1>6

(* The polling goroutine, and the growing chain. *)
LEMMA FaultSubscription ==
  ASSUME FInv, Subscription \/ ChainGrows
  PROVE  FInv'
<1>1. TypeOK /\ batch \in BatchType /\ lastHeight \in 0 .. MaxHeight
  BY DEF FInv, TypeOK, BatchType
<1>2. UNCHANGED <<db, subscribed, lastHeight, step, work, mem>>
  BY DEF Subscription, Tick, TickFails, ReceiveHeight, ReceiveReport, ChainGrows, process
<1>3. RowsAgree' /\ LostEpochStopsIndex'
  BY <1>2 DEF FInv, RowsAgree, LostEpochStopsIndex
<1>4. CASE Tick \/ TickFails \/ ReceiveReport \/ ChainGrows
  <2>1. pc' = pc /\ batch' = batch
    BY <1>4 DEF Tick, TickFails, ReceiveReport, ChainGrows, process
  <2>2. tip' \in 0 .. MaxHeight /\ poll' \in [state : {"waiting", "height", "error"}, tip : 0 .. MaxHeight]
    BY <1>1, <1>4, Constants DEF Tick, TickFails, ReceiveReport, ChainGrows, process, TypeOK, Waiting
  <2>3. TypeOK'
    BY <1>1, <1>2, <2>1, <2>2 DEF TypeOK
  <2>4. TrackerCovers' /\ BatchAhead' /\ height' = height
    BY <1>2, <2>1 DEF FInv, TrackerCovers, BatchAhead, height
  <2>5. TransactionExtends'
    BY <1>2, <2>1, <2>4 DEF FInv, TransactionExtends, HandledUpTo, ClosesEpoch, epochNumber
  <2> QED
    BY <1>3, <2>3, <2>4, <2>5 DEF FInv
<1>5. CASE ReceiveHeight
  <2>1. /\ pc = "idle" /\ pc' = "request" /\ tip' = tip /\ poll' = Waiting
        /\ batch' = [start |-> lastHeight + 1, count |-> 0, tip |-> poll.tip, next |-> 0, last |-> 0]
    BY <1>5 DEF ReceiveHeight, EnterBatch
  <2>2. batch' \in BatchType /\ poll' \in [state : {"waiting", "height", "error"}, tip : 0 .. MaxHeight]
    BY <1>1, <2>1, Constants DEF TypeOK, BatchType, Waiting
  <2>3. TypeOK'
    BY <1>1, <1>2, <2>1, <2>2 DEF TypeOK, BatchType
  <2>4. BatchAhead'
    BY <1>1, <1>2, <2>1 DEF BatchAhead
  <2> QED
    BY <1>2, <1>3, <2>1, <2>3, <2>4 DEF FInv, TrackerCovers, TransactionExtends
<1> QED
  BY <1>4, <1>5 DEF Subscription

(* A transaction begins on the tables as they are. *)
LEMMA FaultBegin ==
  ASSUME FInv, Begin
  PROVE  FInv'
<1>1. /\ pc = "blocks" /\ pc' = "tx" /\ step' = 1 /\ batch.next <= batch.last
      /\ tip' = tip /\ db' = db /\ subscribed' = subscribed /\ lastHeight' = lastHeight
      /\ batch' = batch /\ poll' = poll /\ work' = work /\ mem' = mem
  BY DEF Begin
<1>2. TypeOK'
  BY <1>1, FiveHandlers DEF FInv, TypeOK
<1>3. RowsAgree' /\ LostEpochStopsIndex' /\ TrackerCovers' /\ BatchAhead'
  BY <1>1 DEF FInv, RowsAgree, LostEpochStopsIndex, TrackerCovers, BatchAhead
<1>4. work = db
  BY <1>1 DEF FInv, TransactionExtends
<1>5. HandledUpTo(work, height, 1)
  BY <1>4 DEF FInv, RowsAgree, HandledUpTo
<1>6. TransactionExtends'
  BY <1>1, <1>5 DEF TransactionExtends, HandledUpTo, height, ClosesEpoch, epochNumber
<1> QED
  BY <1>2, <1>3, <1>6 DEF FInv

(* A handler has done its part. *)
LEMMA FaultHandled ==
  ASSUME FInv, pc = "tx", step \in 1 .. 5, step' = step + 1,
         UNCHANGED <<tip, db, pc, subscribed, lastHeight, batch, poll>>,
         mem' \in MapsType, work' \in Tables, HandledUpTo(work', height, step + 1)
  PROVE  FInv'
<1>1. TypeOK'
  BY FiveHandlers DEF FInv, TypeOK, MapsType
<1>2. RowsAgree' /\ LostEpochStopsIndex'
  BY DEF FInv, RowsAgree, LostEpochStopsIndex
<1>3. TrackerCovers' /\ BatchAhead'
  BY DEF FInv, TrackerCovers, BatchAhead
<1>4. TransactionExtends'
  BY DEF TransactionExtends, HandledUpTo, height, ClosesEpoch, epochNumber
<1> QED
  BY <1>1, <1>2, <1>3, <1>4 DEF FInv

(* What the handlers start from. *)
LEMMA FaultTransaction ==
  ASSUME FInv, pc = "tx"
  PROVE  /\ HandledUpTo(work, height, step)
         /\ work \in Tables /\ db \in Tables /\ mem \in MapsType
         /\ height \in Heights /\ epochNumber \in Epochs
         /\ epochNumber = GetEpochNumber(height)
<1>1. mem \in MapsDuring("blocks")
  BY DEF MapsDuring
<1> QED
  BY <1>1, MapsDuringType DEF FInv, TransactionExtends, TypeOK, MapsType, epochNumber

LEMMA RebuiltType ==
  ASSUME NEW table \in [Epochs -> SUBSET Heights], NEW source
  PROVE  /\ source \subseteq {0} \cup Heights => Rebuilt(table, source) \in [Epochs -> SUBSET Heights]
         /\ \A e \in Epochs : table[e] # {} => Rebuilt(table, source)[e] # {}
<1>1. ASSUME source \subseteq {0} \cup Heights
      PROVE  Rebuilt(table, source) \in [Epochs -> SUBSET Heights]
  <2>1. \A e \in Epochs : {h \in source : GetEpochNumber(h) = e} \subseteq Heights
    BY <1>1, EpochsAreNumbers, Constants
  <2> QED
    BY <2>1 DEF Rebuilt
<1>2. \A e \in Epochs : table[e] # {} => Rebuilt(table, source)[e] # {}
  BY DEF Rebuilt
<1> QED
  BY <1>1, <1>2

LEMMA FaultBlocks ==
  ASSUME FInv, HandleBlocks
  PROVE  FInv'
<1> DEFINE row == [height |-> height, active |-> mem'.active, names |-> mem'.operator]
           reports == rebuildProductivityTable
<1>1. /\ pc = "tx" /\ step = 1 /\ step' = step + 1
      /\ mem' = MapsAfter("blocks")
      /\ work' = [work EXCEPT !.productivity = reports, !.block = @ \cup {row}]
      /\ UNCHANGED <<tip, db, pc, subscribed, lastHeight, batch, poll>>
  BY DEF HandleBlocks, Running, IndexProtocols
<1>2. HandledUpTo(work, height, 1) /\ work \in Tables /\ height \in Heights
  BY <1>1, FaultTransaction
<1>3. mem' \in MapsType
  <2>1. mem' \in MapsDuring("blocks")
    BY <1>1 DEF MapsDuring
  <2> QED
    BY <1>1, <2>1, MapsDuringType
<1>4. reports \in [Epochs -> SUBSET Heights]
  <2>1. HeightsOf(work.block) \subseteq {0} \cup Heights /\ work.productivity \in [Epochs -> SUBSET Heights]
    BY <1>2 DEF Tables, HeightsOf
  <2> QED
    BY <2>1, RebuiltType DEF rebuildProductivityTable
<1>5. row \in [height : Heights, active : {0} \cup Epochs, names : {0} \cup Epochs] /\ row.height = height
  BY <1>2, <1>3 DEF MapsType
<1> HIDE DEF row, reports
<1>6. work' =
           [block |-> work.block \cup {row}, action |-> work.action, reward |-> work.reward,
            voting |-> work.voting, balance |-> work.balance, productivity |-> reports,
            accountReward |-> work.accountReward, accountIncome |-> work.accountIncome]
  BY <1>1, <1>2, UpdateBlocks
<1>7. work' \in Tables
  BY <1>2, <1>4, <1>5, <1>6 DEF Tables
<1>8. HeightsOf(work'.block) = HeightsOf(work.block) \cup {height}
  BY <1>5, <1>6 DEF HeightsOf
<1>9. HandledUpTo(work', height, 2)
  <2>1. /\ work'.reward = work.reward /\ work'.action = work.action
        /\ work'.voting = work.voting /\ work'.balance = work.balance
        /\ work'.accountReward = work.accountReward
    BY <1>6
  <2> QED
    BY <1>2, <1>8, <2>1 DEF HandledUpTo
<1> QED
  BY <1>1, <1>3, <1>7, <1>9, FaultHandled

LEMMA FaultActions ==
  ASSUME FInv, HandleActions
  PROVE  FInv'
<1>1. /\ pc = "tx" /\ step = 2 /\ step' = step + 1
      /\ work' = [work EXCEPT !.action = @ \cup {height}]
      /\ UNCHANGED <<tip, db, pc, subscribed, lastHeight, batch, poll, mem>>
  BY DEF HandleActions, Running, IndexProtocols
<1>2. /\ HandledUpTo(work, height, 2) /\ work \in Tables /\ height \in Heights
      /\ mem \in MapsType
  BY <1>1, FaultTransaction
<1>3. work' =
           [block |-> work.block, action |-> work.action \cup {height}, reward |-> work.reward,
            voting |-> work.voting, balance |-> work.balance, productivity |-> work.productivity,
            accountReward |-> work.accountReward, accountIncome |-> work.accountIncome]
  BY <1>1, <1>2 DEF Tables
<1>4. work' \in Tables
  BY <1>2, <1>3 DEF Tables
<1>5. HandledUpTo(work', height, 3)
  BY <1>2, <1>3 DEF HandledUpTo
<1> QED
  BY <1>1, <1>2, <1>4, <1>5, FaultHandled

(* The epoch that the block closes has a report in the end: it had votes,  *)
(* hence a first block, hence rewards to sum up.                           *)
LEMMA ClosedEpochHasRewards ==
  ASSUME FInv, HandleRewards, NEW e \in Epochs, ClosesEpoch(e)
  PROVE  e \in db.voting /\ rebuildAccountRewardTable[e] # {}
<1>1. pc = "tx" /\ step = 3 /\ ~ VotesMissing
  BY DEF HandleRewards, Running, IndexProtocols, Refused
<1>2. HandledUpTo(work, height, 3)
  BY <1>1, FaultTransaction
<1>3. e \in work.voting /\ work.voting = db.voting
  BY <1>1, <1>2 DEF VotesMissing, HandledUpTo
<1>4. GetEpochHeight(e) \in HeightsOf(db.block)
  BY <1>3 DEF FInv, RowsAgree
<1>5. GetEpochHeight(e) \in HeightsOf(work.reward)
  BY <1>2, <1>4 DEF HandledUpTo
<1>6. GetEpochNumber(GetEpochHeight(e)) = e
  BY EpochRoundTrip, EpochsAreNumbers, Constants
<1>7. rebuildAccountRewardTable[e] =
        IF work.accountReward[e] = {} THEN {h \in HeightsOf(work.reward) : GetEpochNumber(h) = e}
                                      ELSE work.accountReward[e]
  BY DEF rebuildAccountRewardTable, Rebuilt
<1> QED
  BY <1>3, <1>5, <1>6, <1>7

LEMMA FaultRewards ==
  ASSUME FInv, HandleRewards
  PROVE  FInv'
<1> DEFINE row == [height |-> height, names |-> mem'.reward]
           reports == rebuildAccountRewardTable
<1>1. /\ pc = "tx" /\ step = 3 /\ step' = step + 1
      /\ mem' = MapsAfter("rewards")
      /\ work' = [work EXCEPT !.accountReward = reports, !.reward = @ \cup {row}]
      /\ UNCHANGED <<tip, db, pc, subscribed, lastHeight, batch, poll>>
  BY DEF HandleRewards, Running, IndexProtocols
<1>2. HandledUpTo(work, height, 3) /\ work \in Tables /\ height \in Heights
  BY <1>1, FaultTransaction
<1>3. mem' \in MapsType
  <2>1. mem' \in MapsDuring("rewards")
    BY <1>1 DEF MapsDuring
  <2> QED
    BY <1>1, <2>1, MapsDuringType
<1>4. /\ reports \in [Epochs -> SUBSET Heights]
      /\ \A e \in Epochs : work.accountReward[e] # {} => reports[e] # {}
  <2>1. HeightsOf(work.reward) \subseteq {0} \cup Heights /\ work.accountReward \in [Epochs -> SUBSET Heights]
    BY <1>2 DEF Tables, HeightsOf
  <2> QED
    BY <2>1, RebuiltType DEF rebuildAccountRewardTable
<1>5. row \in [height : Heights, names : {0} \cup Epochs] /\ row.height = height
  BY <1>2, <1>3 DEF MapsType
<1>6. \A e \in Epochs : ClosesEpoch(e) => e \in db.voting /\ reports[e] # {}
  BY ClosedEpochHasRewards
<1> HIDE DEF row, reports
<1>7. work' =
           [block |-> work.block, action |-> work.action, reward |-> work.reward \cup {row},
            voting |-> work.voting, balance |-> work.balance, productivity |-> work.productivity,
            accountReward |-> reports, accountIncome |-> work.accountIncome]
  BY <1>1, <1>2, UpdateRewards
<1>8. work' \in Tables
  BY <1>2, <1>4, <1>5, <1>7 DEF Tables
<1>9. HeightsOf(work'.reward) = HeightsOf(work.reward) \cup {height}
  BY <1>5, <1>7 DEF HeightsOf
<1>10. HandledUpTo(work', height, 4)
  <2>1. /\ work'.block = work.block /\ work'.action = work.action
        /\ work'.voting = work.voting /\ work'.balance = work.balance
        /\ work'.accountReward = reports
    BY <1>7
  <2> QED
    BY <1>2, <1>4, <1>6, <1>9, <2>1 DEF HandledUpTo
<1> QED
  BY <1>1, <1>3, <1>8, <1>10, FaultHandled

LEMMA FaultVotings ==
  ASSUME FInv, HandleVotings
  PROVE  FInv'
<1> DEFINE votes == IF IsEpochStart(height) THEN work.voting \cup {epochNumber} ELSE work.voting
<1>1. /\ pc = "tx" /\ step = 4 /\ step' = step + 1
      /\ work' = [work EXCEPT !.voting = votes]
      /\ UNCHANGED <<tip, db, pc, subscribed, lastHeight, batch, poll, mem>>
  BY DEF HandleVotings, Running, IndexProtocols
<1>2. /\ HandledUpTo(work, height, 4) /\ work \in Tables /\ height \in Heights
      /\ mem \in MapsType /\ epochNumber \in Epochs /\ epochNumber = GetEpochNumber(height)
  BY <1>1, FaultTransaction
<1>3. work.voting = db.voting
  BY <1>2 DEF HandledUpTo
<1>4. votes \subseteq Epochs
  BY <1>2 DEF Tables
<1>5. votes = IF IsEpochStart(height) THEN db.voting \cup {GetEpochNumber(height)} ELSE db.voting
  BY <1>2, <1>3
<1> HIDE DEF votes
<1>6. work' =
           [block |-> work.block, action |-> work.action, reward |-> work.reward,
            voting |-> votes, balance |-> work.balance, productivity |-> work.productivity,
            accountReward |-> work.accountReward, accountIncome |-> work.accountIncome]
  BY <1>1, <1>2 DEF Tables
<1>7. work' \in Tables
  BY <1>2, <1>4, <1>6 DEF Tables
<1>8. HandledUpTo(work', height, 5)
  BY <1>2, <1>5, <1>6 DEF HandledUpTo
<1> QED
  BY <1>1, <1>2, <1>7, <1>8, FaultHandled

LEMMA FaultAccounts ==
  ASSUME FInv, HandleAccounts
  PROVE  FInv'
<1> DEFINE reports == rebuildAccountIncomeTable
<1>1. /\ pc = "tx" /\ step = 5 /\ step' = step + 1
      /\ UNCHANGED <<tip, db, pc, subscribed, lastHeight, batch, poll, mem>>
  BY DEF HandleAccounts, Running, IndexProtocols
<1>2. PICK transfers \in getTransactionLog :
        work' = [work EXCEPT !.accountIncome = reports, !.balance = @ \cup transfers]
  BY DEF HandleAccounts
<1>3. transfers \subseteq {height} /\ ("txlog" \notin Env => transfers = {height})
  BY DEF getTransactionLog
<1>4. /\ HandledUpTo(work, height, 5) /\ work \in Tables /\ height \in Heights
      /\ mem \in MapsType
  BY <1>1, FaultTransaction
<1>5. reports \in [Epochs -> SUBSET Heights]
  <2>1. work.balance \subseteq {0} \cup Heights /\ work.accountIncome \in [Epochs -> SUBSET Heights]
    BY <1>4 DEF Tables
  <2> QED
    BY <2>1, RebuiltType DEF rebuildAccountIncomeTable
<1> HIDE DEF reports
<1>6. work' =
           [block |-> work.block, action |-> work.action, reward |-> work.reward,
            voting |-> work.voting, balance |-> work.balance \cup transfers,
            productivity |-> work.productivity,
            accountReward |-> work.accountReward, accountIncome |-> reports]
  BY <1>2, <1>4, UpdateBalances
<1>7. work' \in Tables
  BY <1>3, <1>4, <1>5, <1>6 DEF Tables
<1>8. HandledUpTo(work', height, 6)
  BY <1>3, <1>4, <1>6 DEF HandledUpTo
<1> QED
  BY <1>1, <1>4, <1>7, <1>8, FaultHandled

(* The end of a transaction that the indexer takes for a success. *)
LEMMA FaultTracked ==
  ASSUME FInv, pc = "tx", Tracked
  PROVE  /\ batch' \in BatchType /\ lastHeight' = height /\ lastHeight' \in 0 .. MaxHeight
         /\ BatchAhead'
         /\ \A h \in HeightsOf(db.block) : h <= lastHeight'
<1>1. /\ lastHeight' = height /\ batch' = [batch EXCEPT !.next = @ + 1] /\ pc' = "blocks"
      /\ height = batch.next
  BY DEF Tracked, height
<1>2. /\ batch \in BatchType /\ height \in Heights /\ lastHeight \in 0 .. MaxHeight
      /\ lastHeight < height /\ height <= batch.last /\ batch.last < batch.start + batch.count
      /\ batch.last <= batch.tip
  BY <1>1, FaultTransaction DEF FInv, TypeOK, BatchType, BatchAhead
<1>3. /\ batch' = [start |-> batch.start, count |-> batch.count, tip |-> batch.tip,
                   next |-> height + 1, last |-> batch.last]
  BY <1>1, <1>2 DEF BatchType
<1>4. batch' \in BatchType /\ lastHeight' \in 0 .. MaxHeight
  BY <1>1, <1>2, <1>3, Constants DEF BatchType, Heights
<1>5. BatchAhead'
  BY <1>1, <1>2, <1>3, Constants DEF BatchAhead, BatchType, Heights
<1>6. \A h \in HeightsOf(db.block) : h \in Heights /\ h <= lastHeight
  BY TipIsHighest DEF FInv, TypeOK, TrackerCovers
<1>7. \A h \in HeightsOf(db.block) : h <= lastHeight'
  BY <1>1, <1>2, <1>6, Constants DEF Heights
<1> QED
  BY <1>1, <1>4, <1>5, <1>7

(* A panic or a failed COMMIT leaves the tables as they were, and the      *)
(* tracker past them.                                                      *)
LEMMA FaultLost ==
  ASSUME FInv, CommitFails \/ HandlerPanics
  PROVE  FInv'
<1>1. /\ pc = "tx" /\ pc' = "blocks" /\ step' = 0 /\ work' = db /\ Tracked
      /\ db' = db /\ mem' = mem /\ tip' = tip /\ subscribed' = subscribed /\ poll' = poll
  BY DEF CommitFails, HandlerPanics, Running, Tracked
<1>2. /\ batch' \in BatchType /\ lastHeight' \in 0 .. MaxHeight /\ BatchAhead'
      /\ \A h \in HeightsOf(db.block) : h <= lastHeight'
  BY <1>1, FaultTracked
<1>3. TypeOK'
  BY <1>1, <1>2, FiveHandlers DEF FInv, TypeOK, BatchType
<1>4. RowsAgree' /\ LostEpochStopsIndex'
  BY <1>1 DEF FInv, RowsAgree, LostEpochStopsIndex
<1> QED
  BY <1>1, <1>2, <1>3, <1>4 DEF FInv, TrackerCovers, TransactionExtends

(* What all five handlers have done of a block is what a COMMIT leaves.    *)
LEMMA FaultCommit ==
  ASSUME FInv, Commit
  PROVE  FInv'
<1>1. /\ pc = "tx" /\ step = 6 /\ pc' = "blocks" /\ step' = 0 /\ db' = work /\ work' = work
      /\ mem' = mem /\ tip' = tip /\ subscribed' = subscribed /\ poll' = poll /\ Tracked
  BY FiveHandlers DEF Commit, Tracked
<1>2. /\ batch' \in BatchType /\ lastHeight' \in 0 .. MaxHeight /\ BatchAhead'
      /\ lastHeight' = height
      /\ \A h \in HeightsOf(db.block) : h <= lastHeight'
  BY <1>1, FaultTracked
<1>3. /\ HandledUpTo(work, height, 6) /\ work \in Tables /\ height \in Heights
      /\ epochNumber \in Epochs /\ epochNumber = GetEpochNumber(height)
  BY <1>1, FaultTransaction
<1> DEFINE before == HeightsOf(db.block)
           after == before \cup {height}
<1>4. /\ HeightsOf(work.block) = after /\ work.action = after /\ HeightsOf(work.reward) = after
      /\ work.voting = IF IsEpochStart(height) THEN db.voting \cup {GetEpochNumber(height)}
                                               ELSE db.voting
      /\ work.balance \ {0} \subseteq after
      /\ "txlog" \notin Env => after \subseteq work.balance
  BY <1>3 DEF HandledUpTo
<1>5. \A e \in Epochs :
        /\ db.accountReward[e] # {} => work.accountReward[e] # {}
        /\ ClosesEpoch(e) => e \in db.voting /\ work.accountReward[e] # {}
  BY <1>3 DEF HandledUpTo
<1>6. TypeOK'
  BY <1>1, <1>2, <1>3, FiveHandlers DEF FInv, TypeOK, BatchType
<1>7. RowsAgree'
  <2>1. work.voting = {e \in Epochs : GetEpochHeight(e) \in after}
    <3>1. db.voting = {e \in Epochs : GetEpochHeight(e) \in before}
      BY DEF FInv, RowsAgree
    <3>2. \A e \in Epochs : GetEpochHeight(e) = height <=> IsEpochStart(height) /\ e = epochNumber
      BY <1>3, OpensItsEpoch, EpochsAreNumbers
    <3> HIDE DEF before
    <3> QED
      BY <1>3, <1>4, <3>1, <3>2
  <2> QED
    BY <1>1, <1>4, <2>1 DEF RowsAgree
<1>8. LostEpochStopsIndex'
  <2>1. SUFFICES ASSUME NEW e \in Epochs, GetEpochHeight(e + 1) \in after
                 PROVE  e \in work.voting /\ work.accountReward[e] # {}
    BY <1>1, <1>4 DEF LostEpochStopsIndex
  <2>2. e \in Nat \ {0} /\ e + 1 \in Nat \ {0} /\ e = (e + 1) - 1
    BY EpochsAreNumbers
  <2>3. CASE GetEpochHeight(e + 1) \in before
    <3>1. e \in db.voting /\ db.accountReward[e] # {}
      BY <2>3 DEF FInv, LostEpochStopsIndex
    <3> QED
      BY <1>4, <1>5, <3>1
  <2>4. CASE GetEpochHeight(e + 1) = height
    <3>1. IsEpochStart(height) /\ GetEpochNumber(height) = e + 1
      BY <1>3, <2>2, <2>4, OpensItsEpoch
    <3>2. ClosesEpoch(e)
      BY <1>3, <2>2, <3>1 DEF ClosesEpoch
    <3> QED
      BY <1>4, <1>5, <3>2
  <2> QED
    BY <2>1, <2>3, <2>4
<1>9. TrackerCovers'
  <2>1. height <= height
    BY <1>3, Constants DEF Heights
  <2> QED
    BY <1>1, <1>2, <1>4, <2>1 DEF TrackerCovers
<1> QED
  BY <1>1, <1>2, <1>6, <1>7, <1>8, <1>9 DEF FInv, TransactionExtends

(* A batch that fails, wherever it does. *)
LEMMA FaultFailure ==
  ASSUME FInv, RequestFails \/ BeginFails \/ HandlerFails \/ HandlerRefused
  PROVE  FInv'
<1>1. CASE RequestFails \/ BeginFails
  <2>1. pc \in {"request", "blocks"} /\ ReturnError(mem)
    BY <1>1 DEF RequestFails, BeginFails
  <2>2. mem \in MapsType
    BY DEF FInv, TypeOK, MapsType
  <2> QED
    BY <2>1, <2>2, FaultReturnError
<1>2. CASE HandlerFails \/ HandlerRefused
  <2>1. PICK id : pc = "tx" /\ \E maps \in MapsDuring(id) : ReturnError(maps)
    BY <1>2 DEF HandlerFails, HandlerRefused, Running, MapsDuring
  <2>2. PICK maps \in MapsDuring(id) : ReturnError(maps)
    BY <2>1
  <2> QED
    BY <2>1, <2>2, MapsDuringType, FaultReturnError
<1> QED
  BY <1>1, <1>2

LEMMA FaultNext ==
  ASSUME FInv, [Next]_vars
  PROVE  FInv'
<1>1. CASE ChainGrows \/ Subscription
  BY <1>1, FaultSubscription
<1>2. CASE Crash \/ CatchUpFails
  BY <1>2, FaultExit DEF Crash, CatchUpFails
<1>3. CASE Initialize \/ InitializeNotCommitted \/ CatchUp \/ StayReadOnly
  BY <1>3, FaultStart
<1>4. CASE RequestBlocks \/ ReplyDone \/ BatchDone
  BY <1>4, FaultRequests
<1>5. CASE Begin
  BY <1>5, FaultBegin
<1>6. CASE RequestFails \/ BeginFails \/ HandlerFails \/ HandlerRefused
  BY <1>6, FaultFailure
<1>7. CASE HandleBlocks
  BY <1>7, FaultBlocks
<1>8. CASE HandleActions
  BY <1>8, FaultActions
<1>9. CASE HandleRewards
  BY <1>9, FaultRewards
<1>10. CASE HandleVotings
  BY <1>10, FaultVotings
<1>11. CASE HandleAccounts
  BY <1>11, FaultAccounts
<1>12. CASE Commit
  BY <1>12, FaultCommit
<1>13. CASE CommitFails \/ HandlerPanics
  BY <1>13, FaultLost
<1>14. CASE UNCHANGED vars
  <2>1. /\ tip' = tip /\ db' = db /\ pc' = pc /\ subscribed' = subscribed
        /\ lastHeight' = lastHeight /\ batch' = batch /\ poll' = poll /\ step' = step
        /\ work' = work /\ mem' = mem
    BY <1>14 DEF vars, process
  <2>2. TypeOK' /\ RowsAgree' /\ LostEpochStopsIndex'
    BY <2>1 DEF FInv, TypeOK, RowsAgree, LostEpochStopsIndex
  <2>3. TrackerCovers' /\ BatchAhead'
    BY <2>1 DEF FInv, TrackerCovers, BatchAhead
  <2>4. TransactionExtends'
    BY <2>1 DEF FInv, TransactionExtends, HandledUpTo, ClosesEpoch, height, epochNumber
  <2> QED
    BY <2>2, <2>3, <2>4 DEF FInv
<1> QED
  BY <1>1, <1>2, <1>3, <1>4, <1>5, <1>6, <1>7, <1>8, <1>9, <1>10, <1>11, <1>12, <1>13, <1>14
  DEF Next, Start, IndexInBatch, Transact, HandleBlock

(* The invariant of the faulty environment, whatever Env is.               *)
THEOREM FaultInvariant == Spec => []FInv
BY FaultInit, FaultNext, PTL DEF Spec

(* The variables keep their types.                                         *)
THEOREM TypeCorrect == Spec => []TypeOK
<1>1. FInv => TypeOK
  BY DEF FInv
<1> QED
  BY <1>1, FaultInvariant, PTL

(* The tables agree on which blocks there are, whatever panics and failed  *)
(* commits the indexer takes for successes (Transact of sql/storebase.go). *)
THEOREM RowsAlwaysAgree == Spec => []RowsAgree
<1>1. FInv => RowsAgree
  BY DEF FInv
<1> QED
  BY <1>1, FaultInvariant, PTL

(* The tracker is never behind the index (IndexInBatch and Start), so that *)
(* no block is handed to the handlers again once it is in the tables.      *)
THEOREM TrackerIsNeverBehind == Spec => []TrackerNotBehind
<1>1. FInv => TrackerNotBehind
  <2>1. SUFFICES ASSUME FInv, pc \notin {"down", "boot"}  PROVE lastHeight >= TipOf(db)
    BY DEF TrackerNotBehind
  <2>2. /\ lastHeight \in 0 .. MaxHeight /\ db \in Tables
        /\ \A h \in HeightsOf(db.block) : h <= lastHeight
    BY <2>1 DEF FInv, TypeOK, TrackerCovers
  <2>3. TipOf(db) \in 0 .. MaxHeight /\ (TipOf(db) = 0 \/ TipOf(db) \in HeightsOf(db.block))
    BY <2>2, TipIsHighest
  <2> QED
    BY <2>2, <2>3, Constants
<1> QED
  BY <1>1, FaultInvariant, PTL

(* Rewards are never computed without the votes of the epoch: an index     *)
(* that lost the block opening an epoch ends before the next               *)
(* (getVotingInfo, in the rewards protocol's HandleBlock).                 *)
THEOREM LostEpochEndsIndex == Spec => []LostEpochStopsIndex
<1>1. FInv => LostEpochStopsIndex
  BY DEF FInv
<1> QED
  BY <1>1, FaultInvariant, PTL
===============================================================================
