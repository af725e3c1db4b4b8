-------------------------------- MODULE Indexer --------------------------------
(***************************************************************************)
(* The block indexer (indexservice/indexer.go) with the transaction        *)
(* wrapper it relies on (sql/storebase.go) and the control of the five     *)
(* protocol handlers it calls (indexprotocol/*/protocol.go).               *)
(*                                                                         *)
(* A process starts, reads from the database how far it got, catches up    *)
(* with the chain, and then indexes up to each height its polling          *)
(* goroutine reports.  Every block is indexed in one SQL transaction in    *)
(* which the handlers run in registration order; some of them also change  *)
(* maps in memory, which no rollback restores, and do extra work on the    *)
(* first block of an epoch.                                                *)
(*                                                                         *)
(* A table is abstracted to the heights (or epochs) it holds rows for, and *)
(* an aggregate to the heights it was summed over.                         *)
(*                                                                         *)
(* The definitions no other one uses (ActionsFirst, TrackedToEndOfReply,   *)
(* CatchUpWithoutTracker, ...) are the slips each property is sensitive    *)
(* to; they stand before the definition they would spoil.                  *)
(***************************************************************************)
EXTENDS EpochCtx, Sequences, FiniteSets

CONSTANTS
  MaxHeight,        \* bound on the height of the chain
  RangeQueryLimit,  \* most blocks asked for in one GetRawBlocks call
  Env               \* what the environment may do to the process, see below

(* "error"    a remote call, a statement or Begin fails, and is reported   *)
(* "crash"    the process is killed                                        *)
(* "readonly" the operator starts the process with READ_ONLY=true          *)
(* "panic"    a handler panics                                             *)
(* "commit"   COMMIT fails                                                 *)
(* "short"    the node answers with fewer blocks than it was asked for     *)
(* "txlog"    GetTransactionLogByBlockHeight fails                         *)
Hazards == {"error", "crash", "readonly", "panic", "commit", "short", "txlog"}

ASSUME IndexerAssumption ==
  /\ MaxHeight \in Nat \ {0}
  /\ RangeQueryLimit \in Nat \ {0}
  /\ Env \subseteq Hazards
  /\ ForkIsSafe

VARIABLES
  tip,         \* height of the chain
  db,          \* the tables, as committed
  pc,          \* where the indexing goroutine is
  subscribed,  \* Start has returned and the polling goroutine runs
  lastHeight,  \* Indexer.lastHeight
  batch,       \* locals of IndexInBatch
  poll,        \* what the polling goroutine is about to send
  step,        \* index of the handler to run next in the transaction
  work,        \* the tables, as the open transaction sees them
  mem          \* the epoch whose delegates the in-memory maps hold, 0 if nil

process == <<pc, subscribed, lastHeight, batch, poll, step, work, mem>>
vars == <<tip, db, process>>

-------------------------------------------------------------------------------

Heights == 1 .. MaxHeight
Epochs == 1 .. GetEpochNumber(MaxHeight)

ActionsFirst == <<"actions", "blocks", "rewards", "votings", "accounts">>

(* The order of RegisterDefaultProtocols, in which buildIndex calls them.  *)
IndexProtocols == <<"blocks", "actions", "rewards", "votings", "accounts">>

(* block_history: one row per height, with the delegate maps it was        *)
(* labelled from.  reward_history: likewise.  action_history and           *)
(* balance_history: heights (0 for the genesis balances).  voting_result   *)
(* and voting_meta: epochs.  productivity, account_reward, account_income: *)
(* per epoch, the heights summed up.                                       *)
Tables ==
  [block : SUBSET [height : Heights, active : {0} \cup Epochs, names : {0} \cup Epochs],
   action : SUBSET Heights,
   reward : SUBSET [height : Heights, names : {0} \cup Epochs],
   voting : SUBSET Epochs,
   balance : SUBSET ({0} \cup Heights),
   productivity : [Epochs -> SUBSET Heights],
   accountReward : [Epochs -> SUBSET Heights],
   accountIncome : [Epochs -> SUBSET Heights]]

EmptyTables ==
  [block |-> {}, action |-> {}, reward |-> {}, voting |-> {}, balance |-> {},
   productivity |-> [e \in Epochs |-> {}],
   accountReward |-> [e \in Epochs |-> {}],
   accountIncome |-> [e \in Epochs |-> {}]]

HeightsOf(rows) == {r.height : r \in rows}

(* GetCurrentEpochAndHeight: MAX(block_height), or 0 if there is no row.   *)
TipOf(tables) ==
  IF tables.block = {} THEN 0
  ELSE CHOOSE h \in HeightsOf(tables.block) : \A g \in HeightsOf(tables.block) : g <= h

(* What a fresh process has in memory. *)
NilMaps == [active |-> 0, operator |-> 0, reward |-> 0]
NoBatch == [start |-> 0, count |-> 0, tip |-> 0, next |-> 0, last |-> 0]
Waiting == [state |-> "waiting", tip |-> 0]

-------------------------------------------------------------------------------
(* The process as a whole. *)

Init ==
  /\ tip \in 0 .. MaxHeight
  /\ db = EmptyTables
  /\ pc = "down"
  /\ subscribed = FALSE
  /\ lastHeight = 0
  /\ batch = NoBatch
  /\ poll = Waiting
  /\ step = 0
  /\ work = EmptyTables
  /\ mem = NilMaps

(* The end of a process: an open transaction is rolled back, and           *)
(* everything but the database is gone.                                    *)
Exit ==
  /\ pc' = "down"
  /\ subscribed' = FALSE
  /\ lastHeight' = 0
  /\ batch' = NoBatch
  /\ poll' = Waiting
  /\ step' = 0
  /\ work' = db
  /\ mem' = NilMaps
  /\ UNCHANGED <<tip, db>>

(* The chain grows by a block. *)
ChainGrows ==
  /\ tip < MaxHeight
  /\ tip' = tip + 1
  /\ UNCHANGED <<db, process>>

Crash ==
  /\ "crash" \in Env
  /\ pc # "down"
  /\ Exit

(* The accounts protocol inserts the genesis balances unless it finds them. *)
InitialBalances(tables) == [tables EXCEPT !.balance = @ \cup {0}]

(* Start, up to Initialize, which is the only step of it that can change   *)
(* rows.  A failure ends the process, which is then down as before.        *)
Initialize ==
  /\ pc = "down"
  /\ pc' = "boot"
  /\ db' = InitialBalances(db)
  /\ work' = db'
  /\ UNCHANGED <<tip, subscribed, lastHeight, batch, poll, step, mem>>

(* Initialize runs under Transact as well: a failed COMMIT goes unnoticed. *)
InitializeNotCommitted ==
  /\ "commit" \in Env
  /\ pc = "down"
  /\ pc' = "boot"
  /\ UNCHANGED <<tip, db, subscribed, lastHeight, batch, poll, step, work, mem>>

(* IndexInBatch(upTo), called in a process whose tracker is at from. *)
EnterBatch(from, upTo) ==
  /\ pc' = "request"
  /\ batch' = [start |-> from + 1, count |-> 0, tip |-> upTo, next |-> 0, last |-> 0]

CatchUpWithoutTracker ==
  /\ pc = "boot"
  /\ EnterBatch(TipOf(db), tip)
  /\ UNCHANGED <<tip, db, subscribed, lastHeight, poll, step, work, mem>>

(* Start, from reading the last height to the call of IndexInBatch. *)
CatchUp ==
  /\ pc = "boot"
  /\ lastHeight' = TipOf(db)
  /\ EnterBatch(TipOf(db), tip)
  /\ UNCHANGED <<tip, db, subscribed, poll, step, work, mem>>

(* Start in read-only mode returns before anything is indexed. *)
StayReadOnly ==
  /\ "readonly" \in Env
  /\ pc = "boot"
  /\ pc' = "readonly"
  /\ lastHeight' = TipOf(db)
  /\ UNCHANGED <<tip, db, subscribed, batch, poll, step, work, mem>>

(* IndexInBatch returns an error and leaves the maps behind: the goroutine *)
(* of Start logs it and goes back to its select; Start itself returns it,  *)
(* and main exits.                                                         *)
ReturnError(maps) ==
  \/ /\ subscribed
     /\ pc' = "idle"
     /\ batch' = NoBatch
     /\ step' = 0
     /\ work' = db
     /\ mem' = maps
     /\ UNCHANGED <<tip, db, subscribed, lastHeight, poll>>
  \/ ~ subscribed /\ Exit

(* GetChainMeta fails in Start. *)
CatchUpFails ==
  /\ "error" \in Env
  /\ pc = "boot"
  /\ Exit

-------------------------------------------------------------------------------
(* IndexInBatch. *)

(* The node answers a request for the next count blocks, in full or, if it *)
(* lags behind the one that reported the tip, with a prefix of them.  last *)
(* is the height of the last block of the answer.                          *)
RequestBlocks ==
  /\ pc = "request"
  /\ batch.start <= batch.tip
  /\ LET left == batch.tip - batch.start + 1
         count == IF RangeQueryLimit > left THEN left ELSE RangeQueryLimit
         full == batch.start + count - 1
     IN  \E last \in batch.start .. full :
           /\ last = full \/ "short" \in Env
           /\ batch' = [batch EXCEPT !.count = count, !.next = batch.start, !.last = last]
  /\ pc' = "blocks"
  /\ UNCHANGED <<tip, db, subscribed, lastHeight, poll, step, work, mem>>

(* GetRawBlocks fails. *)
RequestFails ==
  /\ "error" \in Env
  /\ pc = "request"
  /\ batch.start <= batch.tip
  /\ ReturnError(mem)

(* The blocks of the answer are used up: startHeight moves past the blocks *)
(* asked for.                                                              *)
ReplyDone ==
  /\ pc = "blocks"
  /\ batch.next > batch.last
  /\ pc' = "request"
  /\ batch' = [batch EXCEPT !.start = @ + batch.count, !.count = 0, !.next = 0, !.last = 0]
  /\ UNCHANGED <<tip, db, subscribed, lastHeight, poll, step, work, mem>>

(* The batch has reached its tip.  The first one is Start's own, which     *)
(* then starts both goroutines.                                            *)
BatchDone ==
  /\ pc = "request"
  /\ batch.start > batch.tip
  /\ pc' = "idle"
  /\ subscribed' = TRUE
  /\ batch' = NoBatch
  /\ UNCHANGED <<tip, db, lastHeight, poll, step, work, mem>>

-------------------------------------------------------------------------------
(* buildIndex: one transaction, one handler after the other. *)

height == batch.next
epochNumber == GetEpochNumber(height)

(* The epoch whose tables are rebuilt with this block, if any. *)
ClosesEpoch(e) == IsEpochStart(height) /\ e = epochNumber - 1 /\ e # 0

Begin ==
  /\ pc = "blocks"
  /\ batch.next <= batch.last
  /\ pc' = "tx"
  /\ step' = 1
  /\ UNCHANGED <<tip, db, subscribed, lastHeight, batch, poll, work, mem>>

(* A block that ConvertFromBlockPb rejects, or BEGIN fails. *)
BeginFails ==
  /\ "error" \in Env
  /\ pc = "blocks"
  /\ batch.next <= batch.last
  /\ ReturnError(mem)

Running(id) ==
  /\ pc = "tx"
  /\ step \in DOMAIN IndexProtocols
  /\ IndexProtocols[step] = id

RefreshOnlyIfNil == mem.operator = 0

(* Delegates are fetched on the first block of an epoch and by a fresh     *)
(* process.                                                                *)
BlocksMustRefresh == IsEpochStart(height) \/ mem.operator = 0
RewardsMustRefresh == IsEpochStart(height) \/ mem.reward = 0

(* updateDelegates sets ActiveBlockProducers first, OperatorAddrToName     *)
(* last, and may fail in between.                                          *)
updateActiveBlockProducers == [mem EXCEPT !.active = epochNumber]
updateDelegates == [mem EXCEPT !.active = epochNumber, !.operator = epochNumber]
updateCandidateRewardAddress == [mem EXCEPT !.reward = epochNumber]

(* The maps after a handler is through with them, and what they may be     *)
(* when it stops short of that.                                            *)
MapsAfter(id) ==
  IF id = "blocks" /\ BlocksMustRefresh THEN updateDelegates
  ELSE IF id = "rewards" /\ RewardsMustRefresh THEN updateCandidateRewardAddress
  ELSE mem

MapsDuring(id) ==
  {mem, MapsAfter(id)}
    \cup {maps \in {updateActiveBlockProducers} : id = "blocks" /\ BlocksMustRefresh}

(* What makes a handler fail that no retry can mend: the PRIMARY KEY of    *)
(* block_history, the FOREIGN KEY of action_history, a voting result that  *)
(* getVotingInfo must find, the UNIQUE KEY of voting_meta.                 *)
BlockExists == height \in HeightsOf(work.block)
BlockMissing == height \notin HeightsOf(work.block)
VotesMissing == \E e \in Epochs : ClosesEpoch(e) /\ e \notin work.voting
VotesExist == IsEpochStart(height) /\ epochNumber \in work.voting

RefusedButForVotes(id) ==
  \/ id = "blocks" /\ BlockExists
  \/ id = "actions" /\ BlockMissing
  \/ id = "votings" /\ VotesExist

Refused(id) ==
  \/ id = "blocks" /\ BlockExists
  \/ id = "actions" /\ BlockMissing
  \/ id = "rewards" /\ VotesMissing
  \/ id = "votings" /\ VotesExist

(* INSERT IGNORE ... SELECT ... WHERE epoch_number = ?, for the epoch this *)
(* block closes: the rows of the heights in source are summed up.          *)
Rebuilt(table, source) ==
  [e \in Epochs |->
    IF ClosesEpoch(e) /\ table[e] = {}
      THEN {h \in source : GetEpochNumber(h) = e}
      ELSE table[e]]

rebuildOwnEpoch ==
  [e \in Epochs |->
    IF IsEpochStart(height) /\ e = epochNumber
      THEN {h \in HeightsOf(work.block) : GetEpochNumber(h) = e}
      ELSE work.productivity[e]]

rebuildProductivityTable == Rebuilt(work.productivity, HeightsOf(work.block))
rebuildAccountRewardTable == Rebuilt(work.accountReward, HeightsOf(work.reward))
rebuildAccountIncomeTable == Rebuilt(work.accountIncome, work.balance)

(* The heights for which transfers are recorded with this block:           *)
(* getTransactionLog turns a failed call into a block without transfers.   *)
getTransactionLog == {{height}} \cup {log \in {{}} : "txlog" \in Env}

(* HandleBlock of the blocks protocol. *)
HandleBlocks ==
  /\ Running("blocks")
  /\ ~ Refused("blocks")
  /\ mem' = MapsAfter("blocks")
  /\ work' = [work EXCEPT
       !.productivity = rebuildProductivityTable,
       !.block = @ \cup {[height |-> height, active |-> mem'.active, names |-> mem'.operator]}]
  /\ step' = step + 1
  /\ UNCHANGED <<tip, db, pc, subscribed, lastHeight, batch, poll>>

(* HandleBlock of the actions protocol. *)
HandleActions ==
  /\ Running("actions")
  /\ ~ Refused("actions")
  /\ work' = [work EXCEPT !.action = @ \cup {height}]
  /\ step' = step + 1
  /\ UNCHANGED <<tip, db, pc, subscribed, lastHeight, batch, poll, mem>>

(* HandleBlock of the rewards protocol; every block carries a GrantReward. *)
HandleRewards ==
  /\ Running("rewards")
  /\ ~ Refused("rewards")
  /\ mem' = MapsAfter("rewards")
  /\ work' = [work EXCEPT
       !.accountReward = rebuildAccountRewardTable,
       !.reward = @ \cup {[height |-> height, names |-> mem'.reward]}]
  /\ step' = step + 1
  /\ UNCHANGED <<tip, db, pc, subscribed, lastHeight, batch, poll>>

(* HandleBlock of the votings protocol. *)
HandleVotings ==
  /\ Running("votings")
  /\ ~ Refused("votings")
  /\ work' = [work EXCEPT !.voting = IF IsEpochStart(height) THEN @ \cup {epochNumber} ELSE @]
  /\ step' = step + 1
  /\ UNCHANGED <<tip, db, pc, subscribed, lastHeight, batch, poll, mem>>

(* HandleBlock of the accounts protocol. *)
HandleAccounts ==
  /\ Running("accounts")
  /\ \E transfers \in getTransactionLog :
       work' = [work EXCEPT
         !.accountIncome = rebuildAccountIncomeTable,
         !.balance = @ \cup transfers]
  /\ step' = step + 1
  /\ UNCHANGED <<tip, db, pc, subscribed, lastHeight, batch, poll, mem>>

(* A handler returns an error: the transaction is rolled back, the maps    *)
(* stay as they are.                                                       *)
HandlerFails ==
  /\ "error" \in Env
  /\ \E id \in {"blocks", "actions", "rewards", "votings", "accounts"} :
       /\ Running(id)
       /\ \E maps \in MapsDuring(id) : ReturnError(maps)

HandlerRefused ==
  \E id \in {"blocks", "actions", "rewards", "votings"} :
    /\ Running(id)
    /\ Refused(id)
    /\ ReturnError(MapsAfter(id))

TrackedToEndOfReply ==
  /\ lastHeight' = batch.last
  /\ batch' = [batch EXCEPT !.next = @ + 1]
  /\ pc' = "blocks"
  /\ step' = 0
  /\ UNCHANGED <<tip, subscribed, poll>>

(* The block counts as indexed. *)
Tracked ==
  /\ lastHeight' = height
  /\ batch' = [batch EXCEPT !.next = @ + 1]
  /\ pc' = "blocks"
  /\ step' = 0
  /\ UNCHANGED <<tip, subscribed, poll>>

PanicKeepsTransaction ==
  /\ "panic" \in Env
  /\ Running("actions")
  /\ Tracked
  /\ db' = work
  /\ UNCHANGED <<work, mem>>

(* A panic under Transact is recovered: rollback, and a nil error.  The    *)
(* actions protocol indexes Receipts by the position of the action and     *)
(* slices a Hermes topic at the index of a zero byte.                      *)
HandlerPanics ==
  /\ "panic" \in Env
  /\ Running("actions")
  /\ Tracked
  /\ work' = db
  /\ UNCHANGED <<db, mem>>

Commit ==
  /\ pc = "tx"
  /\ step = Len(IndexProtocols) + 1
  /\ Tracked
  /\ db' = work
  /\ UNCHANGED <<work, mem>>

(* COMMIT fails: the error is logged and dropped. *)
CommitFails ==
  /\ "commit" \in Env
  /\ pc = "tx"
  /\ step = Len(IndexProtocols) + 1
  /\ Tracked
  /\ work' = db
  /\ UNCHANGED <<db, mem>>

-------------------------------------------------------------------------------
(* SubscribeNewBlock: the polling goroutine and the two unbuffered         *)
(* channels on which it waits for the indexing goroutine's select.         *)

Tick ==
  /\ subscribed
  /\ poll = Waiting
  /\ poll' = [state |-> "height", tip |-> tip]
  /\ UNCHANGED <<tip, db, pc, subscribed, lastHeight, batch, step, work, mem>>

TickFails ==
  /\ "error" \in Env
  /\ subscribed
  /\ poll = Waiting
  /\ poll' = [state |-> "error", tip |-> 0]
  /\ UNCHANGED <<tip, db, pc, subscribed, lastHeight, batch, step, work, mem>>

ReceiveHeight ==
  /\ pc = "idle"
  /\ poll.state = "height"
  /\ EnterBatch(lastHeight, poll.tip)
  /\ poll' = Waiting
  /\ UNCHANGED <<tip, db, subscribed, lastHeight, step, work, mem>>

ReceiveReport ==
  /\ pc = "idle"
  /\ poll.state = "error"
  /\ poll' = Waiting
  /\ UNCHANGED <<tip, db, pc, subscribed, lastHeight, batch, step, work, mem>>

-------------------------------------------------------------------------------

Start == Initialize \/ InitializeNotCommitted \/ CatchUp \/ CatchUpFails \/ StayReadOnly

IndexInBatch == RequestBlocks \/ RequestFails \/ ReplyDone \/ BatchDone

HandleBlock ==
  \/ HandleBlocks \/ HandleActions \/ HandleRewards \/ HandleVotings \/ HandleAccounts
  \/ HandlerFails \/ HandlerRefused \/ HandlerPanics

Transact == Begin \/ BeginFails \/ HandleBlock \/ Commit \/ CommitFails

Subscription == Tick \/ TickFails \/ ReceiveHeight \/ ReceiveReport

Next == ChainGrows \/ Crash \/ Start \/ IndexInBatch \/ Transact \/ Subscription

Spec == Init /\ [][Next]_vars

(* What cannot fail is left to the scheduler, which runs both goroutines.  *)
(* The container is restarted after an exit (README.md: docker run         *)
(* --restart on-failure), the ticker comes again every 30 seconds, and a   *)
(* failed batch is retried at the next height it reports: what is tried    *)
(* again and again succeeds some day.                                      *)
Fairness ==
  /\ WF_vars(Initialize)
  /\ WF_vars(ReplyDone \/ BatchDone \/ HandlerRefused \/ ReceiveHeight \/ ReceiveReport)
  /\ SF_vars(CatchUp)
  /\ SF_vars(RequestBlocks)
  /\ SF_vars(Begin)
  /\ SF_vars(HandleBlocks)
  /\ SF_vars(HandleActions)
  /\ SF_vars(HandleRewards)
  /\ SF_vars(HandleVotings)
  /\ SF_vars(HandleAccounts)
  /\ SF_vars(Commit)
  /\ SF_vars(Tick)

FairSpec == Spec /\ Fairness

-------------------------------------------------------------------------------
(* The types of the variables. *)
TypeOK ==
  /\ tip \in 0 .. MaxHeight
  /\ db \in Tables
  /\ pc \in {"down", "boot", "readonly", "request", "blocks", "tx", "idle"}
  /\ subscribed \in BOOLEAN
  /\ lastHeight \in 0 .. MaxHeight
  /\ batch \in [start : Nat, count : Nat, tip : 0 .. MaxHeight,
                next : Nat, last : 0 .. MaxHeight]
  /\ poll \in [state : {"waiting", "height", "error"}, tip : 0 .. MaxHeight]
  /\ step \in 0 .. Len(IndexProtocols) + 1
  /\ work \in Tables
  /\ mem \in [active : {0} \cup Epochs, operator : {0} \cup Epochs, reward : {0} \cup Epochs]

(* What the tables must hold once the blocks up to n have been indexed.    *)
BlockRow(h) == [height |-> h, active |-> GetEpochNumber(h), names |-> GetEpochNumber(h)]
RewardRow(h) == [height |-> h, names |-> GetEpochNumber(h)]

ReportsUpTo(n) ==
  [e \in Epochs |->
    IF e < GetEpochNumber(n) THEN {h \in 1 .. n : GetEpochNumber(h) = e} ELSE {}]

IndexUpTo(n) ==
  [block |-> {BlockRow(h) : h \in 1 .. n},
   action |-> 1 .. n,
   reward |-> {RewardRow(h) : h \in 1 .. n},
   voting |-> 1 .. GetEpochNumber(n),
   balance |-> 0 .. n,
   productivity |-> ReportsUpTo(n),
   accountReward |-> ReportsUpTo(n),
   accountIncome |-> ReportsUpTo(n)]

(* The database is determined by the height it has reached alone, and is   *)
(* never ahead of the chain:                                               *)
(* whatever errors, exits, kills and restarts there were, no block is      *)
(* missing or half indexed, every label is that of the block's own epoch,  *)
(* and an epoch has complete reports from the moment the next one opens.   *)
IndexDetermined == db = EmptyTables \/ \E n \in 0 .. tip : db = IndexUpTo(n)

(* The tracker in memory and the position a restart would resume from are  *)
(* the same whenever blocks may be requested or handed to the handlers.    *)
TrackerIsTip == pc \notin {"down", "boot"} => lastHeight = TipOf(db)

(* Which epoch's delegates the next block is labelled from: a handler that *)
(* skips its refresh must hold those of that block's epoch.                *)
Fresh(epoch) ==
  epoch \in {0, GetEpochNumber(lastHeight)} \/ IsEpochStart(lastHeight + 1)

(* A refresh survives the rollback of the block it was made for.  The maps *)
(* are out of step with the index then, but never in a way that a retry    *)
(* or the next block of the epoch would not notice.                        *)
MapsNeverStale ==
  pc \notin {"down", "boot"} =>
    /\ Fresh(mem.operator)
    /\ Fresh(mem.reward)
    /\ mem.operator # 0 => mem.active # 0 /\ Fresh(mem.active)

(* The handlers of a block work on what the blocks before it left, plus    *)
(* what the k-1 handlers before them did to the tables they own.           *)
StageOf(n, k) ==
  LET before == IndexUpTo(n - 1)
      after == IndexUpTo(n)
  IN  [block |-> IF k > 1 THEN after.block ELSE before.block,
       action |-> IF k > 2 THEN after.action ELSE before.action,
       reward |-> IF k > 3 THEN after.reward ELSE before.reward,
       voting |-> IF k > 4 THEN after.voting ELSE before.voting,
       balance |-> IF k > 5 THEN after.balance ELSE before.balance,
       productivity |-> IF k > 1 THEN after.productivity ELSE before.productivity,
       accountReward |-> IF k > 3 THEN after.accountReward ELSE before.accountReward,
       accountIncome |-> IF k > 5 THEN after.accountIncome ELSE before.accountIncome]

TransactionIsolated == work = IF pc = "tx" THEN StageOf(height, step) ELSE db

(* A batch never reaches past the chain nor skips a height: what is asked  *)
(* for starts right after the last indexed block, what is handled next is  *)
(* that block's successor, and the answer ends where the next request will *)
(* start.                                                                  *)
BatchContiguous ==
  /\ batch.tip <= tip
  /\ poll.tip <= tip
  /\ pc \in {"request", "blocks", "tx"} => batch.start <= lastHeight + 1
  /\ pc = "request" => batch.start = lastHeight + 1
  /\ pc \in {"blocks", "tx"} =>
       /\ batch.next = lastHeight + 1
       /\ batch.next <= batch.last + 1
       /\ batch.last + 1 = batch.start + batch.count
       /\ batch.last <= batch.tip
  /\ pc = "tx" => batch.next <= batch.last

(* The facts about a process that make these conjuncts inductive: it has   *)
(* found or inserted the genesis balances, it starts without maps, and the *)
(* handlers that have run left the maps of the block's own epoch.          *)
ProcessConsistent ==
  /\ pc # "down" => 0 \in db.balance
  /\ pc \in {"down", "boot"} => mem = NilMaps
  /\ pc = "tx" => step >= 1
  /\ pc = "tx" /\ step > 1 => mem.active = epochNumber /\ mem.operator = epochNumber
  /\ pc = "tx" /\ step > 3 => mem.reward = epochNumber

IInv ==
  /\ TypeOK
  /\ IndexDetermined
  /\ TrackerIsTip
  /\ MapsNeverStale
  /\ TransactionIsolated
  /\ BatchContiguous
  /\ ProcessConsistent

-------------------------------------------------------------------------------
(* What is left of this when a panic or a failed COMMIT goes unnoticed.    *)

(* The tables still agree on which blocks there are (balance_history but   *)
(* for those whose transaction log could not be read).                     *)
RowsAgree ==
  /\ db.action = HeightsOf(db.block)
  /\ HeightsOf(db.reward) = HeightsOf(db.block)
  /\ db.balance \ {0} \subseteq HeightsOf(db.block)
  /\ "txlog" \notin Env => HeightsOf(db.block) \subseteq db.balance
  /\ db.voting = {e \in Epochs : GetEpochHeight(e) \in HeightsOf(db.block)}

(* The tracker is never behind the index, or a block would be handed to    *)
(* the handlers twice and block_history refuse it for ever.                *)
TrackerNotBehind == pc \notin {"down", "boot"} => lastHeight >= TipOf(db)

(* If the block that opens an epoch got lost, the index ends before the    *)
(* next epoch: rewards are never computed without the epoch's votes.       *)
LostEpochStopsIndex ==
  \A e \in Epochs :
    GetEpochHeight(e + 1) \in HeightsOf(db.block) =>
      /\ e \in db.voting
      /\ db.accountReward[e] # {}

(* Every block there is has been counted by the tracker. *)
TrackerCovers == pc \notin {"down", "boot"} => \A h \in HeightsOf(db.block) : h <= lastHeight

(* A batch handles the answer in order and starts past the tracker: an     *)
(* answer that is short leaves heights out, but none comes again.          *)
BatchAhead ==
  /\ pc = "request" => lastHeight < batch.start
  /\ pc \in {"blocks", "tx"} =>
       /\ lastHeight < batch.next
       /\ batch.next <= batch.last + 1
       /\ batch.last < batch.start + batch.count
       /\ batch.last <= batch.tip
  /\ pc = "tx" => batch.next <= batch.last /\ step >= 1

(* What the first k-1 handlers of block h have added to the rows there     *)
(* were; the one of rewards has seen to the epoch that h closes.           *)
HandledUpTo(tables, h, k) ==
  LET before == HeightsOf(db.block)
      rows(n) == IF k > n THEN before \cup {h} ELSE before
  IN  /\ HeightsOf(tables.block) = rows(1)
      /\ tables.action = rows(2)
      /\ HeightsOf(tables.reward) = rows(3)
      /\ tables.voting = IF k > 4 /\ IsEpochStart(h) THEN db.voting \cup {GetEpochNumber(h)}
                                                   ELSE db.voting
      /\ tables.balance \ {0} \subseteq rows(5)
      /\ "txlog" \notin Env => rows(5) \subseteq tables.balance
      /\ \A e \in Epochs :
           /\ db.accountReward[e] # {} => tables.accountReward[e] # {}
           /\ k > 3 /\ ClosesEpoch(e) => e \in db.voting /\ tables.accountReward[e] # {}

TransactionExtends ==
  IF pc = "tx" THEN HandledUpTo(work, height, step) ELSE work = db

(* An invariant whatever the environment does. *)
FInv ==
  /\ TypeOK
  /\ RowsAgree
  /\ LostEpochStopsIndex
  /\ TrackerCovers
  /\ BatchAhead
  /\ TransactionExtends

-------------------------------------------------------------------------------
(* The abstract specification.  A block counts as indexed if it is in all  *)
(* tables, an epoch as closed if its three reports cover all its blocks.   *)

IndexedIn(tables) ==
  HeightsOf(tables.block) \cap tables.action \cap HeightsOf(tables.reward) \cap tables.balance

BlocksOf(e) == {h \in Heights : GetEpochNumber(h) = e}

ClosedIn(tables) ==
  {e \in Epochs : /\ tables.productivity[e] = BlocksOf(e)
                  /\ tables.accountReward[e] = BlocksOf(e)
                  /\ tables.accountIncome[e] = BlocksOf(e)}

Index == INSTANCE ChainIndex WITH
           chain <- tip,
           indexed <- IndexedIn(db),
           closed <- ClosedIn(db)

(* Every step of the indexer is an abstract step or invisible, and it goes *)
(* on indexing as long as there are blocks.                                *)
ImplementsChainIndex == Index!Spec

-------------------------------------------------------------------------------
(* What the sources say of the indexer and the faults below disprove.      *)

(* storebase.go, Transact: "err is nil; if Commit returns error update     *)
(* err".  The caller of a COMMIT that failed gets an error and so does not *)
(* count the block as indexed.                                             *)
TrackerNotAhead == pc \notin {"down", "boot"} => lastHeight <= TipOf(db)

===============================================================================
