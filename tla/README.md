# Verification of iotex-analytics

TLA+ models of the block indexer in this repository and of the server that
answers queries over its tables, model-checked with TLC, and
theorems about them checked by TLAPS. Paths below are relative to the
repository's root; line numbers are in `PROJECT.json`.

## 1. The system

The program (`main.go`) polls an IoTeX full node for blocks, writes what they
contain into MySQL tables, and serves the tables over GraphQL.

| Component | State it keeps | Operations | What makes it correct |
|---|---|---|---|
| epoch context (`epochctx`) | the fork parameters | `GetEpochNumber`, `GetEpochHeight`, `FairbankEffectiveHeight` | height and epoch convert back and forth; epochs are contiguous across the forks |
| indexer (`indexservice/indexer.go`) | `lastHeight`, the locals of a batch | `Start`, `Initialize`, `IndexInBatch`, `buildIndex`, `SubscribeNewBlock`, `Stop` | every block exactly once and in order, across errors and restarts; every block some day |
| store (`sql`) | the `*sql.DB` pool | `Start`, `Stop`, `Transact`, `GetDB`, `ParseSQLRows` | a block is in the tables completely or not at all, and the caller knows which; connections come back to the pool; an answer is of some block |
| blocks protocol | `ActiveBlockProducers`, `OperatorAddrToName`; `block_history`, `productivity` | `HandleBlock`, `updateDelegates`, `rebuildProductivityTable` | a block is labelled with the delegates of its own epoch; an epoch's productivity covers all its blocks |
| actions protocol | XRC contract caches; `action_history`, XRC, Hermes and bucket tables | `HandleBlock`, `updateXrc20History`, `updateHermesContract`, ... | every action once; a contract is not misjudged for ever |
| rewards protocol | `RewardAddrToName`; `reward_history`, `account_reward` | `HandleBlock`, `rebuildAccountRewardTable`, `breakdownRewards` | rewards are attributed with the epoch's own votes; shares do not exceed the whole |
| votings protocol | `voting_result`, `voting_meta`, `aggregate_voting`, bucket and candidate tables | `HandleBlock`, `processStaking`, `updateVotingTables`, probation, reward portions | one result per epoch; a delegate's portions are the ones it set |
| accounts protocol | `balance_history`, `account_income` | `Initialize`, `HandleBlock`, `rebuildAccountIncomeTable` | every transfer of every block, income closed per epoch |
| query protocols (`queryprotocol`) | none | read the tables | figures of one query add up, and are those of the chain |
| GraphQL server (`graphql`, `main.go`) | one response per request, shared by its goroutines | resolvers, `parseFieldArguments`, generated marshalling | what is asked is answered: every field, with its own arguments, as of some block |

How they interact. `main` starts the GraphQL server in a goroutine, dials the
two gRPC endpoints and calls `Indexer.Start`. `Start` initializes the protocols
in one transaction, reads `MAX(block_height)`, and catches up with
`IndexInBatch`; then two goroutines run, the polling one (`SubscribeNewBlock`,
a 30 s ticker) and the indexing one (a `select`), joined by two unbuffered
channels. `buildIndex` runs the five `HandleBlock`s in one `Transact`, in
registration order: blocks, actions, rewards, votings, accounts. On the first
block of an epoch the handlers refresh their maps from the node, rebuild the
reports of the epoch that ended, and index the votes of the new one; rewards of
epoch `e` need the voting result that votings stored when `e` began. The maps
live in memory, outside the transaction. A request is a document of fields; the
fields at its root are resolved concurrently, each resolver starts a goroutine for every
field asked for below it, and each of these makes its queries one after the
other on whatever connection of the pool it is given.

What is hard here: a transaction that can roll back next to maps that cannot;
a tracker (`lastHeight`) that must agree with the database after every kind of
failure; restarts in the middle of an epoch; work that happens once per epoch
and cannot be made up for later; errors that are swallowed (a panic, a failed
COMMIT, a failed remote call, a short answer); reads that go around the
transaction through `GetDB`; connections that remember old blocks, since a
session never commits its reads; answers put together by goroutines from queries
that saw different blocks; rounding in the reward arithmetic.

## 2. The modules and the code

| Module | Models | Extends |
|---|---|---|
| `EpochCtx` | `epochctx/epochctx.go` as functions | |
| `ChainIndex` | what the indexer promises (abstract) | `EpochCtx` |
| `Indexer` | `indexservice/indexer.go`, `sql/storebase.go` and the control of the five handlers | `EpochCtx` |
| `Portions` | reward portions in `votings/stakingprotocol.go` | `EpochCtx` |
| `StakingVotes` | native staking in `indexprotocol/votings`, bucket queries in `queryprotocol/votings` | |
| `Votings` | the votes before Fairbank in `votings/protocol.go` and `probation.go`, the other queries of `queryprotocol/votings` | `StakingVotes` |
| `MCVotings` | operators and ballots to begin with, for TLC | `Votings` |
| `Rewards` | `indexprotocol/rewards`, with the rows of blocks and votings it reads | |
| `Bookkeeping` | the five queries of `queryprotocol/rewards` | `Rewards` |
| `MCRewards` | three snapshots of an epoch, for TLC | `Bookkeeping` |
| `Xrc` | `indexprotocol/actions/xrc20.go` and the token queries of `queryprotocol/actions` | |
| `MCXrc` | contracts and blocks, for TLC | `Xrc` |
| `Views` | what the store promises to whoever reads through `GetDB` (abstract) | |
| `Store` | `sql/storebase.go`, `sql/util.go`: the pool of connections, its users and their read views | `EpochCtx` (instantiates `Views`) |
| `Tables` | the rows a block gives: blocks, actions, buckets, Hermes, tokens, holders, balances, incomes | `EpochCtx` |
| `Queries` | `queryprotocol/actions`, `chainmeta`, `hermes2` as functions of the tables | `Tables` |
| `Documents` | a GraphQL document with variables, and the arguments resolvers find in it | |
| `Schema` | the types of the schema: arguments, and what must not be null | |
| `Requests` | `graphql/resolver.go` under `graphql/generated.go`: clients, goroutines, responses | `Views`, `Queries`, `Documents`, `Schema` |
| `MCRequests` | blocks and documents, for TLC | `Requests` |
| `ArithmeticProofs` | theorems about `EpochCtx`, lemmas on finite sums, quotients and shares | `EpochCtx` |
| `IndexerProofs`, `PortionsProofs`, `StoreProofs` | theorems | the module of the name, `ArithmeticProofs` |
| `XrcProofs` | theorems | `Xrc` |
| `VotingsProofs` | theorems about `StakingVotes` and `Votings` | `Votings`, `ArithmeticProofs` |
| `RewardsProofs` | theorems | `Bookkeeping`, `ArithmeticProofs` |
| `RequestsProofs` | theorems about `Tables`, `Queries` and `Requests` | `Requests`, `ArithmeticProofs` |

`PROJECT.json` ("map") has the file and lines of each definition. Definitions
keep the names of the code where there is one. A definition that no other one
uses (`ActionsFirst`, `PutOncePerOwner`, `UpdatedUnlessSet`,
`ShareRoundedUp`, `NeverRefused`, ...) is a plausible slip of the code, written next to the
definition it would replace; "mutants" pairs each property with a slip that
violates it.

**EpochCtx.** The two conversions and the Fairbank height for one Dardanelles
fork. `ForkIsSafe` is the assumption under which they are inverse to each other:
the fork opens an epoch, as it does on the main net.

**Indexer.** `pc` is where the indexing goroutine is: *down*, *boot* (after
`Initialize`), *request* (at the head of the loop of `IndexInBatch`), *blocks*
(a reply is at hand), *tx* (in `Transact`, `step` being the handler to run
next), *idle* (in the `select`), *readonly*. `poll` is the goroutine of
`SubscribeNewBlock`; a rendezvous on a channel is one step of both. `db` is what
is committed, `work` what the open transaction sees, `mem` the maps that survive
a rollback. Tables are abstracted to the heights or epochs they have rows for, a
report to the heights it was summed over, so that a row from the wrong epoch or
a report over too few blocks can be told from a right one. Each handler is one
action for success, one for an error it returns, one for a panic; what it has
done to the maps by then stays. `Env` says which faults may happen, so that one
module serves the environments of the properties.

**ChainIndex.** `indexed` grows block by block, `closed` when an epoch's last
block is followed by another. `Indexer` implements it with `indexed` the blocks
that are in all four per-block tables and `closed` the epochs whose three
reports cover all their blocks (`IndexedIn`, `ClosedIn`).

**Portions.** The contract's log, the candidates and the snapshots taken of them
move with the chain; `processStaking` runs on the first block of an epoch, any
distance behind, and starts either from all events since deployment (first
epoch after Fairbank) or from the rows of the epoch before. Whether the node
includes `ToBlock` in a range is a constant, and the theorems hold for either; without
a configured contract (`HasContract`) the first epoch is refused.

**StakingVotes.** Node operations (stake, register, amend, unstake, withdraw,
change of operator) between epochs; `HandleEpoch` is all that `processStaking`
writes for one: the archive with its versions shared between epochs, the voting
result, the aggregate votes and the meta data. Probation scales votes, and
rounds them, in three places at three granularities.

**Rewards, Bookkeeping.** Every block grants its rewards; the first block of an
epoch closes the one before (`rebuildAccountRewardTable`, `breakdownRewards`).
The unstable sort of equals is a choice of `rank`. The queries are functions of
the tables, each with the condition under which the code answers at all.

**Xrc.** A Transfer log is recorded if its contract answers the calls a token
must answer. The verdicts are in maps of the package; `HandleBlock` and
`HandleBlockFails` both change them, only the former changes tables.
`Restart` reads the known contracts back from the history.

**Votings.** `era` says whether a behaviour is before Fairbank or after; a step
of `HandleBlock` takes one branch or the other. Before: buckets come and go on
Ethereum and in the first native contract, each epoch stores what there is
(`fetchAndStoreRawBuckets`) and works the result out from what is stored, with the
native votes as of the block of the epoch before that had the putPollResult, and
is refused if there was not exactly one. The same is worked out again for every query
(`GetBucketInfoByEpoch`). `filterCandidates` collects delegates by operator, so that
those who share one, or have none, become one as soon as a probation list is
found. The committee's calculator and record tables are external: it is taken to
return the votes of all buckets that count, in numbers of the caller's own.

**Views, Store.** `Store` has the indexer as a loop of transactions with the
queries its handlers make through `GetDB` meanwhile (whether the genesis rows
are there; productivity and portions on the first block of an epoch), requests
that read, and connections, each with the read view its session has open.
`sql/storebase.go:76` opens sessions with autocommit off, so a SELECT outside of a transaction
begins one that nobody ends; the view stays with the connection until a
BEGIN or its age ends it. `Views` says what is left of this for a reader:
`visible`, the blocks an answer may be of. The verdicts that `CreateTables`
reads at the start, before there is a transaction, are not in `Store`. That
the productivity is asked for is so only if delegates share an address.

**Tables, Queries.** A block is its actions and the transfers of its transaction
log. `Tables` gives the tables after a block as a function of those before it, or
that the block is refused (a staking log and no bucket table). `Queries` has one
operator per query, with the code's name; a LIMIT is the set of pages its ORDER BY
allows, since rows of equal time have no order. A bucket gets a row in an epoch only if
the table has never had one like it (`INSERT IGNORE`, `bucketoperator.go:37`), so
`byVoter` asks for the buckets whose newest version is the voter's.

**Documents, Schema, Requests.** A document is a tree of selections with
literals, variables and objects as arguments. `AcceptedDocument` is what the validator of
gqlparser asks of it: fields there are, with the arguments that must be there, each of its
kind (an integer, an object with its integers, a variable declared of the kind), and
objects selected from down to scalars. `parseFieldArguments` is what the
resolvers read of it, `Meant` what it means. A goroutine is an *ask*; it
is a function of the answers it has had so far to what it does next: another
query, an error, a field, or nothing. `Select` answers a query as of any visible block,
`FailSelect` (once per request) with an error; in `NextPage` a client that has got a
full page asks with the document for the next one. When all
have returned, `DataIsNull` says whether a null where none may be takes all
data with it. Blocks are indexed at any moment.

### Abstractions

- A variable has a value, and null is not passed as an argument; of types of
  arguments those are told apart that are integers or made of them.
- Names of delegates are unique, and a candidate is identified by its owner.
- A rational stands for the float64 the code computes a rate or a percentage
  from. That `int64(portion*100)` may come out one short is modelled
  (`BasisPoints`); the rounding of a product of big numbers to 64 bits is not.
- The duration of a bucket is folded into its amount. The node's
  `TotalWeightedVotes` is taken to be weighed as the indexer weighs buckets.
- The three kinds of portion go through the same code; `Portions` follows one.
- Reward logs of one receipt to one address are added up beforehand. Of the names
  `RewardAddrToName` has for an address a grant is labelled with the first; the
  model labels it with a fixed one of them. Percentages above 100 are not considered.
- `SnapshotsAssumption` in `Bookkeeping` (voters do not outweigh the delegate) is
  `VotersWithinTotal` of `StakingVotes`.
- A log is listed in `Xrc` only if it has the hash of Transfer in it; calls fail
  per contract, interface and attempt. `ChainClient` is never nil, as in `main`.
- In `Xrc` and `Bookkeeping` `LIMIT` and `OFFSET` are left out; `Queries` has them.
- Names of delegates in topics are taken to be well formed, and amounts small. In requests
  a name or an address that cannot be converted is one of `Malformed`, and a name in the
  voting tables that cannot be is `Odd`.
- The election's calculator leaves no manified candidate out (`SkipManifiedCandidate` is an
  option of the library, handed on). Run `staking` has one voter on Ethereum, so that the amounts
  of its own that `SelfStakingThreshold` asks of a candidate are part of its score; the
  proofs hold for any voters and thresholds.
- A request has no fragments, and no aliases but for a field that occurs
  twice. Xrc721 has the getters of Xrc20 over tables of its own and is not asked for.
- Answers from the reward and voting tables are a value that is there or is
  not, with a list of `Length` rows: `Bookkeeping` and `StakingVotes` say what is in them.

## 3. What the runs check

| Run | Question | Bounds | Result |
|---|---|---|---|
| `indexer` | under errors, kills and restarts, is the database always the index of a prefix, and does every block get there? | epochs of 2, then 3 blocks from height 3; 7 blocks; 2 blocks per request; errors and kills at every step | holds |
| `indexer_faults` | what survives panics, failed COMMITs, short answers and unreadable transaction logs? | the same to height 6, all of these together, and READ_ONLY | holds |
| `lost_commit` | does the caller learn of a failed COMMIT? | height 4 | violated (finding) |
| `portions` | is a listed portion the last one set? | 2 delegates, portions 0, 1, 2; 2 updates and 2 changes of candidates; epochs of 2 blocks, 9 blocks | holds |
| `lost_portion` | is the last one set listed? | the same | violated (finding) |
| `staking` | do archive, results, aggregates and queries agree, in either era? | 2 candidates, 1 voter, 3 buckets, 4 operations, 4 epochs, probation with a rate that does not divide the votes; 3 epochs and 2 operations on Ethereum | holds |
| `returned_bucket` | does `BucketsByVoter` list every bucket? | 1 candidate, 2 voters | violated (finding) |
| `rewards` | do reward tables and reward queries add up? | 2 epochs of 2 blocks and the block that closes the second, 3 snapshots | holds |
| `xrc` | are tokens recognised and holders complete? | 3 contracts, 7 kinds of log, blocks of one or two logs in one or two receipts, 3 blocks | holds |
| `lost_logs` | is every transfer recorded? | the same | violated (finding) |
| `store` | are connections given back, what do answers tell, and when does everything wait? | 3 connections of which 2 may be lost, 1 reader, 3 blocks in 2 epochs, 1 restart or failure of the node | holds |
| `requests` | is a request answered as it was asked, and of the chain? | 3 blocks in 2 epochs, two contents for each of the first two; 2 blocks remembered at a time; 57 documents; one query that fails per request; lists of 2 rows | holds |

Why the bounds are enough. In `indexer` the chain crosses the Dardanelles fork,
opens three epochs and closes two, one of each length; requests of two blocks
cut epochs in the middle; faults are not bounded in number. In `portions` four
epochs with native staking are indexed, so that a portion is carried twice after it was set. In
`staking` a voter's bucket can be made and moved from one candidate to the other, or made,
unstaked and withdrawn, with the epochs anywhere between; on Ethereum candidates begin with an operator each or with none
and may take each other's. In `rewards` the three snapshots are those in which something
special happens: addresses that are shared, equal votes on the boundary of a
rank, an address of nobody, votes scaled down to nothing, a portion that floats
below its hundredths; any may follow any, with rollbacks and restarts between. To keep the
run small, a block may find the rewarding fund empty once, and the block that
opens the last epoch has one content: no property reads it. In `xrc` three blocks make a contract
known, restart or fail, and meet it again. In `store` three connections are what
it takes for the indexer's two and one of a request, and the third block is the one that asks about
the epoch before it. In `requests` every resolver (but those of Xrc721) is called at least
once, alone or next to one it shares an answer with, with pages at, before and past the
end, and the second block may be one whose transaction log cannot be read.

Deadlock is checked in `indexer`, `indexer_faults` and `requests`. The other models
stop at their bounds, and their configurations say so.

### What the properties mean

- `IndexDetermined`: whatever happened, the database is a function of the
  height it has reached. `TrackerIsTip` and `MapsNeverStale` are why, with
  `TransactionIsolated` and `BatchContiguous` of the proof: tracker, maps,
  transaction and batch are each tied to that height. `ImplementsChainIndex` adds that it moves block by
  block, closes epochs in time and gets to the end of the chain.
- `RowsAgree`, `TrackerNotBehind`, `LostEpochStopsIndex`: with faults the code
  does not report, blocks are lost, yet a block is in all tables or none, none is
  handled twice, and an epoch whose first block is lost stops the index at the
  next epoch rather than have its rewards computed without votes.
- `PortionKept`: for a delegate that has stayed a candidate, reading the log
  window by window yields the latest portion. `NeverOutdated`: a delegate's row
  never has a portion it has changed since.
- `ArchiveExact`: what is read from the archive for an epoch is what was put.
  `VotesAgree`: the bucket list and the aggregate table give a voter the same
  votes, up to the rounding. `VotersWithinTotal`: parts do not exceed the
  whole. `NewVersionListed`: the bucket queries show the current version unless
  the bucket has returned to an earlier one.
- `GravityVotesAgree`: before Fairbank too the result, the aggregate table, the meta
  data and the list of buckets worked out anew for a query give a delegate and its
  voters the same votes. `VotingQueriesAgree`: the queries for staking totals, candidates,
  operators and the rate of probation say the same of an epoch as its tables.
- `SharesAddUp`, `OnlyTopEarn`, `HistoryAgrees`, `EpochsClose`: the reward tables of an
  epoch add up, by address, rank and name, and the epoch can be closed: the INSERT without
  VALUES, after which nothing is indexed any more, takes an epoch in which nobody is sure of a
  share (`SureOfAShare`). With a grant, or block rewards, too small to go round, it is met.
  `HermesWithinPlan`, `HermesAccountsForAll`, `SourcesAgree`, `BookkeepingAgrees`:
  so do the queries among themselves and with the tables.
- `LaterReceiptsRecorded`, `OnlyTokensIndexed`, `HoldersOfHistory`,
  `OddBlockStopsIndex`: a token that was recorded once is recognised for good;
  nothing else is recorded; holders cover the history; and a block whose only
  known token events are malformed ends the index.
- `NothingLeaks`: a connection in use has one user, who gives it back, or was
  lost to rows left open. `ClosedEpochsCounted`: when rewards are split by a
  productivity read on a connection that remembers an old block, at least one and only blocks of
  that epoch are counted. `BlocksIndexed`, `RequestsAnswered`: with two
  connections left, everybody is served in the end. `LastConnectionHangs`: with one, the
  indexer waits for itself until the process ends. `ImplementsViews`: an
  answer is of a block that was committed, never of an open transaction, and
  what a connection remembers is forgotten in the end.
- `AnswersTellOfTheChain`: count and page are two queries and may see different
  blocks; each is that of the chain up to the block it saw, computed from the blocks and
  not from the tables, and an answer of `byAddress` stays its own next to
  `byBucketIndex`, which may write the same field (only the answer that nothing was found does). The number
  of actions is that of the epochs asked for, or of those up to the last that `Chain` had read of.
  `CountCoversPage`, `PagesLeaveNoGap`: how the two, or the pages a client turns, then
  fit each other. `FieldsWritten`: a field asked for is
  written, or one of four known causes prevents it, also when another root fails and
  the data of the response become null: an answer is lost with all the data, never alone. `ArgumentsHeeded`: the arguments the
  resolvers find are those the document says, for a field that a root asks for once and a
  list that is below it once; but for ranges of epochs, pages of token transfers and, in a
  document with variables, literals in pages and texts that are names of variables. `IncomeAgrees`: what accounts earn per epoch adds up to what was moved.
  `PaymentsCountedOnce`: so do the payments of Hermes.

### Fairness

`FairSpec` of `Indexer`. The program is to be run with `--restart on-failure`
(`README.md:80`), so `Initialize` is weakly fair, and so are the steps that only
compute or exchange on a channel. The ticker comes every 30 s
(`indexservice/indexer.go:286`) and a failed batch is tried again from the
tracker at the next height it brings, so the steps that may fail for a reason outside the program (requests,
`Begin`, handlers, `Commit`, a tick) are strongly fair: what is tried again and
again succeeds some day. Nothing is assumed of the chain, which may stop
growing, nor of errors and kills, which may come at any time. Run `indexer` assumes
no panic, failed COMMIT or short answer: with one, a block is lost for good
(`indexer_faults`), and with `READ_ONLY` nothing is indexed at all.

`Store`: `database/sql` keeps those who wait for a connection in a queue, so whoever can
be served again and again is served (SF for `Transact`, `HandlerQueries` and
`Read`); what needs no connection only goes on (WF); and a connection that lies idle
again and again is closed for its age some day (SF of `Expire`; the age counts from
when it was made, whether it is used or not). Restarts and failures of the node are
bounded by `MaxFaults`. `Requests` has safety properties only.

## 4. What is proved

All theorems hold for every value of the constants that satisfies the named
assumptions of the modules.

- **ArithmeticProofs, epochs.** For every geometry with a safe fork: a height lies in its
  epoch (`HeightInEpoch`), the first height of an epoch belongs to it
  (`EpochRoundTrip`), epochs are monotone and entered one by one
  (`EpochMonotone`, `EpochStep`), and the Fairbank height opens an epoch if the fork does
  (`FairbankAligned`). The arithmetic is reduced to one lemma on quotients.
- **ArithmeticProofs, sums.** `SubsetInduction`: what holds of the empty set, and of a finite set
  with one more element if it does without, holds of every finite set; a property is given
  as the set of the sets that have it. From it what the proofs below need of
  `SumFunction`: a sum adds up (`SumOfUnion`, `SumByRows`, `SumByColumns`), keeps order
  (`SumMonotone`), does not depend on names (`SumRenamed`), and rounded shares
  of a sum stay within it and lose less than one each (`SumOfShares`).
- **IndexerProofs.** The first part assumes `ErrorsReported`: `Env` has nothing but errors,
  kills and read-only starts. `IInv` is the conjunction of the invariants of
  run `indexer` and `ProcessConsistent`. None of them is inductive alone: that the
  database stays determined at a commit rests on `TransactionIsolated`, which
  rests on the handlers' refreshes, which rest on `MapsNeverStale` and on
  `BatchContiguous` handing out the right block, which rests on `TrackerIsTip`.
  There is one lemma per action. `RefinesChainIndex` shows that every step
  is a `Grow`, an `Append` or a stutter of `ChainIndex`. The second part assumes
  nothing of `Env`: `FInv` ties tables, tracker and open transaction together by the
  heights they have rows for, however many blocks have been lost. It yields
  `RowsAgree`, `TrackerNotBehind` and `LostEpochStopsIndex` under panics, failed COMMITs and
  short answers as well.
- **PortionsProofs.** `IInv` adds that the log is ordered and that indexed epochs
  have begun. Either reading of `ToBlock` is covered: an event in that block
  is read in the next window, or in both, to the same effect.
- **VotingsProofs.** First `StakingVotes`. The archive: ids of an epoch are positions that exist
  (`Positions`, `Finite`, `ArchiveFormed`), rows are never changed and only appended, so what was read for an
  earlier epoch is read for ever (`ArchiveExact`). The votes: `VInv` adds that what the node says of
  an epoch has one version of each bucket and of each candidate, that a candidate is listed
  with what its buckets weigh, one of them its self-stake, and that the tables of
  an epoch are those worked out from this. `VotersWithinTotal` and `VotesAgree` are then
  facts on sums of rounded shares. `NewVersionListed` needs the order of the archive: a
  version that has not returned was appended after all others of its bucket.
  Then `Votings`. A behaviour of the protocol since Fairbank is one of `StakingVotes`
  (`NativeEraIsStaking`), so all of this holds of it (`NativeEraIsExact`). Before Fairbank, `GInv`:
  the raw data of an indexed epoch are finitely many buckets and an operator per
  candidate, and its tables are those made from the result that the raw data still
  give. That is what lets `GetBucketInfoByEpoch`, which works from the raw data long
  after, agree with the rows. `GravityVotesAgree` is then arithmetic: a delegate's votes
  are scaled as a whole in its row, per voter in the aggregate and per bucket in the
  list, and each lot of roundings loses less than a vote a piece (`PartsOfWhole`, `VotesOfParts`).
  `VotingQueriesAgree` needs of an epoch in either era only that its meta data count
  its rows and that on probation are those whose operator is listed (`EpochAgrees`); it
  is proved once for both. Assumed beyond the types: the buckets
  to begin with are finitely many (`VotingsAssumption`). `VotersWithinTotal` is proved since Fairbank only:
  before it, with the configured `ScoreThreshold` of 0, a candidate has a row without a
  single vote, and its "less than one vote per voter" is less than none. Run
  `staking` has a threshold above 0; `GravityVotesAgree` says "at most" and holds for any.
- **XrcProofs.** `IInv`: a contract is taken for a token only if it has the
  functions, one that has rows is taken for one, and proper rows have their holders. It
  yields `LaterReceiptsRecorded`, `OnlyTokensIndexed`, `HoldersOfHistory`
  and `OddBlockStopsIndex`, for any contracts and blocks.

- **StoreProofs.** `IInv`: a handler's query has an open transaction around it and an
  error is found with no query open (`HandlersInTransaction`); read views and the
  answers made from them are of committed blocks, and of the epoch that closes
  (`ViewsCommitted`). `NothingLeaks` and `LastConnectionHangs` follow for any number of
  connections and readers, and `ClosedEpochsCounted` with the lemmas on epochs.
  `RefinesViews` shows that every step is a `CommitBlock`, a `Forget` or a
  stutter of `Views`.
- **RewardsProofs.** `RInv`: the blocks indexed are those of the chain
  (`ChainFormed`), the raw tables hold what they give (`TablesFormed`), the map of names, if there is one, is
  that of the next block's epoch unless this block will refresh it, whatever was rolled back or
  restarted (`MapFormed`, `MapIsFresh`), an epoch that is closed has the reward table that rebuilding it would give (`ClosedAsRebuilt`) and one that is not
  has none (`OpenIsEmpty`). No property of run `rewards` is inductive without it: `SharesAddUp` compares a table
  written once with sums over rows written block by block. The queries are then
  compared by state-level lemmas, among them that two roundings of the same
  promise may differ by one, and that a delegate on probation keeps the rest. All eight properties
  of the run are proved, for any snapshots. Assumed: amounts are naturals (`AmountsAssumption`), which they are in a
  reward log; voters are finite in number, their votes naturals, and every portion that is
  set is one `BasisPoints` has a value for (`VotersAssumption`); a float64 is exact for whole
  percentages and at most one hundredth short for others (`BasisPointsAssumption`). The attempt
  showed that `HermesWithinPlan`, as first written, was false of a delegate listed
  without a single vote: nobody is there to be given its promise. It now says so.

- **RequestsProofs.** `TInv` says of the tables after each block what they owe to the
  blocks so far: a row of `balance_history` for each transfer of a log that could be
  read, an income for each party of each epoch that is over, a row of
  `hermes_contract` for each action that has distributed. It is proved for all of them, old
  ones included, because queries read old ones. `IncomeAgrees` is then a sum taken
  in two orders, by row and by transfer, and `PaymentsCountedOnce` a one-to-one
  correspondence of payments and joined rows, which breaks if an action has two rows.

  What clients get rests on two more invariants. `AInv` adds to `TInv` the rows that
  lists are read from: at every height they are those of the blocks up to there, one
  for each action, and holders of tokens are never taken away. `RInv` is about a request
  between `Begin` and `Return`, with blocks coming in at any time. An ask is waited
  for, by its goroutine or behind the one that looks for the last block (`Waiting`); or its root
  has failed; or its field tells of the blocks its queries were answered as of
  (`Told`); or it has none to write (`Quiet`). That a field is there, or why it is not, is needed even to
  prove what it says: fields of a root share a map, and `byBucketIndex`
  may write what `byAddress` was to, where it finds none (`Overwritten`). Of the pages already turned, `RInv` says
  that each is one of the list as of its block and begins where the one before ended (`PagesTurned`). One lemma
  per action shows that it stays; blocks that come in leave it alone because
  tables of old heights do not change (`IndexGoesOn`, `WalkGoesOn`). From the two
  follow `FieldsWritten`, `AnswersTellOfTheChain` (a list has as many rows as there are
  actions, by a one-to-one map of actions to rows, `RowsOf`, each as of the view it was read in; actions are
  counted per epoch as a sum over blocks, `NumberAgrees`), `CountCoversPage` (lists only grow)
  and `PagesLeaveNoGap`. The last is an argument on ranks, in a list with one row per block:
  rows that come in push an old one further down, so one that was above the last
  row of the last page, and not on it, was on an earlier page or is on none only if a
  page began past it; pages that begin where others ended leave no such place. So the theorem
  needs no bound on how many blocks come in or on how many pages are turned.

  `ArgumentsHeeded` is an invariant of no step: a request in work has been accepted
  (`RequestFits`), and the rest is about the schema and the two readings. Value by value
  they agree but for the texts the property excepts (`ReadAsMeant`), and a value of a kind
  that is a number, or made of numbers, is read as that, variables or not
  (`NumbersRead`). What is found for a field is joined from the root, the field and the list below it
  that pages; that the list is one of the field's type and that no argument of the one hides one of the other
  is shown type by type (`HasLists`, `FieldHeeded`). The same lemmas give
  `PagesAreNumbers`: whatever document is accepted, a page is two integers, a bucket index is one, and the
  arguments a query needs are there. Everything above rests on it.

  Assumed: a block is indexed at its height, has finitely many actions and
  transfers, and amounts are naturals; a bucket of the node has an index, which is an integer
  (`RequestsAssumption`); no document asks for xrc721 (`FormsAssumption`); and None names no field
  (`NoneAssumption`). The attempt to prove `ArgumentsHeeded` gave a document for which, as
  first stated, it does not hold: a list selected twice with two pages, of
  which the last is used for both (now one of the 57). The attempt to prove
  `AnswersTellOfTheChain` showed that `updateStakingResult`, as first written, gave a bucket that
  went back to an earlier owner a new row, which `INSERT IGNORE` does not. The one
  to prove `FieldsWritten` gave the exact condition under which `byAddressAndType` is silent:
  an offset that no action is beyond, whatever the page.

Only model-checked: liveness (the prover has no rule for fairness here), so
`BlocksIndexed`, `RequestsAnswered` and the WF parts of `ImplementsChainIndex` and `ImplementsViews`.
All other properties of the runs are proved. The prover does not look into `@@` and `:>`: what a proof is about is written
with function constructors instead (`Updated`, `Joined`). Induction over a data structure
needs theorems with an operator as parameter, which the provers cannot instantiate;
sums over finite sets do without, by `SubsetInduction`.

## 5. Findings

Each has a run whose counterexample shows it.

1. `sql/storebase.go:131`: the error of COMMIT is dropped, contrary to the
   comment above it; the tracker moves past a block that is not stored
   (`lost_commit`).
2. `votings/stakingprotocol.go:92`: a delegate that sets its portion before its
   row exists is listed with 0 until it sets it again (`lost_portion`).
3. `queryprotocol/votings/protocol.go:35`: a bucket that returns to an earlier
   version is listed as the version in between (`returned_bucket`).
4. `actions/xrc20.go:69`: of the token transfers in a receipt one is stored
   (`lost_logs`).

Facts met on the way that have no run of their own:

- A short answer of `GetRawBlocks` and a recovered panic lose blocks as a
  failed COMMIT does; if it was the first one of an epoch, the index ends
  with that epoch (`LostEpochStopsIndex`).
- `BucketsByCandidate` lists buckets that were withdrawn: unstaked ones are never
  stored, so the last staked version stays.
- A token transfer without indexed addresses is not found by the queries by
  address, which look at the topics; and a row that cannot be parsed makes
  every token query that meets it answer an error only.
- A block whose only known token events are malformed is refused for ever
  (`OddBlockStopsIndex`).
- `account_income` starts with epoch 1: the genesis balances are in no epoch's
  income (`accounts/protocol.go:304`).
- `CreateTables` does not create the bucket-action table (`actions/bucket.go:39`).
- `accounts/protocol.go:350`: an unreadable transaction log counts as an empty
  one; the block's transfers are never indexed (`RowsAgree`, `IncomeAgrees` except it, so that no property would notice more of them).
- A connection that remembers the middle of an epoch undercounts its
  productivity when the next one begins (`ClosedEpochsCounted` says at least one
  block, not all). With `MAX_OPEN_CONNECTIONS` 1 the indexer hangs before the first block (`LastConnectionHangs`).
- `byBucketIndex` writes a bucket without actions to `byAddress`
  (`resolver.go:951`); `byAddressAndType` with an offset that nothing is beyond,
  0 of nothing included, answers nothing, and no error (`:787`); `totalCirculatingSupplyNoRewardPool` is looked for
  under a truncated name (`:216`); the count of `byDates` counts blocks.
- In a document with variables a page that is written out is lost, and a string that is
  the name of a variable is taken for it; an `EpochRange` in a variable is not
  understood; of a field that occurs twice the first's arguments answer both,
  and of a list that occurs twice the last's page;
  `pagination` of the lists of token transfers is in the schema and ignored.
- `getVotingMeta` goes on after ErrNotExist and answers that the epochs exist,
  without data (`resolver.go:535`). A `pagination` left out of
  `bucketsByVoter` is a nil that is read; the panic is recovered, and all data of the response null.
- Before Fairbank a block is refused if the epoch before had not exactly one
  putPollResult while there are native buckets, and the bucket lists of such an
  epoch cannot be asked for. The probation rate of a delegate is counted with
  the operator of another epoch (`queryprotocol/votings/protocol.go:347`).
- A Hermes delegate name of full 32 bytes has no zero byte to cut it at
  (`hermes.go:113`).
- `Stop` sends on a channel that is never made; `main` never calls it.

## 6. What is not modelled, and the plan

Not modelled, or only in part:

- the reflection of `ParseSQLRows`, the connect strings, the configuration and
  dialling in `main.go`, and test utilities: no state and no order of steps;
- marshalling, introspection and complexity in `generated.go`: generated from
  the schema, without state; what is modelled of it is which fields there are, what
  may be null, and that roots and fields are worked on concurrently;
- `Stop`: it sends on a channel that is never made, and `main` never calls it;
- a query before `Indexer.Start` has opened the store: the server listens before,
  and dereferences a nil `*sql.DB`, which is recovered;
- a panic in a goroutine of a resolver, which ends the process: a restart, as `Crash`;
- the figures of productivity over a range of epochs and of the Hermes ratio.

The modules were written in this order, the most important behaviour first:
`EpochCtx`, `Indexer` and `ChainIndex`, `Portions`, `StakingVotes`, `Rewards` and
`Bookkeeping`, `Xrc`; then `Store` and `Views`, `Tables` and `Queries`, `Documents`,
`Schema` and `Requests`, `Votings`. Next:

1. *Productivity queries*, with the epochs they count.
