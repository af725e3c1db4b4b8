---------------------------------- MODULE Xrc ----------------------------------
(***************************************************************************)
(* The token transfers of the actions protocol                             *)
(* (indexprotocol/actions/xrc20.go) and the queries over them              *)
(* (queryprotocol/actions/protocol.go).                                    *)
(*                                                                         *)
(* Whether a log with a Transfer event is a token transfer depends on the  *)
(* contract: the first time the indexer meets one it calls a few of the    *)
(* functions a token must have on the node, and keeps the verdict in maps  *)
(* of the package.  The verdicts outlive rollbacks, a positive one is      *)
(* found again after a restart if there is a row of the contract, and a    *)
(* call that fails for whatever reason is a negative one.                  *)
(***************************************************************************)
EXTENDS Integers, Sequences, FiniteSets, Functions

CONSTANTS
  Addresses,      \* addresses that send and receive tokens
  Contracts,      \* contracts that emit Transfer events
  Implements,     \* per contract, the functions it has
  Blocks,         \* blocks there may be: the logs of Transfer events, per receipt
  MaxHeight       \* bound on the blocks

Interfaces == {"xrc20", "xrc721"}

(* Where the log carries the two addresses and the amount or token: in the *)
(* topics, in the data, or all four words in the topics.  An odd one has   *)
(* too few or too many words, but not too many for XRC20.                  *)
Shapes == {"indexed", "plain", "nft", "odd"}

Logs == [contract : Contracts, shape : Shapes, from : Addresses, to : Addresses]

ASSUME XrcAssumption ==
  /\ Blocks \subseteq Seq(Seq(Logs))
  /\ DOMAIN Implements = Contracts
  /\ MaxHeight \in Nat

VARIABLES
  chain,        \* the blocks of the node
  height,       \* the blocks indexed
  contract,     \* in memory: xrc20Contract, xrc721Contract
  nonContract,  \* in memory: nonXrc20Contract, nonXrc721Contract
  history,      \* xrc20_history, xrc721_history
  holders       \* xrc20_holders, xrc721_holders

verdicts == <<contract, nonContract>>
tables == <<history, holders>>
vars == <<chain, height, verdicts, tables>>

-------------------------------------------------------------------------------
(* checkTopics and checkXrc721Topics. *)
InterfaceOf(log) == IF log.shape = "nft" THEN "xrc721" ELSE "xrc20"

LogsOf(block, i) == {l \in UNION {Range(r) : r \in Range(block)} : InterfaceOf(l) = i}

ReadsWithoutAllowance(i) ==
  {"totalSupply", "balanceOf", "approve"} \cup IF i = "xrc721" THEN {"ownerOf"} ELSE {}

(* The functions that are called on a contract to find out. *)
Reads(i) ==
  {"totalSupply", "balanceOf", "approve"} \cup
    IF i = "xrc20" THEN {"allowance"} ELSE {"ownerOf"}

(* readContract, for all of them: a revert will do, an error of the node   *)
(* or of the connection will not.                                          *)
readContracts(i, c, failing) == Reads(i) \subseteq Implements[c] /\ <<i, c>> \notin failing

(* checkIsXrc20 and checkIsXrc721. *)
IsToken(i, c, failing) ==
  /\ c \notin nonContract[i]
  /\ c \in contract[i] \/ readContracts(i, c, failing)

(* ParseContractData finds the two addresses in the words of an event, in  *)
(* the topics or not.                                                      *)
Parses(log) == log.shape # "odd"

-------------------------------------------------------------------------------
(* updateXrc20History.                                                     *)

Recognised(block, i, failing) == {l \in LogsOf(block, i) : IsToken(i, l.contract, failing)}

(* The hash of the receipt is unique in a history, and of the rows of one  *)
(* receipt INSERT IGNORE stores the first.                                 *)
RowsOf(block, i, failing) ==
  LET found(k) == {j \in DOMAIN block[k] : block[k][j] \in Recognised(block, i, failing)}
      first(k) == CHOOSE j \in found(k) : \A m \in found(k) : j <= m
  IN  {[height |-> height + 1, receipt |-> k, log |-> block[k][first(k)]] :
         k \in {n \in DOMAIN block : found(n) # {}}}

SendersOf(block, i, failing) ==
  {<<l.contract, l.from>> : l \in {m \in Recognised(block, i, failing) : Parses(m)}}

(* All recognised logs count, with a row or not. *)
HoldersOf(block, i, failing) ==
  UNION {{<<l.contract, l.from>>, <<l.contract, l.to>>} :
           l \in {m \in Recognised(block, i, failing) : Parses(m)}}

NeverRefused(block, failing) == FALSE

(* With rows but no holders the INSERT of the latter has no values, and    *)
(* that is an error.  For XRC721 the rows are left out then.               *)
Refused(block, failing) ==
  RowsOf(block, "xrc20", failing) # {} /\ HoldersOf(block, "xrc20", failing) = {}

(* The verdicts on the contracts met for the first time. *)
Judge(block, failing) ==
  LET met(i)   == {l.contract : l \in LogsOf(block, i)}
      yes(i)   == {c \in met(i) : IsToken(i, c, failing)}
  IN  /\ contract' = [i \in Interfaces |-> contract[i] \cup yes(i)]
      /\ nonContract' = [i \in Interfaces |-> nonContract[i] \cup (met(i) \ yes(i))]

-------------------------------------------------------------------------------
(* The node. *)
NewBlock(block) ==
  /\ height = Len(chain) /\ height < MaxHeight
  /\ chain' = Append(chain, block)
  /\ UNCHANGED <<height, verdicts, tables>>

Pending == chain[height + 1]

(* HandleBlock, as far as tokens go. *)
HandleBlock(failing) ==
  /\ height < Len(chain)
  /\ ~Refused(Pending, failing)
  /\ height' = height + 1
  /\ Judge(Pending, failing)
  /\ history' = [i \in Interfaces |->
       history[i] \cup
         IF i = "xrc721" /\ HoldersOf(Pending, i, failing) = {}
           THEN {} ELSE RowsOf(Pending, i, failing)]
  /\ holders' = [i \in Interfaces |-> holders[i] \cup HoldersOf(Pending, i, failing)]
  /\ UNCHANGED chain

(* The block is refused, or rolled back later on. *)
HandleBlockFails(failing) ==
  /\ height < Len(chain)
  /\ Judge(Pending, failing)
  /\ UNCHANGED <<chain, height, tables>>

ContractsForgotten(i) == {}

(* SELECT DISTINCT address. *)
initContract(i) == {r.log.contract : r \in history[i]}

(* CreateXrc20Tables, when the process is started again. *)
Restart ==
  /\ contract' = [i \in Interfaces |-> initContract(i)]
  /\ nonContract' = [i \in Interfaces |-> {}]
  /\ UNCHANGED <<chain, height, tables>>

Init ==
  /\ chain = <<>> /\ height = 0
  /\ contract = [i \in Interfaces |-> {}]
  /\ nonContract = [i \in Interfaces |-> {}]
  /\ history = [i \in Interfaces |-> {}]
  /\ holders = [i \in Interfaces |-> {}]

(* The calls to tokens that the block will make, and that may fail. *)
Calls(block) ==
  {ic \in Interfaces \X Contracts :
     /\ ic[2] \in {l.contract : l \in LogsOf(block, ic[1])} \ (contract[ic[1]] \cup nonContract[ic[1]])
     /\ Reads(ic[1]) \subseteq Implements[ic[2]]}

Next ==
  \/ \E block \in Blocks : NewBlock(block)
  \/ /\ height < Len(chain)
     /\ \E failing \in SUBSET Calls(Pending) :
          HandleBlock(failing) \/ HandleBlockFails(failing)
  \/ Restart

Spec == Init /\ [][Next]_vars

-------------------------------------------------------------------------------
(* The queries.  One that finds a row it cannot parse answers nothing but  *)
(* an error.  An address is looked for in the topics.                      *)
Answers(rows) == rows # {} /\ \A r \in rows : Parses(r.log)

getXrc(i, c) == {r \in history[i] : r.log.contract = c}

getXrcByPage(i) == history[i]

getXrcByAddress(i, a) ==
  {r \in history[i] : r.log.shape # "plain" /\ a \in {r.log.from, r.log.to}}

GetXrc20ByContractAndAddress(c, a) ==
  {r \in getXrcByAddress("xrc20", a) : r.log.contract = c}

getXrcHolders(i, c) == {p[2] : p \in {q \in holders[i] : q[1] = c}}

-------------------------------------------------------------------------------
Rows == [height : 1 .. MaxHeight, receipt : Nat, log : Logs]

(* The types of the variables; a receipt has one row in each history at    *)
(* most, and there is one verdict on a contract.                           *)
TypeOK ==
  /\ chain \in Seq(Blocks)
  /\ height \in {Len(chain), Len(chain) - 1} /\ height \in 0 .. MaxHeight
  /\ contract \in [Interfaces -> SUBSET Contracts]
  /\ nonContract \in [Interfaces -> SUBSET Contracts]
  /\ \A i \in Interfaces :
       /\ contract[i] \cap nonContract[i] = {}
       /\ \A r, s \in history[i] : r.height = s.height /\ r.receipt = s.receipt => r = s
       /\ history[i] \subseteq Rows
       /\ holders[i] \subseteq Contracts \X Addresses

RowOf(i, h, k) == \E r \in history[i] : r.height = h /\ r.receipt = k

KnownBefore(i, h) == {r.log.contract : r \in {s \in history[i] : s.height < h}}

(* Once there is a row of a contract, every later receipt with a transfer  *)
(* of it has a row, through restarts and rollbacks and without a word from *)
(* the node.                                                               *)
LaterReceiptsRecorded ==
  \A i \in Interfaces, h \in 1 .. height : \A k \in DOMAIN chain[h] :
    (\E l \in Range(chain[h][k]) : InterfaceOf(l) = i /\ l.contract \in KnownBefore(i, h))
      => RowOf(i, h, k)

(* Only the transfers of contracts that have every function of the         *)
(* interface are recorded, and each as what it is: an NFT that knows most  *)
(* of XRC20 is no XRC20 token.                                             *)
OnlyTokensIndexed ==
  /\ \A r \in history["xrc20"] :
       {"totalSupply", "balanceOf", "allowance", "approve"} \subseteq Implements[r.log.contract]
  /\ \A r \in history["xrc721"] :
       {"totalSupply", "balanceOf", "approve", "ownerOf"} \subseteq Implements[r.log.contract]

(* Whoever the queries find in a transfer, by contract, page or address,   *)
(* is a holder of the token to the query for holders.                      *)
HoldersOfHistory ==
  \A i \in Interfaces :
    /\ \A c \in Contracts : Answers(getXrc(i, c)) =>
         \A r \in getXrc(i, c) : {r.log.from, r.log.to} \subseteq getXrcHolders(i, c)
    /\ Answers(getXrcByPage(i)) =>
         \A r \in getXrcByPage(i) : {r.log.from, r.log.to} \subseteq getXrcHolders(i, r.log.contract)
    /\ \A a \in Addresses : Answers(getXrcByAddress(i, a)) =>
         \A r \in getXrcByAddress(i, a) : a \in getXrcHolders(i, r.log.contract)
    /\ \A c \in Contracts, a \in Addresses :
         Answers(GetXrc20ByContractAndAddress(c, a)) => a \in getXrcHolders("xrc20", c)

(* A block in which a known token emits an event that is too short, and    *)
(* nobody emits a proper one, is never indexed, whatever restarts there    *)
(* are: the index ends before it.                                          *)
OddBlockStopsIndex ==
  \A h \in 1 .. height :
    LET logs == LogsOf(chain[h], "xrc20")
    IN  (\E l \in logs : l.contract \in KnownBefore("xrc20", h)) => \E l \in logs : Parses(l)

-------------------------------------------------------------------------------
(* README.md: "Actions protocol logs action metadata and records more      *)
(* detailed information for special transactions, such as XRC smart        *)
(* contracts".  The transfers of a known token are recorded.               *)
EveryTransferRecorded ==
  \A i \in Interfaces, h \in 1 .. height : \A k \in DOMAIN chain[h] :
    \A l \in Range(chain[h][k]) :
      InterfaceOf(l) = i /\ l.contract \in KnownBefore(i, h) =>
        \E r \in history[i] : r.height = h /\ r.receipt = k /\ r.log = l

===============================================================================
