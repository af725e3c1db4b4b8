------------------------------- MODULE XrcProofs -------------------------------
(***************************************************************************)
(* Proofs about Xrc, for every set of contracts, whatever functions they   *)
(* have, and every set of blocks.                                          *)
(***************************************************************************)
EXTENDS Xrc, WellFoundedInduction, TLAPS

-------------------------------------------------------------------------------
(* The rows of a block. *)

LEMMA FirstOf ==
  ASSUME NEW T, T \subseteq Nat, T # {}
  PROVE  \E x \in T : \A y \in T : x <= y
<1>1. PICK x \in T : \A y \in T : ~ (<<y, x>> \in OpToRel(<, Nat))
  BY NatLessThanWellFounded, WFMin
<1>2. \A y \in T : ~ (y < x)
  BY <1>1 DEF OpToRel
<1> QED  BY <1>2

(* A row is of the next block and of a recognised log in its receipt. *)
LEMMA RowsOfType ==
  ASSUME NEW block \in Seq(Seq(Logs)), NEW i \in Interfaces, NEW failing,
         NEW r \in RowsOf(block, i, failing)
  PROVE  /\ r.height = height + 1
         /\ r.receipt \in DOMAIN block
         /\ r.log \in Recognised(block, i, failing)
         /\ r.log \in Logs
         /\ r = [height |-> height + 1, receipt |-> r.receipt, log |-> r.log]
<1> DEFINE found(k) == {j \in DOMAIN block[k] : block[k][j] \in Recognised(block, i, failing)}
           first(k) == CHOOSE j \in found(k) : \A m \in found(k) : j <= m
<1>1. PICK k \in DOMAIN block :
        /\ found(k) # {}
        /\ r = [height |-> height + 1, receipt |-> k, log |-> block[k][first(k)]]
  BY DEF RowsOf
<1>2. block[k] \in Seq(Logs)
  BY <1>1
<1>3. first(k) \in found(k)
  <2>1. found(k) \subseteq Nat
    BY <1>2
  <2>2. \E j \in found(k) : \A m \in found(k) : j <= m
    <3> HIDE DEF found
    <3> QED  BY <2>1, <1>1, FirstOf
  <2> QED  BY <2>2
<1>4. first(k) \in DOMAIN block[k] /\ block[k][first(k)] \in Recognised(block, i, failing)
  BY <1>3
<1>5. block[k][first(k)] \in Logs
  <2> HIDE DEF first
  <2> QED  BY <1>2, <1>4
<1> HIDE DEF first
<1> QED  BY <1>1, <1>4, <1>5

(* A receipt has one row at most. *)
LEMMA RowsOfReceipt ==
  ASSUME NEW block, NEW i, NEW failing,
         NEW r \in RowsOf(block, i, failing), NEW s \in RowsOf(block, i, failing),
         r.receipt = s.receipt
  PROVE  r = s
BY DEF RowsOf

(* And it has one if a log in it is recognised. *)
LEMMA RowsOfRecognised ==
  ASSUME NEW block, NEW i, NEW failing, NEW k \in DOMAIN block,
         NEW l \in Range(block[k]), l \in Recognised(block, i, failing)
  PROVE  \E r \in RowsOf(block, i, failing) : r.height = height + 1 /\ r.receipt = k
<1> DEFINE found(n) == {j \in DOMAIN block[n] : block[n][j] \in Recognised(block, i, failing)}
           first(n) == CHOOSE j \in found(n) : \A m \in found(n) : j <= m
<1>1. found(k) # {}
  BY DEF Range
<1>2. [height |-> height + 1, receipt |-> k, log |-> block[k][first(k)]]
        \in RowsOf(block, i, failing)
  BY <1>1 DEF RowsOf
<1> QED  BY <1>2

(* The logs of a block are logs, each of one interface. *)
LEMMA LogsOfType ==
  ASSUME NEW block \in Seq(Seq(Logs)), NEW i
  PROVE  \A l \in LogsOf(block, i) : l \in Logs /\ InterfaceOf(l) = i
BY DEF LogsOf, Range

LEMMA LogsOfReceipt ==
  ASSUME NEW block, NEW k \in DOMAIN block, NEW l \in Range(block[k])
  PROVE  l \in LogsOf(block, InterfaceOf(l))
BY DEF LogsOf, Range

-------------------------------------------------------------------------------
(* The invariant: a contract is taken for a token only if it has what a    *)
(* token has, one that has rows is taken for one, and every proper row has *)
(* its holders.                                                            *)
VerdictsRight == \A i \in Interfaces : \A c \in contract[i] : Reads(i) \subseteq Implements[c]

RowsOfTokens == \A i \in Interfaces : \A r \in history[i] : r.log.contract \in contract[i]

RowsIndexed == \A i \in Interfaces : \A r \in history[i] : r.height <= height

RowsHaveHolders ==
  \A i \in Interfaces : \A r \in history[i] :
    Parses(r.log) =>
      <<r.log.contract, r.log.from>> \in holders[i] /\ <<r.log.contract, r.log.to>> \in holders[i]

IInv ==
  /\ TypeOK
  /\ Len(chain) <= MaxHeight
  /\ VerdictsRight
  /\ RowsOfTokens
  /\ RowsIndexed
  /\ RowsHaveHolders
  /\ LaterReceiptsRecorded
  /\ OddBlockStopsIndex

-------------------------------------------------------------------------------
(* The verdicts after a block. *)
LEMMA Judged ==
  ASSUME NEW block \in Seq(Seq(Logs)), NEW failing, TypeOK, VerdictsRight,
         Judge(block, failing)
  PROVE  /\ contract' \in [Interfaces -> SUBSET Contracts]
         /\ nonContract' \in [Interfaces -> SUBSET Contracts]
         /\ \A i \in Interfaces : contract'[i] \cap nonContract'[i] = {}
         /\ \A i \in Interfaces : contract[i] \subseteq contract'[i]
         /\ \A i \in Interfaces : \A l \in Recognised(block, i, failing) :
              l.contract \in contract'[i]
         /\ VerdictsRight'
<1> DEFINE met(i) == {l.contract : l \in LogsOf(block, i)}
           yes(i) == {c \in met(i) : IsToken(i, c, failing)}
<1>1. /\ contract' = [i \in Interfaces |-> contract[i] \cup yes(i)]
      /\ nonContract' = [i \in Interfaces |-> nonContract[i] \cup (met(i) \ yes(i))]
  BY DEF Judge
<1>2. \A i \in Interfaces : met(i) \subseteq Contracts
  <2>1. \A i \in Interfaces : \A l \in LogsOf(block, i) : l \in Logs
    BY LogsOfType
  <2>2. \A l \in Logs : l.contract \in Contracts
    BY DEF Logs
  <2> QED  BY <2>1, <2>2
<1>3. \A i \in Interfaces :
        /\ contract[i] \subseteq Contracts /\ nonContract[i] \subseteq Contracts
        /\ contract[i] \cap nonContract[i] = {}
  BY DEF TypeOK
<1>4. \A i \in Interfaces : \A c \in yes(i) :
        c \notin nonContract[i] /\ Reads(i) \subseteq Implements[c]
  BY DEF IsToken, readContracts, VerdictsRight
<1>5. \A i \in Interfaces : \A c \in met(i) : c \in contract[i] => c \in yes(i)
  BY <1>3 DEF IsToken
<1>6. \A i \in Interfaces : \A l \in Recognised(block, i, failing) : l.contract \in yes(i)
  BY DEF Recognised
<1> HIDE DEF met, yes
<1>7. \A i \in Interfaces : yes(i) \subseteq Contracts
  <2>1. \A i \in Interfaces : yes(i) \subseteq met(i)
    BY DEF yes
  <2> QED  BY <2>1, <1>2
<1>8. contract' \in [Interfaces -> SUBSET Contracts] /\ nonContract' \in [Interfaces -> SUBSET Contracts]
  BY <1>1, <1>2, <1>3, <1>7
<1>9. \A i \in Interfaces :
        /\ contract'[i] = contract[i] \cup yes(i)
        /\ nonContract'[i] = nonContract[i] \cup (met(i) \ yes(i))
  BY <1>1
<1>10. \A i \in Interfaces : contract'[i] \cap nonContract'[i] = {}
  BY <1>9, <1>3, <1>4, <1>5
<1>11. VerdictsRight'
  BY <1>9, <1>4 DEF VerdictsRight, Reads
<1> QED  BY <1>6, <1>8, <1>9, <1>10, <1>11

(* A log of a contract that has rows is recognised. *)
LEMMA KnownRecognised ==
  ASSUME NEW block, NEW i \in Interfaces, NEW failing, NEW h, TypeOK, RowsOfTokens,
         NEW l \in LogsOf(block, i), l.contract \in KnownBefore(i, h)
  PROVE  l \in Recognised(block, i, failing)
<1>1. l.contract \in contract[i]
  BY DEF KnownBefore, RowsOfTokens
<1>2. l.contract \notin nonContract[i]
  BY <1>1 DEF TypeOK
<1> QED  BY <1>1, <1>2 DEF Recognised, IsToken

-------------------------------------------------------------------------------
(* The tables after a block. *)
NewRows(i, failing) ==
  IF i = "xrc721" /\ HoldersOf(Pending, i, failing) = {} THEN {} ELSE RowsOf(Pending, i, failing)

LEMMA PendingBlock ==
  ASSUME TypeOK, XrcAssumption, height < Len(chain)
  PROVE  /\ Pending \in Seq(Seq(Logs))
         /\ height \in Nat /\ Len(chain) = height + 1
BY DEF TypeOK, XrcAssumption, Pending

LEMMA RowsAndHolders ==
  ASSUME IInv, XrcAssumption, NEW failing, HandleBlock(failing)
  PROVE  /\ \A i \in Interfaces : history'[i] = history[i] \cup NewRows(i, failing)
         /\ \A i \in Interfaces : holders'[i] = holders[i] \cup HoldersOf(Pending, i, failing)
         /\ DOMAIN history' = Interfaces /\ DOMAIN holders' = Interfaces
         /\ \A i \in Interfaces : \A r \in NewRows(i, failing) :
              /\ r \in RowsOf(Pending, i, failing)
              /\ r.height = height + 1
              /\ r.log \in Recognised(Pending, i, failing)
              /\ r \in Rows
<1>1. Pending \in Seq(Seq(Logs)) /\ height \in Nat /\ height + 1 <= MaxHeight
  BY PendingBlock DEF IInv, HandleBlock
<1>2. \A i \in Interfaces : \A r \in NewRows(i, failing) : r \in RowsOf(Pending, i, failing)
  BY DEF NewRows
<1>3. \A i \in Interfaces : \A r \in RowsOf(Pending, i, failing) :
        /\ r.height = height + 1
        /\ r.receipt \in DOMAIN Pending
        /\ r.log \in Recognised(Pending, i, failing)
        /\ r.log \in Logs
        /\ r = [height |-> height + 1, receipt |-> r.receipt, log |-> r.log]
  BY <1>1, RowsOfType
<1>4. height + 1 \in 1 .. MaxHeight /\ DOMAIN Pending \subseteq Nat
  BY <1>1 DEF XrcAssumption
<1>5. \A i \in Interfaces : \A r \in RowsOf(Pending, i, failing) : r \in Rows
  BY <1>3, <1>4 DEF Rows
<1> QED  BY <1>2, <1>3, <1>5 DEF HandleBlock, NewRows

-------------------------------------------------------------------------------
(* The steps. *)

LEMMA NewBlockStep ==
  ASSUME IInv, XrcAssumption, NEW block \in Blocks, NewBlock(block)
  PROVE  IInv'
<1>1. /\ chain \in Seq(Blocks) /\ Len(chain) = height /\ height < MaxHeight /\ height \in Nat
      /\ chain' = Append(chain, block)
      /\ UNCHANGED <<height, contract, nonContract, history, holders>>
  BY DEF IInv, TypeOK, NewBlock, verdicts, tables
<1>2. /\ chain' \in Seq(Blocks) /\ Len(chain') = height + 1 /\ height + 1 <= MaxHeight
      /\ \A h \in 1 .. height : chain'[h] = chain[h]
  BY <1>1 DEF XrcAssumption
<1>3. TypeOK'
  BY <1>1, <1>2 DEF IInv, TypeOK
<1>4. VerdictsRight' /\ RowsOfTokens' /\ RowsIndexed' /\ RowsHaveHolders'
  BY <1>1 DEF IInv, VerdictsRight, RowsOfTokens, RowsIndexed, RowsHaveHolders
<1>5. LaterReceiptsRecorded'
  BY <1>1, <1>2 DEF IInv, LaterReceiptsRecorded, KnownBefore, RowOf
<1>6. OddBlockStopsIndex'
  BY <1>1, <1>2 DEF IInv, OddBlockStopsIndex, KnownBefore, LogsOf
<1> QED  BY <1>1, <1>2, <1>3, <1>4, <1>5, <1>6 DEF IInv

LEMMA HandleBlockFailsStep ==
  ASSUME IInv, XrcAssumption, NEW failing, HandleBlockFails(failing)
  PROVE  IInv'
<1>1. height < Len(chain) /\ Judge(Pending, failing) /\ UNCHANGED <<chain, height, history, holders>>
  BY DEF HandleBlockFails, tables
<1>2. Pending \in Seq(Seq(Logs))
  BY <1>1, PendingBlock DEF IInv
<1>3. /\ contract' \in [Interfaces -> SUBSET Contracts]
      /\ nonContract' \in [Interfaces -> SUBSET Contracts]
      /\ \A i \in Interfaces : contract'[i] \cap nonContract'[i] = {}
      /\ \A i \in Interfaces : contract[i] \subseteq contract'[i]
      /\ VerdictsRight'
  BY <1>1, <1>2, Judged DEF IInv
<1>4. TypeOK'
  BY <1>1, <1>3 DEF IInv, TypeOK
<1>5. RowsOfTokens' /\ RowsIndexed' /\ RowsHaveHolders'
  BY <1>1, <1>3 DEF IInv, RowsOfTokens, RowsIndexed, RowsHaveHolders
<1>6. LaterReceiptsRecorded' /\ OddBlockStopsIndex'
  BY <1>1 DEF IInv, LaterReceiptsRecorded, OddBlockStopsIndex, KnownBefore, RowOf
<1> QED  BY <1>1, <1>3, <1>4, <1>5, <1>6 DEF IInv

LEMMA RestartStep ==
  ASSUME IInv, Restart
  PROVE  IInv'
<1>1. /\ \A i \in Interfaces : contract'[i] = initContract(i) /\ nonContract'[i] = {}
      /\ DOMAIN contract' = Interfaces /\ DOMAIN nonContract' = Interfaces
      /\ contract' = [i \in Interfaces |-> contract'[i]]
      /\ nonContract' = [i \in Interfaces |-> nonContract'[i]]
      /\ UNCHANGED <<chain, height, history, holders>>
  BY DEF Restart, tables
<1>2. \A i \in Interfaces : contract'[i] \subseteq contract[i]
  BY <1>1 DEF IInv, RowsOfTokens, initContract
<1>3. \A i \in Interfaces : contract'[i] \in SUBSET Contracts /\ nonContract'[i] \in SUBSET Contracts
  BY <1>1, <1>2 DEF IInv, TypeOK
<1>4. TypeOK'
  BY <1>1, <1>3 DEF IInv, TypeOK
<1>5. VerdictsRight' /\ RowsOfTokens'
  BY <1>1, <1>2 DEF IInv, VerdictsRight, RowsOfTokens, initContract, Reads
<1>6. RowsIndexed' /\ RowsHaveHolders' /\ LaterReceiptsRecorded' /\ OddBlockStopsIndex'
  BY <1>1 DEF IInv, RowsIndexed, RowsHaveHolders, LaterReceiptsRecorded, OddBlockStopsIndex,
              KnownBefore, RowOf
<1> QED  BY <1>1, <1>4, <1>5, <1>6 DEF IInv

LEMMA HandleBlockStep ==
  ASSUME IInv, XrcAssumption, NEW failing, HandleBlock(failing)
  PROVE  IInv'
<1>1. /\ height < Len(chain) /\ ~Refused(Pending, failing) /\ Judge(Pending, failing)
      /\ height' = height + 1 /\ UNCHANGED chain
  BY DEF HandleBlock
<1>2. Pending \in Seq(Seq(Logs)) /\ height \in Nat /\ Len(chain) = height + 1
  BY <1>1, PendingBlock DEF IInv
<1>3. /\ contract' \in [Interfaces -> SUBSET Contracts]
      /\ nonContract' \in [Interfaces -> SUBSET Contracts]
      /\ \A i \in Interfaces : contract'[i] \cap nonContract'[i] = {}
      /\ \A i \in Interfaces : contract[i] \subseteq contract'[i]
      /\ \A i \in Interfaces : \A l \in Recognised(Pending, i, failing) :
           l.contract \in contract'[i]
      /\ VerdictsRight'
  BY <1>1, <1>2, Judged DEF IInv
<1>4. /\ \A i \in Interfaces : history'[i] = history[i] \cup NewRows(i, failing)
      /\ \A i \in Interfaces : holders'[i] = holders[i] \cup HoldersOf(Pending, i, failing)
      /\ \A i \in Interfaces : \A r \in NewRows(i, failing) :
           /\ r \in RowsOf(Pending, i, failing)
           /\ r.height = height + 1
           /\ r.log \in Recognised(Pending, i, failing)
           /\ r \in Rows
  BY RowsAndHolders
<1>5. \A i \in Interfaces : \A r \in history[i] : r.height <= height /\ r.height \in Int
  BY DEF IInv, RowsIndexed, TypeOK, Rows
<1>6. TypeOK'
  <2>1. \A i \in Interfaces : HoldersOf(Pending, i, failing) \subseteq Contracts \X Addresses
    <3>1. \A i \in Interfaces : \A l \in LogsOf(Pending, i) : l \in Logs
      BY <1>2, LogsOfType
    <3> QED  BY <3>1 DEF HoldersOf, Recognised, Logs
  <2>2. \A i \in Interfaces : holders'[i] \subseteq Contracts \X Addresses
    BY <1>4, <2>1 DEF IInv, TypeOK
  <2>3. \A i \in Interfaces : history'[i] \subseteq Rows
    BY <1>4 DEF IInv, TypeOK
  <2>4. ASSUME NEW i \in Interfaces, NEW r \in history'[i], NEW t \in history'[i],
               r.height = t.height, r.receipt = t.receipt
        PROVE  r = t
    <3>1. CASE r \in history[i] /\ t \in history[i]
      BY <2>4, <3>1 DEF IInv, TypeOK
    <3>2. CASE r \in NewRows(i, failing) /\ t \in NewRows(i, failing)
      <4>1. r \in RowsOf(Pending, i, failing) /\ t \in RowsOf(Pending, i, failing)
        BY <1>4, <3>2
      <4> QED  BY <4>1, <2>4, RowsOfReceipt
    <3>3. ~ (r \in history[i] /\ t \in NewRows(i, failing))
      BY <1>2, <1>4, <1>5, <2>4
    <3>4. ~ (t \in history[i] /\ r \in NewRows(i, failing))
      BY <1>2, <1>4, <1>5, <2>4
    <3> QED  BY <1>4, <3>1, <3>2, <3>3, <3>4
  <2>5. height' \in {Len(chain'), Len(chain') - 1} /\ height' \in 0 .. MaxHeight
    BY <1>1, <1>2 DEF IInv, XrcAssumption
  <2>6. chain' \in Seq(Blocks)
    BY <1>1 DEF IInv, TypeOK
  <2> QED  BY <1>3, <2>2, <2>3, <2>4, <2>5, <2>6 DEF TypeOK
<1>7. RowsOfTokens'
  BY <1>3, <1>4 DEF IInv, RowsOfTokens
<1>8. RowsIndexed'
  BY <1>1, <1>2, <1>4, <1>5 DEF RowsIndexed
<1>9. RowsHaveHolders'
  <2>1. \A i \in Interfaces : \A l \in Recognised(Pending, i, failing) :
          Parses(l) => /\ <<l.contract, l.from>> \in HoldersOf(Pending, i, failing)
                       /\ <<l.contract, l.to>> \in HoldersOf(Pending, i, failing)
    BY DEF HoldersOf
  <2> QED  BY <1>4, <2>1 DEF IInv, RowsHaveHolders, Parses
<1>10. \A i \in Interfaces, h \in 1 .. height + 1 :
         KnownBefore(i, h)' = KnownBefore(i, h)
  <2>1. ASSUME NEW i \in Interfaces, NEW h \in 1 .. height + 1
        PROVE  {r \in history'[i] : r.height < h} = {r \in history[i] : r.height < h}
    <3>1. \A r \in NewRows(i, failing) : ~ (r.height < h)
      BY <1>2, <1>4, <2>1
    <3> QED  BY <1>4, <3>1
  <2> QED  BY <2>1 DEF KnownBefore
<1>11. LaterReceiptsRecorded'
  <2> SUFFICES ASSUME NEW i \in Interfaces, NEW h \in 1 .. height + 1, NEW k \in DOMAIN chain[h],
                      NEW l \in Range(chain[h][k]), InterfaceOf(l) = i,
                      l.contract \in KnownBefore(i, h)
               PROVE  \E r \in history'[i] : r.height = h /\ r.receipt = k
    BY <1>1, <1>10 DEF LaterReceiptsRecorded, RowOf
  <2>1. CASE h \in 1 .. height
    BY <2>1, <1>4 DEF IInv, LaterReceiptsRecorded, RowOf
  <2>2. CASE h = height + 1
    <3>1. k \in DOMAIN Pending /\ l \in Range(Pending[k])
      BY <2>2 DEF Pending
    <3>2. l \in LogsOf(Pending, i)
      BY <3>1, LogsOfReceipt
    <3>3. l \in Recognised(Pending, i, failing)
      BY <3>2, KnownRecognised DEF IInv
    <3>4. \E r \in RowsOf(Pending, i, failing) : r.height = height + 1 /\ r.receipt = k
      BY <3>1, <3>3, RowsOfRecognised
    <3>5. ASSUME i = "xrc721"
          PROVE  HoldersOf(Pending, i, failing) # {}
      <4>1. Parses(l)
        BY <3>5 DEF InterfaceOf, Parses
      <4>2. <<l.contract, l.from>> \in HoldersOf(Pending, i, failing)
        BY <3>3, <4>1 DEF HoldersOf
      <4> QED  BY <4>2
    <3> QED  BY <2>2, <3>4, <3>5, <1>4 DEF NewRows
  <2> QED  BY <1>2, <2>1, <2>2
<1>12. OddBlockStopsIndex'
  <2> SUFFICES ASSUME NEW h \in 1 .. height + 1, NEW l \in LogsOf(chain[h], "xrc20"),
                      l.contract \in KnownBefore("xrc20", h)
               PROVE  \E m \in LogsOf(chain[h], "xrc20") : Parses(m)
    BY <1>1, <1>10 DEF OddBlockStopsIndex, Interfaces
  <2>1. CASE h \in 1 .. height
    BY <2>1 DEF IInv, OddBlockStopsIndex
  <2>2. CASE h = height + 1
    <3>1. l \in Recognised(Pending, "xrc20", failing)
      BY <2>2, KnownRecognised DEF IInv, Interfaces, Pending
    <3>2. PICK k \in DOMAIN Pending : l \in Range(Pending[k])
      BY <2>2 DEF LogsOf, Range, Pending
    <3>3. RowsOf(Pending, "xrc20", failing) # {}
      BY <3>1, <3>2, RowsOfRecognised
    <3>4. HoldersOf(Pending, "xrc20", failing) # {}
      BY <1>1, <3>3 DEF Refused
    <3>5. \E m \in Recognised(Pending, "xrc20", failing) : Parses(m)
      BY <3>4 DEF HoldersOf
    <3> QED  BY <2>2, <3>5 DEF Recognised, Pending
  <2> QED  BY <1>2, <2>1, <2>2
<1>13. Len(chain') <= MaxHeight
  BY <1>1 DEF IInv
<1> QED  BY <1>3, <1>6, <1>7, <1>8, <1>9, <1>11, <1>12, <1>13 DEF IInv

-------------------------------------------------------------------------------
LEMMA InitInvariant ==
  ASSUME Init, XrcAssumption
  PROVE  IInv
BY DEF Init, XrcAssumption, IInv, TypeOK, VerdictsRight, RowsOfTokens, RowsIndexed,
       RowsHaveHolders, LaterReceiptsRecorded, OddBlockStopsIndex

(* The invariant holds of the tables and the verdicts, whatever calls      *)
(* fail and whenever blocks are rolled back or the process starts again.   *)
THEOREM XrcInvariant == Spec => []IInv
<1>1. Init => IInv
  BY InitInvariant, XrcAssumption
<1>2. IInv /\ [Next]_vars => IInv'
  <2> SUFFICES ASSUME IInv, [Next]_vars PROVE IInv'
    OBVIOUS
  <2>1. CASE \E block \in Blocks : NewBlock(block)
    BY <2>1, NewBlockStep, XrcAssumption
  <2>2. CASE \E failing \in SUBSET Calls(Pending) :
               HandleBlock(failing) \/ HandleBlockFails(failing)
    BY <2>2, HandleBlockStep, HandleBlockFailsStep, XrcAssumption
  <2>3. CASE Restart
    BY <2>3, RestartStep
  <2>4. CASE UNCHANGED vars
    <3>1. UNCHANGED <<chain, height, contract, nonContract, history, holders>>
      BY <2>4 DEF vars, verdicts, tables
    <3> QED  BY <3>1 DEF IInv, TypeOK, VerdictsRight, RowsOfTokens, RowsIndexed,
                         RowsHaveHolders, LaterReceiptsRecorded, OddBlockStopsIndex,
                         KnownBefore, RowOf
  <2> QED  BY <2>1, <2>2, <2>3, <2>4 DEF Next
<1> QED  BY <1>1, <1>2, PTL DEF Spec

(* checkIsXrc20 is asked again after every restart, and a call may fail    *)
(* then; but initContract has already found the contract among the rows.   *)
THEOREM LaterReceiptsAreRecorded == Spec => []LaterReceiptsRecorded
<1>1. IInv => LaterReceiptsRecorded
  BY DEF IInv
<1> QED  BY <1>1, XrcInvariant, PTL

(* updateXrc20History fails on the INSERT without values, every time.      *)
THEOREM OddBlocksStopTheIndex == Spec => []OddBlockStopsIndex
<1>1. IInv => OddBlockStopsIndex
  BY DEF IInv
<1> QED  BY <1>1, XrcInvariant, PTL

(* Rows are of contracts that have answered all the calls that             *)
(* checkIsXrc20 or checkIsXrc721 makes.                                    *)
THEOREM OnlyTokensAreIndexed == Spec => []OnlyTokensIndexed
<1>1. IInv => OnlyTokensIndexed
  <2>1. Reads("xrc20") = {"totalSupply", "balanceOf", "approve"} \cup {"allowance"}
    BY DEF Reads
  <2>2. Reads("xrc721") = {"totalSupply", "balanceOf", "approve"} \cup {"ownerOf"}
    BY DEF Reads
  <2>3. IInv => \A i \in Interfaces : \A r \in history[i] : Reads(i) \subseteq Implements[r.log.contract]
    BY DEF IInv, VerdictsRight, RowsOfTokens
  <2> QED  BY <2>1, <2>2, <2>3 DEF OnlyTokensIndexed, Interfaces
<1> QED  BY <1>1, XrcInvariant, PTL

(* The queries over the histories and the one for holders read different   *)
(* tables; what the former answer, the latter does not miss.               *)
THEOREM HoldersAreOfHistory == Spec => []HoldersOfHistory
<1>1. IInv => HoldersOfHistory
  <2> SUFFICES ASSUME IInv PROVE HoldersOfHistory
    OBVIOUS
  <2>1. \A i \in Interfaces : \A r \in history[i] :
          Parses(r.log) => {r.log.from, r.log.to} \subseteq getXrcHolders(i, r.log.contract)
    <3>1. ASSUME NEW i \in Interfaces, NEW c, NEW a, <<c, a>> \in holders[i]
          PROVE  a \in getXrcHolders(i, c)
      <4>1. <<c, a>> \in {q \in holders[i] : q[1] = c} /\ a = <<c, a>>[2]
        BY <3>1
      <4> HIDE <3>1
      <4> QED  BY <4>1 DEF getXrcHolders
    <3> QED  BY <3>1 DEF IInv, RowsHaveHolders
  <2>2. ASSUME NEW i \in Interfaces, NEW c \in Contracts, Answers(getXrc(i, c)),
               NEW r \in getXrc(i, c)
        PROVE  {r.log.from, r.log.to} \subseteq getXrcHolders(i, c)
    BY <2>1, <2>2 DEF getXrc, Answers
  <2>3. ASSUME NEW i \in Interfaces, Answers(getXrcByPage(i)), NEW r \in getXrcByPage(i)
        PROVE  {r.log.from, r.log.to} \subseteq getXrcHolders(i, r.log.contract)
    BY <2>1, <2>3 DEF getXrcByPage, Answers
  <2>4. ASSUME NEW i \in Interfaces, NEW a \in Addresses, Answers(getXrcByAddress(i, a)),
               NEW r \in getXrcByAddress(i, a)
        PROVE  a \in getXrcHolders(i, r.log.contract)
    BY <2>1, <2>4 DEF getXrcByAddress, Answers
  <2>5. ASSUME NEW c \in Contracts, NEW a \in Addresses,
               Answers(GetXrc20ByContractAndAddress(c, a))
        PROVE  a \in getXrcHolders("xrc20", c)
    <3>1. PICK r \in GetXrc20ByContractAndAddress(c, a) : Parses(r.log)
      BY <2>5 DEF Answers
    <3>2. /\ r \in history["xrc20"] /\ a \in {r.log.from, r.log.to} /\ r.log.contract = c
      BY DEF GetXrc20ByContractAndAddress, getXrcByAddress
    <3> QED  BY <2>1, <3>1, <3>2 DEF Interfaces
  <2> QED  BY <2>2, <2>3, <2>4, <2>5 DEF HoldersOfHistory
<1> QED  BY <1>1, XrcInvariant, PTL

===============================================================================
