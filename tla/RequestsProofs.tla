----------------------------- MODULE RequestsProofs -----------------------------
(***************************************************************************)
(* What is answered to requests, proved for every chain and every set of   *)
(* documents that do not ask for xrc721.                                   *)
(*                                                                         *)
(* Four invariants, each needing the one before it:                        *)
(*   TInv   what the tables owe to the blocks up to there: a row for each  *)
(*          transfer, an income for each party of each epoch that is over, *)
(*          a Hermes row for each action that has distributed;             *)
(*   AInv   what else they owe: the rows that lists are read from, in the  *)
(*          order of the chain, which later blocks only add to;            *)
(*   RequestFits  what is true of a request at any time: what is waited    *)
(*          for, what has been written, and the blocks it tells of;        *)
(*   RInv   that, and of the pages a client has turned, that each begins   *)
(*          where the one before it ended.                                 *)
(* Incomes and payments follow from TInv, answers and pages from AInv and  *)
(* RInv together.  That arguments are read as they are meant is a matter   *)
(* of the schema and of what the validator has looked at.                  *)
(***************************************************************************)
EXTENDS Requests, ArithmeticProofs, SequenceTheorems

-------------------------------------------------------------------------------
(* Sequences that grow: the blocks, and the tables after each of them.     *)
IsSequence(s) == s \in Seq(Range(s))

LEMMA AppendFacts ==
  ASSUME NEW s, IsSequence(s), NEW x, NEW new, new = Append(s, x)
  PROVE  /\ Len(s) \in Nat
         /\ IsSequence(new) /\ Len(new) = Len(s) + 1
         /\ DOMAIN s = 1 .. Len(s) /\ DOMAIN new = 1 .. Len(s) + 1
         /\ \A i \in 1 .. Len(s) : new[i] = s[i]
         /\ new[Len(s) + 1] = x
<1> DEFINE Values == Range(s) \cup {x}
<1>1. s \in Seq(Values)
  <2>1. Range(s) \subseteq Values
    OBVIOUS
  <2> HIDE DEF Values
  <2> QED  BY <2>1, SeqMonotonic DEF IsSequence
<1>2. x \in Values
  OBVIOUS
<1>3. /\ new \in Seq(Values) /\ Len(new) = Len(s) + 1 /\ Len(s) \in Nat
      /\ \A i \in 1 .. Len(s) : new[i] = s[i]
      /\ new[Len(s) + 1] = x
  <2> HIDE DEF Values
  <2> QED  BY <1>1, <1>2, AppendProperties, LenProperties
<1>4. DOMAIN s = 1 .. Len(s) /\ DOMAIN new = 1 .. Len(s) + 1
  <2> HIDE DEF Values
  <2> QED  BY <1>1, <1>3, LenProperties
<1>5. Range(new) = Values
  BY <1>3, <1>4 DEF Range
<1>6. IsSequence(new)
  BY <1>3, <1>5 DEF IsSequence
<1> QED  BY <1>3, <1>4, <1>6

-------------------------------------------------------------------------------
(* What the tables owe to the blocks.                                      *)

(* The transfers of the blocks 1 .. v whose log could be read.             *)
Moves(v) == UNION {{<<i, x>> : x \in blocks[i].log} : i \in {j \in 1 .. v : blocks[j].readable}}

MoveRow(p) ==
  [epoch |-> GetEpochNumber(p[1]), height |-> p[1], hash |-> <<p[1], p[2].act>>,
   type |-> p[2].type, from |-> p[2].from, to |-> p[2].to, amount |-> p[2].amount]

GenesisRows == InitBalances(Genesis).balance_history

(* What somebody received and spent in an epoch, of the transfers M.       *)
MovedTo(M, k, a) == AmountOf({p \in M : GetEpochNumber(p[1]) = k /\ p[2].to = a})
MovedFrom(M, k, a) == AmountOf({p \in M : GetEpochNumber(p[1]) = k /\ p[2].from = a})

(* Who took part in the transfers of an epoch.                             *)
Parties(M, k) == UNION {{p[2].to, p[2].from} : p \in {q \in M : GetEpochNumber(q[1]) = k}}

IncomeRow(M, k, a) == [epoch |-> k, address |-> a, income |-> MovedTo(M, k, a) - MovedFrom(M, k, a)]

IncomeRows(M, k) == {IncomeRow(M, k, a) : a \in Parties(M, k)}

DistributeRow(p) ==
  [hash |-> <<p[1], p[2]>>, epoch |-> GetEpochNumber(p[1]), height |-> p[1], delegate |-> Last(p[2].distributes)]

Distributing(v) == {p \in ChainActions(v) : p[2].to = Hermes /\ p[2].ok /\ p[2].distributes # <<>>}

BalancesTell(v) == T(v).balance_history = GenesisRows \cup {MoveRow(p) : p \in Moves(v)}

IncomesTell(v) ==
  T(v).account_income = UNION {IncomeRows(Moves(v), k) : k \in 1 .. GetEpochNumber(v) - 1}

HermesTells(v) == T(v).hermes_contract = {DistributeRow(p) : p \in Distributing(v)}

ChainFormed ==
  /\ height \in 0 .. MaxHeight
  /\ IsSequence(blocks) /\ Len(blocks) = height
  /\ IsSequence(tables) /\ Len(tables) = height + 1
  /\ \A i \in 1 .. height : blocks[i] \in Candidates[i]

TablesTell == \A v \in 0 .. height : BalancesTell(v) /\ IncomesTell(v) /\ HermesTells(v)

TInv == ChainFormed /\ TablesTell

(* What the assumption says of the blocks indexed.                         *)
LEMMA BlockFacts ==
  ASSUME ChainFormed, NEW i \in 1 .. height
  PROVE  /\ i \in Nat \ {0} /\ i <= MaxHeight
         /\ blocks[i].height = i
         /\ IsFiniteSet(blocks[i].actions) /\ IsFiniteSet(blocks[i].log)
         /\ \A x \in blocks[i].log :
              /\ x.amount \in Nat
              /\ x = [act |-> x.act, type |-> x.type, from |-> x.from, to |-> x.to, amount |-> x.amount]
<1>1. height \in Nat /\ height <= MaxHeight /\ MaxHeight \in Nat
  BY ViewsAssumption DEF ChainFormed
<1>2. i \in 1 .. MaxHeight
  BY <1>1
<1>3. blocks[i] \in Candidates[i]
  BY DEF ChainFormed
<1> QED  BY <1>1, <1>2, <1>3, RequestsAssumption

(* Transfers are finitely many, and a row tells which it is of.            *)
LEMMA MovesFinite ==
  ASSUME ChainFormed, NEW v \in 0 .. height
  PROVE  /\ IsFiniteSet(Moves(v))
         /\ \A p \in Moves(v) : /\ p[1] \in 1 .. v /\ p[2] \in blocks[p[1]].log /\ p = <<p[1], p[2]>>
                                /\ p[2].amount \in Nat
         /\ \A p, q \in Moves(v) : MoveRow(p) = MoveRow(q) => p = q
<1> DEFINE I == {j \in 1 .. v : blocks[j].readable}
           Of(i) == {<<i, x>> : x \in blocks[i].log}
<1>0. v \in Nat /\ height \in Nat /\ v <= height
  BY DEF ChainFormed
<1>1. IsFiniteSet(I)
  <2>1. IsFiniteSet(1 .. v) /\ I \subseteq 1 .. v
    BY <1>0, FS_Interval
  <2> HIDE DEF I
  <2> QED  BY <2>1, FS_Subset
<1>2. ASSUME NEW i \in I  PROVE IsFiniteSet(Of(i))
  <2>1. IsFiniteSet(blocks[i].log)
    BY <1>0, BlockFacts
  <2> DEFINE f == [x \in blocks[i].log |-> <<i, x>>]
  <2>2. f \in Surjection(blocks[i].log, Of(i))
    BY DEF Surjection
  <2> QED  BY <2>1, <2>2, FS_Surjection
<1>3. IsFiniteSet({Of(i) : i \in I})
  <2> DEFINE f == [i \in I |-> Of(i)]
  <2>1. f \in Surjection(I, {Of(i) : i \in I})
    BY DEF Surjection
  <2> QED  BY <1>1, <2>1, FS_Surjection
<1>4. IsFiniteSet(UNION {Of(i) : i \in I})
  <2>1. \A X \in {Of(i) : i \in I} : IsFiniteSet(X)
    BY <1>2
  <2> HIDE DEF I, Of
  <2> QED  BY <1>3, <2>1, FS_UNION
<1>5. Moves(v) = UNION {Of(i) : i \in I}
  BY DEF Moves
<1>6. ASSUME NEW p \in Moves(v)
      PROVE  /\ p[1] \in 1 .. v /\ p[2] \in blocks[p[1]].log /\ p = <<p[1], p[2]>>
             /\ p[2].amount \in Nat
             /\ p[2] = [act |-> p[2].act, type |-> p[2].type, from |-> p[2].from,
                        to |-> p[2].to, amount |-> p[2].amount]
  <2>1. PICK i \in 1 .. v : \E x \in blocks[i].log : p = <<i, x>>
    BY DEF Moves
  <2>2. PICK x \in blocks[i].log : p = <<i, x>>
    BY <2>1
  <2>3. i \in 1 .. height
    BY <1>0
  <2>4. p[1] = i /\ p[2] = x
    BY <2>2
  <2> QED  BY <2>2, <2>3, <2>4, BlockFacts
<1>7. ASSUME NEW p \in Moves(v), NEW q \in Moves(v), MoveRow(p) = MoveRow(q)  PROVE p = q
  <2>1. /\ MoveRow(p).height = p[1] /\ MoveRow(p).hash = <<p[1], p[2].act>> /\ MoveRow(p).type = p[2].type
        /\ MoveRow(p).from = p[2].from /\ MoveRow(p).to = p[2].to /\ MoveRow(p).amount = p[2].amount
    BY DEF MoveRow
  <2>2. /\ MoveRow(q).height = q[1] /\ MoveRow(q).hash = <<q[1], q[2].act>> /\ MoveRow(q).type = q[2].type
        /\ MoveRow(q).from = q[2].from /\ MoveRow(q).to = q[2].to /\ MoveRow(q).amount = q[2].amount
    BY DEF MoveRow
  <2>3. p[1] = q[1] /\ p[2].act = q[2].act /\ p[2].type = q[2].type
        /\ p[2].from = q[2].from /\ p[2].to = q[2].to /\ p[2].amount = q[2].amount
    BY <1>7, <2>1, <2>2
  <2>4. p[2] = q[2]
    BY <1>6, <2>3
  <2> QED  BY <1>6, <2>3, <2>4
<1> QED  BY <1>4, <1>5, <1>6, <1>7

LEMMA GenesisIsEpochZero == \A x \in GenesisRows : x.epoch = 0 /\ x.from = Nobody
BY DEF GenesisRows, InitBalances, EmptyTables

(* A total of rows is that of the transfers they are of.                   *)
LEMMA TotalOfRows ==
  ASSUME ChainFormed, NEW v \in 0 .. height, NEW M, M \subseteq Moves(v)
  PROVE  /\ IsFiniteSet(M)
         /\ Total({MoveRow(p) : p \in M}) = AmountOf(M)
         /\ AmountOf(M) \in Nat
<1> DEFINE rows == {MoveRow(p) : p \in M}
           r == [p \in M |-> MoveRow(p)]
           f == [p \in M |-> p[2].amount]
           g == [x \in rows |-> x.amount]
<1>1. IsFiniteSet(M)
  BY MovesFinite, FS_Subset
<1>2. \A p \in M : f[p] \in Nat
  BY MovesFinite
<1>3. Renames(g, rows, f, M, r)
  <2>1. rows = {r[p] : p \in M}
    OBVIOUS
  <2>2. \A p, q \in M : r[p] = r[q] => p = q
    BY MovesFinite
  <2>3. \A p \in M : f[p] \in Int /\ g[r[p]] = f[p]
    <3> SUFFICES ASSUME NEW p \in M  PROVE f[p] \in Int /\ g[r[p]] = f[p]
      OBVIOUS
    <3>1. r[p] = MoveRow(p) /\ MoveRow(p) \in rows /\ f[p] = p[2].amount
      OBVIOUS
    <3>2. MoveRow(p).amount = p[2].amount
      BY DEF MoveRow
    <3>3. g[MoveRow(p)] = MoveRow(p).amount
      BY <3>1
    <3>4. f[p] \in Int
      BY <1>2
    <3> HIDE DEF rows, r, f, g
    <3> QED  BY <3>1, <3>2, <3>3, <3>4
  <2> HIDE DEF rows, r, f, g
  <2> QED  BY <2>1, <2>2, <2>3 DEF Renames
<1>4. SumFunctionOnSet(g, rows) = SumFunctionOnSet(f, M) /\ SumFunctionOnSet(f, M) \in Nat
  <2> HIDE DEF rows, r, f, g
  <2> QED  BY <1>1, <1>2, <1>3, SumRenamed, SumOfNats
<1>5. DOMAIN g = rows /\ DOMAIN f = M
  OBVIOUS
<1>6. Total(rows) = SumFunctionOnSet(g, rows) /\ AmountOf(M) = SumFunctionOnSet(f, M)
  BY <1>5 DEF Total, AmountOf, SumFunction
<1> QED  BY <1>1, <1>4, <1>6

(* What rebuildAccountIncomeTable reads of an epoch.                       *)
LEMMA FlowsAgree ==
  ASSUME ChainFormed, NEW v \in 0 .. height, BalancesTell(v), NEW k \in Nat \ {0}
  PROVE  /\ \A a : Inflow(T(v), k, a) = MovedTo(Moves(v), k, a) /\ Outflow(T(v), k, a) = MovedFrom(Moves(v), k, a)
         /\ Received(T(v), k) \cup Spent(T(v), k) = Parties(Moves(v), k)
<1> DEFINE M == Moves(v)
           rows == T(v).balance_history
<1>1. rows = GenesisRows \cup {MoveRow(p) : p \in M}
  BY DEF BalancesTell
<1>2. \A x \in GenesisRows : x.epoch # k
  BY GenesisIsEpochZero
<1>3. \A p : /\ MoveRow(p).epoch = GetEpochNumber(p[1]) /\ MoveRow(p).to = p[2].to
             /\ MoveRow(p).from = p[2].from
  BY DEF MoveRow
<1>4. ASSUME NEW a  PROVE Inflow(T(v), k, a) = MovedTo(M, k, a)
  <2> DEFINE N == {p \in M : GetEpochNumber(p[1]) = k /\ p[2].to = a}
  <2>1. {x \in rows : x.epoch = k /\ x.to = a} = {MoveRow(p) : p \in N}
    <3> HIDE DEF rows, M
    <3> QED  BY <1>1, <1>2, <1>3
  <2>2. N \subseteq Moves(v)
    OBVIOUS
  <2> HIDE DEF N
  <2>3. Total({MoveRow(p) : p \in N}) = AmountOf(N)
    BY <2>2, TotalOfRows
  <2> QED  BY <2>1, <2>3 DEF Inflow, MovedTo, N
<1>5. ASSUME NEW a  PROVE Outflow(T(v), k, a) = MovedFrom(M, k, a)
  <2> DEFINE N == {p \in M : GetEpochNumber(p[1]) = k /\ p[2].from = a}
  <2>1. {x \in rows : x.epoch = k /\ x.from = a} = {MoveRow(p) : p \in N}
    <3> HIDE DEF rows, M
    <3> QED  BY <1>1, <1>2, <1>3
  <2>2. N \subseteq Moves(v)
    OBVIOUS
  <2> HIDE DEF N
  <2>3. Total({MoveRow(p) : p \in N}) = AmountOf(N)
    BY <2>2, TotalOfRows
  <2> QED  BY <2>1, <2>3 DEF Outflow, MovedFrom, N
<1>6. Received(T(v), k) \cup Spent(T(v), k) = Parties(M, k)
  <2>1. Received(T(v), k) = {p[2].to : p \in {q \in M : GetEpochNumber(q[1]) = k}}
    <3>1. {y \in rows : y.epoch = k} = {MoveRow(p) : p \in {q \in M : GetEpochNumber(q[1]) = k}}
      <4> HIDE DEF rows, M
      <4> QED  BY <1>1, <1>2, <1>3
    <3> HIDE DEF M
    <3> QED  BY <1>3, <3>1 DEF Received
  <2>2. Spent(T(v), k) = {p[2].from : p \in {q \in M : GetEpochNumber(q[1]) = k}}
    <3>1. {y \in rows : y.epoch = k} = {MoveRow(p) : p \in {q \in M : GetEpochNumber(q[1]) = k}}
      <4> HIDE DEF rows, M
      <4> QED  BY <1>1, <1>2, <1>3
    <3> HIDE DEF M
    <3> QED  BY <1>3, <3>1 DEF Spent
  <2> QED  BY <2>1, <2>2 DEF Parties
<1> QED  BY <1>4, <1>5, <1>6

-------------------------------------------------------------------------------
(* A block is put.                                                         *)

(* What a step that puts block b leaves, and what it adds.                 *)
Puts(b) ==
  /\ height < MaxHeight /\ height' = height + 1
  /\ b \in Candidates[height + 1]
  /\ blocks' = Append(blocks, b)
  /\ tables' = Append(tables, HandleBlock(T(height), b, Buckets[GetEpochNumber(b.height)]))

LEMMA PutBlockPuts == PutBlock => \E b : Puts(b)
BY DEF PutBlock, CommitBlock, Puts

LEMMA PutFacts ==
  ASSUME ChainFormed, NEW b, Puts(b), NEW n, n = height + 1
  PROVE  /\ ChainFormed'
         /\ n \in Nat \ {0} /\ height = n - 1 /\ height' = n
         /\ \A i \in 1 .. height : blocks'[i] = blocks[i]
         /\ blocks'[n] = b /\ b.height = n
         /\ \A v \in 0 .. height : T(v)' = T(v)
         /\ T(n)' = HandleBlock(T(height), b, Buckets[GetEpochNumber(n)])
<1>1. height \in Nat /\ MaxHeight \in Nat /\ height <= MaxHeight
  BY ViewsAssumption DEF ChainFormed
<1>2. /\ IsSequence(blocks') /\ Len(blocks') = n
      /\ \A i \in 1 .. height : blocks'[i] = blocks[i]
      /\ blocks'[n] = b
  <2>1. IsSequence(blocks) /\ Len(blocks) = height /\ blocks' = Append(blocks, b)
    BY DEF ChainFormed, Puts
  <2>2. IsSequence(blocks') /\ Len(blocks') = Len(blocks) + 1
    BY <2>1, AppendFacts
  <2>3. \A i \in 1 .. Len(blocks) : blocks'[i] = blocks[i]
    BY <2>1, AppendFacts
  <2>4. blocks'[Len(blocks) + 1] = b
    BY <2>1, AppendFacts
  <2> QED  BY <2>1, <2>2, <2>3, <2>4
<1>3. /\ IsSequence(tables') /\ Len(tables') = n + 1
      /\ \A i \in 1 .. n : tables'[i] = tables[i]
      /\ tables'[n + 1] = HandleBlock(T(height), b, Buckets[GetEpochNumber(b.height)])
  <2> DEFINE t == HandleBlock(T(height), b, Buckets[GetEpochNumber(b.height)])
  <2>1. IsSequence(tables) /\ Len(tables) = n /\ tables' = Append(tables, t)
    BY DEF ChainFormed, Puts
  <2> HIDE DEF t
  <2>2. IsSequence(tables') /\ Len(tables') = Len(tables) + 1
    BY <2>1, AppendFacts
  <2>3. \A i \in 1 .. Len(tables) : tables'[i] = tables[i]
    BY <2>1, AppendFacts
  <2>4. tables'[Len(tables) + 1] = t
    BY <2>1, AppendFacts
  <2> QED  BY <2>1, <2>2, <2>3, <2>4 DEF t
<1>4. b.height = n
  <2>1. height + 1 \in 1 .. MaxHeight
    BY <1>1 DEF Puts
  <2> QED  BY <2>1, RequestsAssumption DEF Puts
<1>5. ASSUME NEW v \in 0 .. height  PROVE T(v)' = T(v)
  <2>1. v + 1 \in 1 .. n
    BY <1>1
  <2> QED  BY <1>3, <2>1 DEF T
<1>6. T(n)' = HandleBlock(T(height), b, Buckets[GetEpochNumber(n)])
  <2>1. T(n)' = tables'[n + 1]
    BY DEF T
  <2> QED  BY <1>3, <1>4, <2>1
<1>8. \A i \in 1 .. n : blocks'[i] \in Candidates[i]
  <2> SUFFICES ASSUME NEW i \in 1 .. n  PROVE blocks'[i] \in Candidates[i]
    OBVIOUS
  <2>1. CASE i = n
    BY <1>2, <2>1 DEF Puts
  <2>2. CASE i \in 1 .. height
    BY <1>2, <2>2 DEF ChainFormed
  <2> QED  BY <1>1, <2>1, <2>2
<1>9. ChainFormed'
  <2>1. height' = n /\ height' \in 0 .. MaxHeight
    BY <1>1 DEF Puts
  <2> QED  BY <1>2, <1>3, <1>8, <2>1 DEF ChainFormed
<1>10. height' = n /\ n \in Nat \ {0} /\ height = n - 1
  BY <1>1 DEF Puts
<1> QED  BY <1>2, <1>4, <1>5, <1>6, <1>9, <1>10

(* The rows of a balance history, of Hermes, and of incomes, are those of  *)
(* the blocks there were and of the new one.                               *)
LEMMA PutMoves ==
  ASSUME ChainFormed, NEW b, Puts(b), NEW n, n = height + 1
  PROVE  /\ \A v \in 0 .. height : Moves(v)' = Moves(v) /\ Distributing(v)' = Distributing(v)
         /\ Moves(n)' = Moves(height) \cup {<<n, x>> : x \in getTransactionLog(b)}
         /\ Distributing(n)' = Distributing(height) \cup {<<n, a>> : a \in Distributions(b)}
         /\ ChainActions(n)' = ChainActions(height) \cup {<<n, a>> : a \in b.actions}
         /\ \A v \in 0 .. height : ChainActions(v)' = ChainActions(v)
<1>1. /\ n \in Nat \ {0} /\ height = n - 1
      /\ \A i \in 1 .. height : blocks'[i] = blocks[i]
      /\ blocks'[n] = b
  BY PutFacts
<1>2. ASSUME NEW v \in 0 .. height
      PROVE  Moves(v)' = Moves(v) /\ ChainActions(v)' = ChainActions(v) /\ Distributing(v)' = Distributing(v)
  <2>1. \A i \in 1 .. v : blocks'[i] = blocks[i]
    BY <1>1
  <2>2. Moves(v)' = Moves(v)
    BY <2>1 DEF Moves
  <2>3. ChainActions(v)' = ChainActions(v)
    BY <2>1 DEF ChainActions
  <2> QED  BY <2>2, <2>3 DEF Distributing
<1>3. 1 .. n = (1 .. height) \cup {n}
  BY <1>1
<1>4. Moves(n)' = Moves(height) \cup {<<n, x>> : x \in getTransactionLog(b)}
  <2> DEFINE Of(s, i) == {<<i, x>> : x \in s[i].log}
             I(s, m) == {j \in 1 .. m : s[j].readable}
  <2>1. \A i \in 1 .. height : blocks'[i] = blocks[i]
    BY <1>1
  <2>2. I(blocks', n) = I(blocks, height) \cup (IF b.readable THEN {n} ELSE {})
    BY <1>1, <1>3
  <2>3. /\ Moves(n)' = UNION {Of(blocks', i) : i \in I(blocks', n)}
        /\ Moves(height) = UNION {Of(blocks, i) : i \in I(blocks, height)}
    BY DEF Moves
  <2>4. \A i \in I(blocks, height) : Of(blocks', i) = Of(blocks, i)
    BY <1>1
  <2>5. Of(blocks', n) = {<<n, x>> : x \in b.log}
    BY <1>1
  <2> HIDE DEF Of, I
  <2>6. UNION {Of(blocks', i) : i \in I(blocks', n)}
          = (UNION {Of(blocks, i) : i \in I(blocks, height)}) \cup (IF b.readable THEN Of(blocks', n) ELSE {})
    BY <2>2, <2>4
  <2> QED  BY <2>3, <2>5, <2>6 DEF getTransactionLog
<1>5. ChainActions(n)' = ChainActions(height) \cup {<<n, a>> : a \in b.actions}
  <2> DEFINE Of(s, i) == {<<i, x>> : x \in s[i].actions}
  <2>1. /\ ChainActions(n)' = UNION {Of(blocks', i) : i \in 1 .. n}
        /\ ChainActions(height) = UNION {Of(blocks, i) : i \in 1 .. height}
    BY DEF ChainActions
  <2>2. \A i \in 1 .. height : Of(blocks', i) = Of(blocks, i)
    BY <1>1
  <2>3. Of(blocks', n) = {<<n, x>> : x \in b.actions}
    BY <1>1
  <2> HIDE DEF Of
  <2>4. UNION {Of(blocks', i) : i \in 1 .. n} = (UNION {Of(blocks, i) : i \in 1 .. height}) \cup Of(blocks', n)
    BY <1>3, <2>2
  <2> QED  BY <2>1, <2>3, <2>4
<1>6. Distributing(n)' = Distributing(height) \cup {<<n, a>> : a \in Distributions(b)}
  <2> DEFINE Is(p) == p[2].to = Hermes /\ p[2].ok /\ p[2].distributes # <<>>
  <2>1. Distributing(n)' = {p \in ChainActions(n)' : Is(p)}
    BY DEF Distributing
  <2>2. Distributing(height) = {p \in ChainActions(height) : Is(p)}
    BY DEF Distributing
  <2>3. {p \in {<<n, a>> : a \in b.actions} : Is(p)} = {<<n, a>> : a \in Distributions(b)}
    BY DEF Distributions
  <2> HIDE DEF Is
  <2> QED  BY <1>5, <2>1, <2>2, <2>3
<1> QED  BY <1>2, <1>4, <1>5, <1>6

LEMMA IncomeRowsSame ==
  ASSUME NEW M, NEW N, NEW k,
         \A p : GetEpochNumber(p[1]) = k => (p \in M <=> p \in N)
  PROVE  IncomeRows(M, k) = IncomeRows(N, k)
<1>1. {q \in M : GetEpochNumber(q[1]) = k} = {q \in N : GetEpochNumber(q[1]) = k}
  OBVIOUS
<1>2. Parties(M, k) = Parties(N, k)
  BY <1>1 DEF Parties
<1>3. ASSUME NEW a  PROVE MovedTo(M, k, a) = MovedTo(N, k, a) /\ MovedFrom(M, k, a) = MovedFrom(N, k, a)
  <2>1. {p \in M : GetEpochNumber(p[1]) = k /\ p[2].to = a} = {p \in N : GetEpochNumber(p[1]) = k /\ p[2].to = a}
    OBVIOUS
  <2>2. {p \in M : GetEpochNumber(p[1]) = k /\ p[2].from = a} = {p \in N : GetEpochNumber(p[1]) = k /\ p[2].from = a}
    OBVIOUS
  <2> QED  BY <2>1, <2>2 DEF MovedTo, MovedFrom
<1>4. \A a : IncomeRow(M, k, a) = IncomeRow(N, k, a)
  BY <1>3 DEF IncomeRow
<1> QED  BY <1>2, <1>4 DEF IncomeRows

LEMMA RebuildGivesRows ==
  ASSUME ChainFormed, NEW v \in 0 .. height, BalancesTell(v), NEW k \in Nat \ {0}
  PROVE  rebuildAccountIncomeTable(T(v), k) = T(v).account_income \cup IncomeRows(Moves(v), k)
<1>1. /\ \A a : Inflow(T(v), k, a) = MovedTo(Moves(v), k, a) /\ Outflow(T(v), k, a) = MovedFrom(Moves(v), k, a)
      /\ Received(T(v), k) \cup Spent(T(v), k) = Parties(Moves(v), k)
  BY FlowsAgree
<1>2. {[epoch |-> k, address |-> a, income |-> Inflow(T(v), k, a) - Outflow(T(v), k, a)]
         : a \in Received(T(v), k) \cup Spent(T(v), k)} = IncomeRows(Moves(v), k)
  BY <1>1 DEF IncomeRows, IncomeRow
<1> QED  BY <1>2 DEF rebuildAccountIncomeTable

LEMMA PutTables ==
  ASSUME TInv, NEW b, Puts(b)
  PROVE  TInv'
<1> DEFINE n == height + 1
           e == GetEpochNumber(n)
           t == T(height)
           M == Moves(height)
           New == {<<n, x>> : x \in getTransactionLog(b)}
<1>0. ChainFormed /\ TablesTell
  BY DEF TInv
<1>1. PICK m : m = n
  OBVIOUS
<1>2. /\ ChainFormed'
      /\ n \in Nat \ {0} /\ height = n - 1 /\ height' = n
      /\ b.height = n
      /\ \A v \in 0 .. height : T(v)' = T(v)
      /\ T(m)' = HandleBlock(t, b, Buckets[e])
  BY <1>0, <1>1, PutFacts
<1>3. /\ \A v \in 0 .. height : Moves(v)' = Moves(v) /\ Distributing(v)' = Distributing(v)
      /\ Moves(m)' = M \cup New
      /\ Distributing(m)' = Distributing(height) \cup {<<n, a>> : a \in Distributions(b)}
  BY <1>0, <1>1, PutMoves
<1>4. height \in Nat /\ height \in 0 .. height /\ BalancesTell(height) /\ IncomesTell(height) /\ HermesTells(height)
  BY <1>0, <1>2 DEF TablesTell
<1>5. /\ T(m)'.balance_history = updateBalanceHistory(t, b)
      /\ T(m)'.hermes_contract = updateHermesContract(t, b)
      /\ T(m)'.account_income = IF IsEpochStart(n) THEN rebuildAccountIncomeTable(t, e - 1) ELSE t.account_income
  BY <1>2 DEF HandleBlock
<1>6. BalancesTell(m)'
  <2> DEFINE Row(x) == [epoch |-> GetEpochNumber(b.height), height |-> b.height, hash |-> Hash(b, x.act),
                        type |-> x.type, from |-> x.from, to |-> x.to, amount |-> x.amount]
  <2>1. \A x : Row(x) = MoveRow(<<n, x>>)
    BY <1>2 DEF MoveRow, Hash
  <2>2. updateBalanceHistory(t, b) = t.balance_history \cup {MoveRow(p) : p \in New}
    <3>0. updateBalanceHistory(t, b) = t.balance_history \cup {Row(x) : x \in getTransactionLog(b)}
      BY DEF updateBalanceHistory
    <3>1. updateBalanceHistory(t, b) = t.balance_history \cup {MoveRow(<<n, x>>) : x \in getTransactionLog(b)}
      <4> HIDE DEF t, n, Row
      <4> QED  BY <2>1, <3>0
    <3> QED  BY <3>1
  <2>3. t.balance_history = GenesisRows \cup {MoveRow(p) : p \in M}
    BY <1>4 DEF BalancesTell
  <2> HIDE DEF New, M, t
  <2>4. T(m)'.balance_history = GenesisRows \cup {MoveRow(p) : p \in Moves(m)'}
    BY <1>3, <1>5, <2>2, <2>3
  <2> QED  BY <2>4 DEF BalancesTell
<1>7. HermesTells(m)'
  <2>1. ASSUME NEW a
        PROVE  DistributeRow(<<n, a>>) = HermesRow(b, a, Last(a.distributes))
    BY <1>2 DEF DistributeRow, HermesRow, Hash
  <2>2. updateHermesContract(t, b)
          = t.hermes_contract \cup {DistributeRow(p) : p \in {<<n, a>> : a \in Distributions(b)}}
    <3>1. updateHermesContract(t, b) = t.hermes_contract \cup {DistributeRow(<<n, a>>) : a \in Distributions(b)}
      BY <2>1 DEF updateHermesContract
    <3> QED  BY <3>1
  <2>3. t.hermes_contract = {DistributeRow(p) : p \in Distributing(height)}
    BY <1>4 DEF HermesTells
  <2> HIDE DEF New, M, t
  <2>4. T(m)'.hermes_contract = {DistributeRow(p) : p \in Distributing(m)'}
    BY <1>3, <1>5, <2>2, <2>3
  <2> QED  BY <2>4 DEF HermesTells
<1>8. ASSUME NEW k, k # e  PROVE IncomeRows(M, k) = IncomeRows(Moves(m)', k)
  <2>1. \A p \in New : GetEpochNumber(p[1]) = e
    OBVIOUS
  <2>2. \A p : GetEpochNumber(p[1]) = k => (p \in M <=> p \in M \cup New)
    BY <1>8, <2>1
  <2> HIDE DEF M, New, e
  <2>3. IncomeRows(M, k) = IncomeRows(M \cup New, k)
    BY <2>2, IncomeRowsSame
  <2> QED  BY <1>3, <2>3
<1>9. IncomesTell(m)'
  <2> DEFINE Rows(N, j) == UNION {IncomeRows(N, k) : k \in 1 .. j}
  <2>1. t.account_income = Rows(M, GetEpochNumber(height) - 1)
    BY <1>4 DEF IncomesTell
  <2>2. e \in Nat \ {0}
    BY <1>2, HeightInEpoch, RequestsAssumption
  <2>3. Rows(Moves(m)', e - 1) = Rows(M, e - 1)
    <3>1. \A k \in 1 .. e - 1 : k # e
      BY <2>2
    <3>2. \A k \in 1 .. e - 1 : IncomeRows(M, k) = IncomeRows(Moves(m)', k)
      BY <1>8, <3>1
    <3> HIDE DEF M, e
    <3> QED  BY <3>2
  <2>4. T(m)'.account_income = Rows(M, e - 1)
    <3>1. CASE height = 0
      <4>1. n = 1 /\ e = 1 /\ IsEpochStart(n)
        BY <1>2, <3>1, FirstEpoch, RequestsAssumption
      <4>2. GetEpochNumber(height) = 0
        BY <3>1 DEF GetEpochNumber
      <4>3. Rows(M, GetEpochNumber(height) - 1) = {} /\ Rows(M, e - 1) = {}
        BY <4>1, <4>2
      <4>4. e - 1 = 0
        BY <4>1
      <4>5. rebuildAccountIncomeTable(t, e - 1) = t.account_income
        BY <4>4 DEF rebuildAccountIncomeTable
      <4> HIDE DEF t, M, e, n
      <4> QED  BY <1>5, <2>1, <4>1, <4>3, <4>5
    <3>2. CASE height # 0 /\ ~ IsEpochStart(n)
      <4>1. e = GetEpochNumber(height)
        BY <1>2, <1>4, <3>2, EpochStep, RequestsAssumption
      <4> HIDE DEF t, M, e, n
      <4> QED  BY <1>5, <2>1, <3>2, <4>1
    <3>3. CASE height # 0 /\ IsEpochStart(n)
      <4>1. GetEpochNumber(height) \in Nat \ {0} /\ height \in Nat \ {0}
        BY <1>4, <3>3, HeightInEpoch, RequestsAssumption
      <4>2. e = GetEpochNumber(height) + 1
        BY <1>2, <3>3, <4>1, EpochStep, RequestsAssumption
      <4>3. e - 1 = GetEpochNumber(height)
        BY <4>1, <4>2
      <4>4. rebuildAccountIncomeTable(t, e - 1) = t.account_income \cup IncomeRows(M, e - 1)
        BY <1>0, <1>4, <4>1, <4>3, RebuildGivesRows
      <4>5. 1 .. e - 1 = (1 .. GetEpochNumber(height) - 1) \cup {e - 1}
        BY <4>1, <4>3
      <4> HIDE DEF t, M, e, n
      <4>6. Rows(M, e - 1) = Rows(M, GetEpochNumber(height) - 1) \cup IncomeRows(M, e - 1)
        BY <4>5
      <4> HIDE DEF Rows
      <4> QED  BY <1>5, <2>1, <3>3, <4>4, <4>6
    <3> QED  BY <3>1, <3>2, <3>3
  <2>5. IncomesTell(m)' <=> T(m)'.account_income = Rows(Moves(m)', GetEpochNumber(m) - 1)
    BY DEF IncomesTell
  <2> HIDE DEF Rows
  <2> QED  BY <1>1, <2>3, <2>4, <2>5
<1>10. ASSUME NEW v \in 0 .. height  PROVE BalancesTell(v)' /\ IncomesTell(v)' /\ HermesTells(v)'
  <2>1. BalancesTell(v) /\ IncomesTell(v) /\ HermesTells(v)
    BY <1>0 DEF TablesTell
  <2>2. T(v)' = T(v) /\ Moves(v)' = Moves(v) /\ Distributing(v)' = Distributing(v)
    BY <1>2, <1>3
  <2> QED  BY <2>1, <2>2 DEF BalancesTell, IncomesTell, HermesTells
<1>11. 0 .. height' = (0 .. height) \cup {m}
  BY <1>1, <1>2, <1>4
<1>12. TablesTell'
  <2> SUFFICES ASSUME NEW v \in 0 .. height'  PROVE BalancesTell(v)' /\ IncomesTell(v)' /\ HermesTells(v)'
    BY DEF TablesTell
  <2> QED  BY <1>6, <1>7, <1>9, <1>10, <1>11
<1> QED  BY <1>2, <1>12 DEF TInv

-------------------------------------------------------------------------------
(* The tables tell of the chain, in every state.                           *)
LEMMA InitTables == Init => TInv
<1> SUFFICES ASSUME Init  PROVE TInv
  OBVIOUS
<1>1. height = 0 /\ blocks = <<>> /\ tables = <<InitBalances(Genesis)>>
  BY DEF Init, ViewsInit
<1>2. ChainFormed
  <2>1. IsSequence(<<>>) /\ Len(<<>>) = 0
    BY DEF IsSequence
  <2>2. ASSUME NEW x  PROVE IsSequence(<<x>>) /\ Len(<<x>>) = 1
    BY DEF IsSequence, Range
  <2> QED  BY <1>1, <2>1, <2>2, ViewsAssumption DEF ChainFormed
<1>3. T(0) = InitBalances(Genesis)
  BY <1>1 DEF T
<1>4. Moves(0) = {} /\ Distributing(0) = {}
  BY DEF Moves, Distributing, ChainActions
<1>5. GetEpochNumber(0) - 1 = -1
  BY DEF GetEpochNumber
<1>6. BalancesTell(0)
  BY <1>3, <1>4 DEF BalancesTell, GenesisRows
<1>7. IncomesTell(0)
  BY <1>3, <1>5 DEF IncomesTell, InitBalances, EmptyTables
<1>8. HermesTells(0)
  BY <1>3, <1>4 DEF HermesTells, InitBalances, EmptyTables
<1> QED  BY <1>1, <1>2, <1>6, <1>7, <1>8 DEF TInv, TablesTell

LEMMA SameTables == TInv /\ UNCHANGED <<height, blocks, tables>> => TInv'
<1> SUFFICES ASSUME TInv, UNCHANGED <<height, blocks, tables>>  PROVE TInv'
  OBVIOUS
<1>1. height' = height /\ blocks' = blocks /\ tables' = tables
  OBVIOUS
<1>2. ChainFormed'
  BY <1>1 DEF TInv, ChainFormed
<1>3. \A v : T(v)' = T(v) /\ Moves(v)' = Moves(v) /\ ChainActions(v)' = ChainActions(v)
  BY <1>1 DEF T, Moves, ChainActions
<1>4. \A v : Distributing(v)' = Distributing(v)
  BY <1>3 DEF Distributing
<1>5. TablesTell'
  BY <1>1, <1>3, <1>4 DEF TInv, TablesTell, BalancesTell, IncomesTell, HermesTells
<1> QED  BY <1>2, <1>5 DEF TInv

(* Requests do not change the index.                                       *)
LEMMA IndexSteps ==
  [Next]_vars => PutBlock \/ UNCHANGED <<height, blocks, tables>>
<1> SUFFICES ASSUME [Next]_vars, ~PutBlock  PROVE UNCHANGED <<height, blocks, tables>>
  OBVIOUS
<1>1. CASE ForgetView
  BY <1>1 DEF ForgetView, Forget
<1>2. ASSUME NEW doc \in Forms, Query(doc)  PROVE UNCHANGED <<height, blocks, tables>>
  BY <1>2 DEF Query, index
<1>3. ASSUME NEW a \in pending, Select(a) \/ FailSelect(a) \/ Return(a)
      PROVE  UNCHANGED <<height, blocks, tables>>
  BY <1>3 DEF Select, FailSelect, Return, index
<1>4. CASE NextPage
  BY <1>4 DEF NextPage, index
<1>5. CASE Leave
  BY <1>5 DEF Leave, index
<1>6. CASE UNCHANGED vars
  BY <1>6 DEF vars
<1> QED  BY <1>1, <1>2, <1>3, <1>4, <1>5, <1>6 DEF Next

THEOREM TablesInvariant == Spec => []TInv
<1>1. TInv /\ [Next]_vars => TInv'
  BY PutBlockPuts, PutTables, SameTables, IndexSteps
<1> QED  BY <1>1, InitTables, PTL DEF Spec

-------------------------------------------------------------------------------
(* Incomes.                                                                *)

(* At each pair <<epoch, party>> of K, h is what the transfers of M of that *)
(* epoch in which w names that party add up to, and S has just those whose  *)
(* pair is in K.                                                            *)
AddsByPair(h, M, K, S, w) ==
  /\ \A p \in M : p[2].amount \in Nat
  /\ \A p \in S : <<GetEpochNumber(p[1]), w[p]>> \in K
  /\ \A q \in K : q = <<q[1], q[2]>>
  /\ \A q \in K : \A p \in M : GetEpochNumber(p[1]) = q[1] /\ w[p] = q[2] => p \in S
  /\ \A q \in K : h[q] = AmountOf({p \in M : GetEpochNumber(p[1]) = q[1] /\ w[p] = q[2]})

(* Transfers of S add up to what they add up to for each epoch and address *)
(* of K, if w names one party of each.                                     *)
LEMMA SumOverPairs ==
  ASSUME NEW M, IsFiniteSet(M), NEW K, IsFiniteSet(K), NEW S, S \subseteq M, NEW h, NEW w,
         AddsByPair(h, M, K, S, w)
  PROVE  SumFunctionOnSet(h, K) = AmountOf(S) /\ \A q \in K : h[q] \in Nat
<1> DEFINE f == [p \in M |-> p[2].amount]
           g == [p \in M |-> <<GetEpochNumber(p[1]), w[p]>>]
           Of(q) == {p \in M : GetEpochNumber(p[1]) = q[1] /\ w[p] = q[2]}
<1>0. /\ \A p \in M : p[2].amount \in Nat
      /\ \A p \in S : <<GetEpochNumber(p[1]), w[p]>> \in K
      /\ \A q \in K : q = <<q[1], q[2]>>
      /\ \A q \in K : \A p \in M : GetEpochNumber(p[1]) = q[1] /\ w[p] = q[2] => p \in S
      /\ \A q \in K : h[q] = AmountOf({p \in M : GetEpochNumber(p[1]) = q[1] /\ w[p] = q[2]})
  BY DEF AddsByPair
<1>1. ASSUME NEW N, N \subseteq M
      PROVE  IsFiniteSet(N) /\ AmountOf(N) = SumFunctionOnSet(f, N) /\ AmountOf(N) \in Nat
  <2> DEFINE fN == [p \in N |-> p[2].amount]
  <2>1. IsFiniteSet(N)
    BY <1>1, FS_Subset
  <2>2. \A p \in N : fN[p] \in Nat /\ f[p] = fN[p] /\ fN[p] \in Int
    BY <1>0, <1>1
  <2>3. AmountOf(N) = SumFunctionOnSet(fN, N)
    BY DEF AmountOf, SumFunction
  <2> HIDE DEF fN, f
  <2>4. SumFunctionOnSet(fN, N) = SumFunctionOnSet(f, N) /\ SumFunctionOnSet(fN, N) \in Nat
    BY <2>1, <2>2, SumSame, SumOfNats
  <2> QED  BY <2>1, <2>3, <2>4
<1>2. ASSUME NEW q \in K
      PROVE  /\ h[q] = SumFunctionOnSet(f, {p \in S : g[p] = q})
             /\ h[q] \in Nat
  <2>1. Of(q) = {p \in S : g[p] = q}
    <3>1. q = <<q[1], q[2]>>
      BY <1>0
    <3>2. \A p \in M : g[p] = q <=> GetEpochNumber(p[1]) = q[1] /\ w[p] = q[2]
      <4> SUFFICES ASSUME NEW p \in M
                   PROVE  g[p] = q <=> GetEpochNumber(p[1]) = q[1] /\ w[p] = q[2]
        OBVIOUS
      <4>1. g[p] = <<GetEpochNumber(p[1]), w[p]>>
        OBVIOUS
      <4> HIDE DEF g
      <4> QED  BY <3>1, <4>1
    <3> HIDE DEF g
    <3> QED  BY <1>0, <3>2
  <2>2. h[q] = AmountOf(Of(q)) /\ Of(q) \subseteq M
    BY <1>0
  <2> HIDE DEF Of, f, g
  <2> QED  BY <1>1, <2>1, <2>2
<1>3. \A p \in S : f[p] \in Int /\ g[p] \in K
  BY <1>0
<1> HIDE DEF f, g
<1>4. SumFunctionOnSet(h, K) = SumFunctionOnSet(f, S)
  <2>1. IsFiniteSet(S)
    BY <1>1
  <2>2. SumsOfParts(h, f, g, S, K)
    BY <1>2, <1>3 DEF SumsOfParts
  <2> QED  BY <2>1, <2>2, SumOfParts
<1>5. AmountOf(S) = SumFunctionOnSet(f, S)
  BY <1>1
<1> QED  BY <1>2, <1>4, <1>5

(* The sum of the incomes, up to an epoch, of whoever is in A.             *)
LEMMA IncomesAddUp ==
  ASSUME TInv, NEW e \in 1 .. GetEpochNumber(height) - 1, NEW A
  PROVE  SumFunction([x \in {y \in T(height).account_income : y.address \in A /\ y.epoch <= e} |-> x.income]) =
           AmountOf({p \in MovedUpTo(e) : p[2].to \in A}) - AmountOf({p \in MovedUpTo(e) : p[2].from \in A})
<1> DEFINE M == Moves(height)
           K == {q \in (1 .. e) \X A : q[2] \in Parties(M, q[1])}
           To == {p \in MovedUpTo(e) : p[2].to \in A}
           From == {p \in MovedUpTo(e) : p[2].from \in A}
           rows == {y \in T(height).account_income : y.address \in A /\ y.epoch <= e}
           in == [q \in K |-> MovedTo(M, q[1], q[2])]
           out == [q \in K |-> MovedFrom(M, q[1], q[2])]
           gain == [q \in K |-> in[q] - out[q]]
           receiver == [p \in M |-> p[2].to]
           sender == [p \in M |-> p[2].from]
           r == [q \in K |-> IncomeRow(M, q[1], q[2])]
           g == [x \in rows |-> x.income]
<1>1. /\ ChainFormed /\ IncomesTell(height)
      /\ height \in Nat \ {0} /\ height \in 0 .. height
      /\ GetEpochNumber(height) \in Nat /\ e \in Nat /\ e <= GetEpochNumber(height) - 1
  <2>1. ChainFormed /\ height \in Nat
    BY DEF TInv, ChainFormed
  <2>2. CASE height = 0
    BY <2>2 DEF GetEpochNumber
  <2>3. CASE height # 0
    <3>1. GetEpochNumber(height) \in Nat
      BY <2>1, <2>3, HeightInEpoch, RequestsAssumption
    <3> QED  BY <2>1, <2>3, <3>1 DEF TInv, TablesTell
  <2> QED  BY <2>1, <2>2, <2>3
<1>2. IsFiniteSet(M) /\ \A p \in M : p[1] \in 1 .. height /\ p[2].amount \in Nat
  BY <1>1, MovesFinite
<1>3. MovedUpTo(e) = {p \in M : GetEpochNumber(p[1]) <= e}
  <2>1. M = UNION {{<<i, x>> : x \in blocks[i].log} : i \in {j \in 1 .. height : blocks[j].readable}}
    BY DEF Moves
  <2> HIDE DEF M
  <2> QED  BY <2>1 DEF MovedUpTo
<1>4. \A p \in M : GetEpochNumber(p[1]) \in Nat \ {0}
  <2>1. \A i \in 1 .. height : GetEpochNumber(i) \in Nat \ {0}
    BY <1>1, HeightInEpoch, RequestsAssumption
  <2> QED  BY <1>2, <2>1
<1>5. To \subseteq M /\ From \subseteq M /\ IsFiniteSet(To) /\ IsFiniteSet(From)
  <2>1. To \subseteq M /\ From \subseteq M
    BY <1>3
  <2> HIDE DEF To, From, M
  <2> QED  BY <1>2, <2>1, FS_Subset
<1>6. \A p \in M : /\ p[2].to \in Parties(M, GetEpochNumber(p[1]))
                   /\ p[2].from \in Parties(M, GetEpochNumber(p[1]))
  BY DEF Parties
<1>7. /\ \A p \in To : <<GetEpochNumber(p[1]), receiver[p]>> \in K
      /\ \A p \in From : <<GetEpochNumber(p[1]), sender[p]>> \in K
  <2> SUFFICES ASSUME NEW p \in M, GetEpochNumber(p[1]) <= e
               PROVE  /\ p[2].to \in A => <<GetEpochNumber(p[1]), p[2].to>> \in K
                      /\ p[2].from \in A => <<GetEpochNumber(p[1]), p[2].from>> \in K
    BY <1>3
  <2>1. GetEpochNumber(p[1]) \in 1 .. e
    BY <1>1, <1>4
  <2> HIDE DEF M
  <2> QED  BY <1>6, <2>1
<1>8. \A q \in K : q[1] \in 1 .. e /\ q[2] \in A /\ q[2] \in Parties(M, q[1]) /\ q = <<q[1], q[2]>>
  OBVIOUS
<1>9. IsFiniteSet(K)
  <2> DEFINE all == [i \in {"to", "from"} |->
                       [p \in M |-> <<GetEpochNumber(p[1]), IF i = "to" THEN p[2].to ELSE p[2].from>>]]
             R(i) == {all[i][p] : p \in M}
  <2>1. ASSUME NEW i \in {"to", "from"}  PROVE IsFiniteSet(R(i))
    <3>1. all[i] \in Surjection(M, R(i))
      BY DEF Surjection
    <3> HIDE DEF all, R, M
    <3> QED  BY <1>2, <3>1, FS_Surjection
  <2>2. IsFiniteSet(R("to") \cup R("from"))
    <3> HIDE DEF R
    <3> QED  BY <2>1, FS_Union
  <2>3. K \subseteq R("to") \cup R("from")
    <3> SUFFICES ASSUME NEW q \in K  PROVE q \in R("to") \cup R("from")
      OBVIOUS
    <3>1. PICK p \in M : GetEpochNumber(p[1]) = q[1] /\ q[2] \in {p[2].to, p[2].from}
      BY <1>8 DEF Parties
    <3>2. q = <<GetEpochNumber(p[1]), p[2].to>> \/ q = <<GetEpochNumber(p[1]), p[2].from>>
      BY <1>8, <3>1
    <3>3. all["to"][p] = <<GetEpochNumber(p[1]), p[2].to>> /\ all["from"][p] = <<GetEpochNumber(p[1]), p[2].from>>
      OBVIOUS
    <3> QED  BY <3>2, <3>3
  <2> HIDE DEF R, K
  <2> QED  BY <2>2, <2>3, FS_Subset
<1>10. SumFunctionOnSet(in, K) = AmountOf(To) /\ \A q \in K : in[q] \in Nat
  <2>1. \A q \in K : \A p \in M : GetEpochNumber(p[1]) = q[1] /\ receiver[p] = q[2] => p \in To
    <3> SUFFICES ASSUME NEW q \in K, NEW p \in M, GetEpochNumber(p[1]) = q[1], receiver[p] = q[2]
                 PROVE  p \in To
      OBVIOUS
    <3>1. GetEpochNumber(p[1]) <= e /\ p[2].to \in A
      BY <1>1, <1>8
    <3> HIDE DEF M
    <3> QED  BY <1>3, <3>1
  <2>2. \A q \in K : in[q] = AmountOf({p \in M : GetEpochNumber(p[1]) = q[1] /\ receiver[p] = q[2]})
    <3> SUFFICES ASSUME NEW q \in K
                 PROVE  in[q] = AmountOf({p \in M : GetEpochNumber(p[1]) = q[1] /\ receiver[p] = q[2]})
      OBVIOUS
    <3>1. {p \in M : GetEpochNumber(p[1]) = q[1] /\ receiver[p] = q[2]}
            = {p \in M : GetEpochNumber(p[1]) = q[1] /\ p[2].to = q[2]}
      OBVIOUS
    <3>2. in[q] = MovedTo(M, q[1], q[2])
      OBVIOUS
    <3> QED  BY <3>1, <3>2 DEF MovedTo
  <2>3. \A q \in K : q = <<q[1], q[2]>>
    BY <1>8
  <2>4. \A p \in M : p[2].amount \in Nat
    BY <1>2
  <2>5. \A p \in To : <<GetEpochNumber(p[1]), receiver[p]>> \in K
    BY <1>7
  <2>6. IsFiniteSet(M) /\ IsFiniteSet(K) /\ To \subseteq M
    BY <1>2, <1>5, <1>9
  <2> HIDE DEF in, K, To, receiver, M
  <2>7. AddsByPair(in, M, K, To, receiver)
    BY <2>1, <2>2, <2>3, <2>4, <2>5 DEF AddsByPair
  <2> QED  BY <2>6, <2>7, SumOverPairs
<1>11. SumFunctionOnSet(out, K) = AmountOf(From) /\ \A q \in K : out[q] \in Nat
  <2>1. \A q \in K : \A p \in M : GetEpochNumber(p[1]) = q[1] /\ sender[p] = q[2] => p \in From
    <3> SUFFICES ASSUME NEW q \in K, NEW p \in M, GetEpochNumber(p[1]) = q[1], sender[p] = q[2]
                 PROVE  p \in From
      OBVIOUS
    <3>1. GetEpochNumber(p[1]) <= e /\ p[2].from \in A
      BY <1>1, <1>8
    <3> HIDE DEF M
    <3> QED  BY <1>3, <3>1
  <2>2. \A q \in K : out[q] = AmountOf({p \in M : GetEpochNumber(p[1]) = q[1] /\ sender[p] = q[2]})
    <3> SUFFICES ASSUME NEW q \in K
                 PROVE  out[q] = AmountOf({p \in M : GetEpochNumber(p[1]) = q[1] /\ sender[p] = q[2]})
      OBVIOUS
    <3>1. {p \in M : GetEpochNumber(p[1]) = q[1] /\ sender[p] = q[2]}
            = {p \in M : GetEpochNumber(p[1]) = q[1] /\ p[2].from = q[2]}
      OBVIOUS
    <3>2. out[q] = MovedFrom(M, q[1], q[2])
      OBVIOUS
    <3> QED  BY <3>1, <3>2 DEF MovedFrom
  <2>3. \A q \in K : q = <<q[1], q[2]>>
    BY <1>8
  <2>4. \A p \in M : p[2].amount \in Nat
    BY <1>2
  <2>5. \A p \in From : <<GetEpochNumber(p[1]), sender[p]>> \in K
    BY <1>7
  <2>6. IsFiniteSet(M) /\ IsFiniteSet(K) /\ From \subseteq M
    BY <1>2, <1>5, <1>9
  <2> HIDE DEF out, K, From, sender, M
  <2>7. AddsByPair(out, M, K, From, sender)
    BY <2>1, <2>2, <2>3, <2>4, <2>5 DEF AddsByPair
  <2> QED  BY <2>6, <2>7, SumOverPairs
<1>12. SumFunctionOnSet(gain, K) = AmountOf(To) - AmountOf(From)
  <2>1. \A q \in K : gain[q] = in[q] - out[q]
    OBVIOUS
  <2> HIDE DEF gain, in, out, K
  <2>2. \A q \in K : gain[q] \in Int /\ out[q] \in Int /\ in[q] = gain[q] + out[q]
    BY <1>10, <1>11, <2>1
  <2>3. SumFunctionOnSet(in, K) = SumFunctionOnSet(gain, K) + SumFunctionOnSet(out, K)
    BY <1>9, <2>2, SumOfSums
  <2>4. SumFunctionOnSet(gain, K) \in Int /\ SumFunctionOnSet(out, K) \in Int
    BY <1>9, <2>2, SumOfInts
  <2> HIDE DEF To, From
  <2> QED  BY <1>10, <1>11, <2>3, <2>4
<1>13. SumFunctionOnSet(g, rows) = SumFunctionOnSet(gain, K)
  <2>1. rows = {r[q] : q \in K}
    <3>1. T(height).account_income = UNION {IncomeRows(M, k) : k \in 1 .. GetEpochNumber(height) - 1}
      BY <1>1 DEF IncomesTell
    <3>2. \A k, a : IncomeRow(M, k, a).address = a /\ IncomeRow(M, k, a).epoch = k
      BY DEF IncomeRow
    <3>3. ASSUME NEW y \in rows  PROVE y \in {r[q] : q \in K}
      <4>1. PICK k \in 1 .. GetEpochNumber(height) - 1 : y \in IncomeRows(M, k)
        BY <3>1
      <4>2. PICK a \in Parties(M, k) : y = IncomeRow(M, k, a)
        BY <4>1 DEF IncomeRows
      <4>3. k \in 1 .. e /\ a \in A
        BY <1>1, <3>2, <4>2
      <4>4. <<k, a>> \in K /\ r[<<k, a>>] = IncomeRow(M, k, a)
        <5> HIDE DEF M
        <5> QED  BY <4>2, <4>3
      <4> QED  BY <4>2, <4>4
    <3>4. ASSUME NEW q \in K  PROVE r[q] \in rows
      <4>1. r[q] = IncomeRow(M, q[1], q[2]) /\ q[1] \in 1 .. e /\ q[2] \in A /\ q[2] \in Parties(M, q[1])
        BY <1>8
      <4>2. r[q] \in IncomeRows(M, q[1]) /\ q[1] \in 1 .. GetEpochNumber(height) - 1
        BY <1>1, <4>1 DEF IncomeRows
      <4>3. r[q].address \in A /\ r[q].epoch <= e
        BY <1>1, <3>2, <4>1
      <4>4. r[q] \in T(height).account_income
        BY <3>1, <4>2
      <4> HIDE DEF r, K
      <4> QED  BY <4>3, <4>4
    <3> HIDE DEF rows, r, K
    <3> QED  BY <3>3, <3>4
  <2>2. ASSUME NEW q \in K  PROVE r[q].address = q[2] /\ r[q].epoch = q[1] /\ r[q].income = gain[q]
    BY DEF IncomeRow
  <2>3. \A p, q \in K : r[p] = r[q] => p = q
    <3> HIDE DEF r, K
    <3> QED  BY <1>8, <2>2
  <2>4. \A q \in K : gain[q] \in Int
    <3>1. \A q \in K : gain[q] = in[q] - out[q]
      OBVIOUS
    <3> HIDE DEF gain, in, out, K
    <3> QED  BY <1>10, <1>11, <3>1
  <2>5. \A x \in rows : g[x] = x.income
    OBVIOUS
  <2> HIDE DEF rows, r, K, gain, g
  <2>6. \A q \in K : gain[q] \in Int /\ g[r[q]] = gain[q]
    BY <2>1, <2>2, <2>4, <2>5
  <2>7. Renames(g, rows, gain, K, r)
    BY <2>1, <2>3, <2>6 DEF Renames
  <2> QED  BY <1>9, <2>7, SumRenamed
<1>14. SumFunction(g) = SumFunctionOnSet(g, rows)
  <2>1. DOMAIN g = rows
    OBVIOUS
  <2> HIDE DEF g, rows
  <2> QED  BY <2>1 DEF SumFunction
<1>15. SumFunction(g) = AmountOf(To) - AmountOf(From)
  <2> HIDE DEF g, rows, gain, K, To, From
  <2> QED  BY <1>12, <1>13, <1>14
<1> QED  BY <1>15

(* What has been moved is finite.                                          *)
LEMMA MovedFinite ==
  ASSUME TInv, NEW e
  PROVE  /\ MovedUpTo(e) = {p \in Moves(height) : GetEpochNumber(p[1]) <= e}
         /\ IsFiniteSet(Moves(height)) /\ IsFiniteSet(MovedUpTo(e))
         /\ \A p \in Moves(height) : p[1] \in 1 .. height /\ p[2].amount \in Nat
<1> DEFINE M == Moves(height)
<1>1. IsFiniteSet(M) /\ \A p \in M : p[1] \in 1 .. height /\ p[2].amount \in Nat
  <2>1. ChainFormed /\ height \in 0 .. height
    BY DEF TInv, ChainFormed
  <2> QED  BY <2>1, MovesFinite
<1>2. MovedUpTo(e) = {p \in M : GetEpochNumber(p[1]) <= e}
  <2>1. M = UNION {{<<i, x>> : x \in blocks[i].log} : i \in {j \in 1 .. height : blocks[j].readable}}
    BY DEF Moves
  <2> HIDE DEF M
  <2> QED  BY <2>1 DEF MovedUpTo
<1>3. IsFiniteSet(MovedUpTo(e))
  <2>1. MovedUpTo(e) \subseteq M
    BY <1>2
  <2> HIDE DEF M
  <2> QED  BY <1>1, <2>1, FS_Subset
<1> QED  BY <1>1, <1>2, <1>3

(* A sum of amounts is a natural number.                                   *)
LEMMA AmountIsNat ==
  ASSUME NEW S, IsFiniteSet(S), \A p \in S : p[2].amount \in Nat
  PROVE  AmountOf(S) \in Nat
<1> DEFINE f == [p \in S |-> p[2].amount]
<1>1. AmountOf(S) = SumFunctionOnSet(f, S)
  BY DEF AmountOf, SumFunction
<1>2. \A p \in S : f[p] \in Nat
  OBVIOUS
<1> HIDE DEF f
<1> QED  BY <1>1, <1>2, SumOfNats

(* Incomes are balances, and nothing is made or lost by moving it.         *)
LEMMA IncomesHold == TInv => IncomeAgrees
<1> SUFFICES ASSUME TInv, NEW e \in 1 .. GetEpochNumber(height) - 1
             PROVE  LET moved == MovedUpTo(e)
                        parties == {p[2].from : p \in moved} \cup {p[2].to : p \in moved}
                        incomes == {x \in T(height).account_income : x.epoch <= e}
                    IN  /\ \A a \in parties :
                             IncomeOf(T(height), a, e) =
                               AmountOf({p \in moved : p[2].to = a}) - AmountOf({p \in moved : p[2].from = a})
                        /\ SumFunction([x \in incomes |-> x.income]) = 0
  BY DEF IncomeAgrees
<1> DEFINE moved == MovedUpTo(e)
           incomes == {x \in T(height).account_income : x.epoch <= e}
           all == {p[2].from : p \in moved} \cup {p[2].to : p \in moved} \cup {x.address : x \in incomes}
<1>1. ASSUME NEW a
      PROVE  IncomeOf(T(height), a, e) =
               AmountOf({p \in moved : p[2].to = a}) - AmountOf({p \in moved : p[2].from = a})
  <2> DEFINE A == {a}
  <2>1. SumFunction([x \in {y \in T(height).account_income : y.address \in A /\ y.epoch <= e} |-> x.income]) =
          AmountOf({p \in MovedUpTo(e) : p[2].to \in A}) - AmountOf({p \in MovedUpTo(e) : p[2].from \in A})
    <3> HIDE DEF A
    <3> QED  BY IncomesAddUp
  <2>2. /\ {y \in T(height).account_income : y.address \in A /\ y.epoch <= e}
             = {y \in T(height).account_income : y.address = a /\ y.epoch <= e}
        /\ {p \in MovedUpTo(e) : p[2].to \in A} = {p \in moved : p[2].to = a}
        /\ {p \in MovedUpTo(e) : p[2].from \in A} = {p \in moved : p[2].from = a}
    OBVIOUS
  <2> HIDE DEF A
  <2> QED  BY <2>1, <2>2 DEF IncomeOf
<1>2. SumFunction([x \in incomes |-> x.income]) = 0
  <2> DEFINE rows == {y \in T(height).account_income : y.address \in all /\ y.epoch <= e}
             to == {p \in MovedUpTo(e) : p[2].to \in all}
             from == {p \in MovedUpTo(e) : p[2].from \in all}
  <2>1. SumFunction([x \in rows |-> x.income]) = AmountOf(to) - AmountOf(from)
    <3> HIDE DEF all
    <3> QED  BY IncomesAddUp
  <2>2. rows = incomes /\ to = moved /\ from = moved
    OBVIOUS
  <2>3. AmountOf(moved) \in Nat
    <3>1. IsFiniteSet(moved) /\ \A p \in moved : p[2].amount \in Nat
      BY MovedFinite
    <3> HIDE DEF moved
    <3> QED  BY <3>1, AmountIsNat
  <2> HIDE DEF rows, to, from, incomes, moved
  <2>4. SumFunction([x \in incomes |-> x.income]) = AmountOf(moved) - AmountOf(moved)
    BY <2>1, <2>2
  <2> QED  BY <2>3, <2>4
<1> QED  BY <1>1, <1>2

-------------------------------------------------------------------------------
(* Payments of Hermes.                                                     *)

(* What Hermes has paid out in actions it distributed in, and the pair of  *)
(* rows that stands for a payment.                                         *)
Paid ==
  {p \in MovedUpTo(GetEpochNumber(height)) :
     /\ p[2].from \in MultiSend
     /\ \E a \in blocks[p[1]].actions : a = p[2].act /\ a.to = Hermes /\ a.ok /\ a.distributes # <<>>}

PaidRow(p) == <<MoveRow(p), DistributeRow(<<p[1], p[2].act>>)>>

LEMMA PaidFacts ==
  ASSUME TInv
  PROVE  /\ IsFiniteSet(Paid)
         /\ \A p \in Paid : /\ p \in Moves(height) /\ p[1] \in 1 .. height /\ p[2].amount \in Nat
                            /\ GetEpochNumber(p[1]) \in 1 .. GetEpochNumber(height)
         /\ \A p, q \in Paid : PaidRow(p) = PaidRow(q) => p = q
<1> DEFINE last == GetEpochNumber(height)
<1>1. /\ MovedUpTo(last) = {p \in Moves(height) : GetEpochNumber(p[1]) <= last}
      /\ IsFiniteSet(MovedUpTo(last))
      /\ \A p \in Moves(height) : p[1] \in 1 .. height /\ p[2].amount \in Nat
  BY MovedFinite
<1>2. ChainFormed /\ height \in Nat /\ height \in 0 .. height
  BY DEF TInv, ChainFormed
<1>3. Paid \subseteq MovedUpTo(last)
  BY DEF Paid
<1>4. IsFiniteSet(Paid)
  BY <1>1, <1>3, FS_Subset
<1>5. ASSUME NEW p \in Paid  PROVE GetEpochNumber(p[1]) \in 1 .. last
  <2>1. p \in MovedUpTo(last) /\ p[1] \in 1 .. height /\ GetEpochNumber(p[1]) <= last
    BY <1>1, <1>3
  <2>2. height # 0 /\ p[1] \in Nat \ {0}
    BY <1>2, <2>1
  <2>3. GetEpochNumber(p[1]) \in Nat \ {0} /\ last \in Nat
    BY <1>2, <2>2, HeightInEpoch, RequestsAssumption
  <2> HIDE DEF last
  <2> QED  BY <2>1, <2>3
<1>6. ASSUME NEW p \in Paid, NEW q \in Paid, PaidRow(p) = PaidRow(q)  PROVE p = q
  <2>1. MoveRow(p) = MoveRow(q)
    BY <1>6 DEF PaidRow
  <2>2. p \in Moves(height) /\ q \in Moves(height)
    BY <1>1, <1>3
  <2> QED  BY <1>2, <2>1, <2>2, MovesFinite
<1> QED  BY <1>1, <1>3, <1>4, <1>5, <1>6

(* The pairs of a transfer and a Distribute event of its action are one    *)
(* for one what Hermes has paid.                                           *)
LEMMA DistributedIsPaid ==
  TInv => Distributed(T(height), 1, GetEpochNumber(height)) = {PaidRow(p) : p \in Paid}
<1> SUFFICES ASSUME TInv
             PROVE  Distributed(T(height), 1, GetEpochNumber(height)) = {PaidRow(p) : p \in Paid}
  OBVIOUS
<1> DEFINE last == GetEpochNumber(height)
           bh == T(height).balance_history
           hc == T(height).hermes_contract
<1>1. ChainFormed /\ height \in Nat /\ height \in 0 .. height
  BY DEF TInv, ChainFormed
<1>2. /\ bh = GenesisRows \cup {MoveRow(p) : p \in Moves(height)}
      /\ hc = {DistributeRow(p) : p \in Distributing(height)}
  BY <1>1 DEF TInv, TablesTell, BalancesTell, HermesTells
<1>3. ASSUME NEW d \in Distributing(height)
      PROVE  /\ d[1] \in 1 .. height /\ d[2] \in blocks[d[1]].actions /\ d = <<d[1], d[2]>>
             /\ d[2].to = Hermes /\ d[2].ok /\ d[2].distributes # <<>>
  <2>1. d \in ChainActions(height) /\ d[2].to = Hermes /\ d[2].ok /\ d[2].distributes # <<>>
    BY DEF Distributing
  <2>2. PICK h \in 1 .. height : \E a \in blocks[h].actions : d = <<h, a>>
    BY <2>1 DEF ChainActions
  <2>3. PICK a \in blocks[h].actions : d = <<h, a>>
    BY <2>2
  <2>4. d[1] = h /\ d[2] = a
    BY <2>3
  <2> QED  BY <2>1, <2>3, <2>4
<1>4. \A p : /\ MoveRow(p).epoch = GetEpochNumber(p[1]) /\ MoveRow(p).hash = <<p[1], p[2].act>>
             /\ MoveRow(p).from = p[2].from
             /\ DistributeRow(p).hash = <<p[1], p[2]>> /\ DistributeRow(p).epoch = GetEpochNumber(p[1])
  BY DEF MoveRow, DistributeRow
<1>5. \A p : p \in MovedUpTo(last) <=> p \in Moves(height) /\ GetEpochNumber(p[1]) <= last
  BY MovedFinite
<1>6. ASSUME NEW z \in Distributed(T(height), 1, last)  PROVE z \in {PaidRow(p) : p \in Paid}
  <2>1. PICK x \in bh, y \in hc : z = <<x, y>>
    BY DEF Distributed
  <2>2. /\ x.from \in MultiSend /\ x.hash = y.hash
        /\ x.epoch \in 1 .. last /\ y.epoch \in 1 .. last
    <3>1. z[1] = x /\ z[2] = y
      BY <2>1
    <3>2. /\ z[1].from \in MultiSend /\ z[1].hash = z[2].hash
          /\ {z[1].epoch, z[2].epoch} \subseteq 1 .. last
      BY DEF Distributed
    <3> HIDE DEF last, bh, hc
    <3> QED  BY <3>1, <3>2
  <2>3. x \notin GenesisRows
    <3>1. height # 0 => last \in Nat
      BY <1>1, HeightInEpoch, RequestsAssumption
    <3>2. x \in GenesisRows => x.epoch = 0
      BY GenesisIsEpochZero
    <3>3. height # 0
      <4>1. y \in {DistributeRow(p) : p \in Distributing(height)}
        BY <1>2
      <4>2. PICK d \in Distributing(height) : y = DistributeRow(d)
        BY <4>1
      <4> QED  BY <1>1, <1>3
    <3> HIDE DEF last
    <3> QED  BY <2>2, <3>1, <3>2, <3>3
  <2>4. PICK p \in Moves(height) : x = MoveRow(p)
    <3> HIDE DEF bh
    <3> QED  BY <1>2, <2>3
  <2>5. PICK d \in Distributing(height) : y = DistributeRow(d)
    <3> HIDE DEF hc
    <3> QED  BY <1>2
  <2>6. p[1] = d[1] /\ p[2].act = d[2] /\ p[2].from \in MultiSend /\ GetEpochNumber(p[1]) \in 1 .. last
    <3>1. x.hash = <<p[1], p[2].act>> /\ x.from = p[2].from /\ x.epoch = GetEpochNumber(p[1])
      BY <1>4, <2>4
    <3>2. y.hash = <<d[1], d[2]>>
      BY <1>4, <2>5
    <3>3. <<p[1], p[2].act>> = <<d[1], d[2]>>
      BY <2>2, <3>1, <3>2
    <3>4. p[1] = d[1] /\ p[2].act = d[2]
      BY <3>3
    <3> QED  BY <2>2, <3>1, <3>4
  <2>7. GetEpochNumber(p[1]) <= last
    <3> HIDE DEF last
    <3> QED  BY <2>6
  <2>8. p \in Paid
    BY <1>3, <1>5, <2>6, <2>7 DEF Paid
  <2>9. d = <<p[1], p[2].act>>
    BY <1>3, <2>6
  <2> QED  BY <2>1, <2>4, <2>5, <2>8, <2>9 DEF PaidRow
<1>7. ASSUME NEW p \in Paid  PROVE PaidRow(p) \in Distributed(T(height), 1, last)
  <2> DEFINE x == MoveRow(p)
             d == <<p[1], p[2].act>>
             y == DistributeRow(d)
  <2>1. p \in Moves(height) /\ p[1] \in 1 .. height /\ GetEpochNumber(p[1]) \in 1 .. last
    BY PaidFacts
  <2>2. p[2].from \in MultiSend /\ \E a \in blocks[p[1]].actions : a = p[2].act /\ a.to = Hermes /\ a.ok /\ a.distributes # <<>>
    BY DEF Paid
  <2>3. d \in ChainActions(height)
    BY <2>1, <2>2 DEF ChainActions
  <2>4. d[1] = p[1] /\ d[2] = p[2].act
    OBVIOUS
  <2>5. d \in Distributing(height)
    <3> HIDE DEF d
    <3> QED  BY <2>2, <2>3, <2>4 DEF Distributing
  <2> HIDE DEF d
  <2>6. x \in bh /\ y \in hc
    <3> HIDE DEF bh, hc
    <3> QED  BY <1>2, <2>1, <2>5
  <2>7. x.from \in MultiSend /\ x.hash = y.hash /\ x.epoch \in 1 .. last /\ y.epoch \in 1 .. last
    <3> HIDE DEF last
    <3> QED  BY <1>4, <2>1, <2>2, <2>4
  <2>8. PaidRow(p) = <<x, y>>
    BY DEF PaidRow, d
  <2> HIDE DEF x, y, last, bh, hc
  <2>9. <<x, y>> \in Distributed(T(height), 1, last)
    <3>1. x \in {r \in T(height).balance_history : r.from \in MultiSend}
      BY <2>6, <2>7 DEF bh
    <3>2. {x.epoch, y.epoch} \subseteq 1 .. last
      BY <2>7
    <3>3. y \in T(height).hermes_contract
      BY <2>6 DEF hc
    <3> QED  BY <2>7, <3>1, <3>2, <3>3 DEF Distributed
  <2> QED  BY <2>8, <2>9
<1> QED  BY <1>6, <1>7

(* The rows of some payments are as many and add up to as much.            *)
LEMMA RowsOfPayments ==
  ASSUME TInv, NEW S, S \subseteq Paid
  PROVE  /\ Amounts({PaidRow(p) : p \in S}) = AmountOf(S)
         /\ Cardinality({PaidRow(p) : p \in S}) = Cardinality(S)
<1> DEFINE rows == {PaidRow(p) : p \in S}
           r == [p \in S |-> PaidRow(p)]
           f == [p \in S |-> p[2].amount]
           g == [z \in rows |-> z[1].amount]
<1>1. IsFiniteSet(S)
  BY PaidFacts, FS_Subset
<1>2. rows = {r[p] : p \in S}
  OBVIOUS
<1>3. \A p, q \in S : r[p] = r[q] => p = q
  <2>1. \A p \in S : p \in Paid /\ r[p] = PaidRow(p)
    OBVIOUS
  <2> HIDE DEF r
  <2> QED  BY <2>1, PaidFacts
<1>4. ASSUME NEW p \in S  PROVE f[p] \in Int /\ g[r[p]] = f[p]
  <2>1. f[p] = p[2].amount /\ r[p] = PaidRow(p) /\ r[p] \in rows
    OBVIOUS
  <2>2. p[2].amount \in Int
    BY PaidFacts
  <2>3. PaidRow(p)[1].amount = p[2].amount
    BY DEF PaidRow, MoveRow
  <2>4. \A z \in rows : g[z] = z[1].amount
    OBVIOUS
  <2> HIDE DEF f, r, g, rows
  <2> QED  BY <2>1, <2>2, <2>3, <2>4
<1>5. AmountOf(S) = SumFunctionOnSet(f, S)
  BY DEF AmountOf, SumFunction
<1>6. Amounts(rows) = SumFunctionOnSet(g, rows)
  BY DEF Amounts, SumFunction
<1> HIDE DEF rows, r, f, g
<1>7. Renames(g, rows, f, S, r)
  BY <1>2, <1>3, <1>4 DEF Renames
<1>8. SumFunctionOnSet(g, rows) = SumFunctionOnSet(f, S) /\ Cardinality(rows) = Cardinality(S)
  BY <1>1, <1>7, SumRenamed
<1> QED  BY <1>5, <1>6, <1>8 DEF rows

LEMMA PaymentsHold == TInv => PaymentsCountedOnce
<1> SUFFICES ASSUME TInv
             PROVE  /\ GetHermes2Meta(T(height), 1, GetEpochNumber(height)).total = AmountOf(Paid)
                    /\ \A v \in {p[2].to : p \in Paid} :
                         Cardinality(GetHermes2ByVoter(T(height), <<1, GetEpochNumber(height), v>>))
                           = Cardinality({p \in Paid : p[2].to = v})
  BY DEF PaymentsCountedOnce, Paid
<1> DEFINE last == GetEpochNumber(height)
<1>1. Distributed(T(height), 1, last) = {PaidRow(p) : p \in Paid}
  BY DistributedIsPaid
<1>2. GetHermes2Meta(T(height), 1, last).total = AmountOf(Paid)
  <2>1. GetHermes2Meta(T(height), 1, last).total = Amounts(Distributed(T(height), 1, last))
    BY DEF GetHermes2Meta
  <2> HIDE DEF last
  <2> QED  BY <1>1, <2>1, RowsOfPayments
<1>3. ASSUME NEW v
      PROVE  Cardinality(GetHermes2ByVoter(T(height), <<1, last, v>>)) = Cardinality({p \in Paid : p[2].to = v})
  <2> DEFINE S == {p \in Paid : p[2].to = v}
  <2>1. GetHermes2ByVoter(T(height), <<1, last, v>>) = {z \in Distributed(T(height), 1, last) : z[1].to = v}
    <3> HIDE DEF last
    <3> QED  BY DEF GetHermes2ByVoter
  <2>2. \A p : PaidRow(p)[1].to = p[2].to
    BY DEF PaidRow, MoveRow
  <2>3. {z \in Distributed(T(height), 1, last) : z[1].to = v} = {PaidRow(p) : p \in S}
    <3> HIDE DEF last
    <3> QED  BY <1>1, <2>2
  <2>4. S \subseteq Paid
    OBVIOUS
  <2> HIDE DEF S, last
  <2> QED  BY <2>1, <2>3, <2>4, RowsOfPayments DEF S
<1> QED  BY <1>2, <1>3

(* An account's income by the end of an epoch is what the blocks moved to  *)
(* it less what they moved from it, and all incomes together are nothing.  *)
THEOREM IncomeAlwaysAgrees == Spec => []IncomeAgrees
BY TablesInvariant, IncomesHold, PTL

(* Every payment of Hermes is counted once, in the totals and in the list  *)
(* of its voter.                                                           *)
THEOREM PaymentsAlwaysCountedOnce == Spec => []PaymentsCountedOnce
BY TablesInvariant, PaymentsHold, PTL

-------------------------------------------------------------------------------
(* What else the tables owe to the blocks: the rows that are listed.       *)
ActionRow(p) ==
  [hash |-> <<p[1], p[2]>>, height |-> p[1], type |-> p[2].type, from |-> p[2].from, to |-> p[2].to]

StakeRow(p) == [hash |-> <<p[1], p[2]>>, bucket |-> p[2].bucket]

TokenRow(p) ==
  [hash |-> <<p[1], p[2]>>, height |-> p[1], contract |-> p[2].token.contract,
   from |-> p[2].token.from, to |-> p[2].token.to]

BlockRow(h) ==
  [ height |-> h, epoch |-> GetEpochNumber(h), actions |-> Cardinality(blocks[h].actions),
    tps |-> Cardinality({a \in blocks[h].actions : a.type \in TpsTypes}) ]

Staked(v) == {p \in ChainActions(v) : p[2].bucket # NoBucket}
WithToken(v) == {p \in ChainActions(v) : p[2].token # NoToken}

(* A bucket has a row of the epoch in which it was first seen.             *)
FirstSeenIn(k) == Buckets[k] \ SeenBy(k - 1)
BucketRow(b, k) == [index |-> b.index, owner |-> b.owner, id |-> k]
BucketRows(j) == UNION {{BucketRow(b, k) : b \in FirstSeenIn(k)} : k \in 1 .. j}

RowsTell(v) ==
  /\ T(v).action_history = {ActionRow(p) : p \in ChainActions(v)}
  /\ T(v).bucket_actions = {StakeRow(p) : p \in Staked(v)}
  /\ T(v).xrc_history = {TokenRow(p) : p \in WithToken(v)}
  /\ T(v).block_history = {BlockRow(h) : h \in 1 .. v}
  /\ T(v).staking_bucket = BucketRows(GetEpochNumber(v))

(* Holders are only added.                                                 *)
HoldersGrow ==
  /\ \A v \in 0 .. height : IsFiniteSet(T(v).xrc_holders)
  /\ \A v, w \in 0 .. height : v <= w => T(v).xrc_holders \subseteq T(w).xrc_holders

ListsTell == (\A v \in 0 .. height : RowsTell(v)) /\ HoldersGrow

AInv == TInv /\ ListsTell

(* Who has been seen has been seen for the first time.                     *)
LEMMA FirstSeen ==
  ASSUME NEW j \in Nat, NEW d \in SeenBy(j)
  PROVE  \E k \in 1 .. j : d \in FirstSeenIn(k)
<1> DEFINE S == {k \in 1 .. j : d \in Buckets[k]}
<1>1. S \subseteq Nat /\ S # {}
  BY DEF SeenBy
<1> HIDE DEF S
<1>2. PICK k \in S : \A i \in S : k <= i
  BY <1>1, LeastNumber
<1>3. k \in 1 .. j /\ d \in Buckets[k]
  BY <1>2 DEF S
<1>4. d \notin SeenBy(k - 1)
  <2>1. ASSUME NEW i \in 1 .. k - 1, d \in Buckets[i]  PROVE FALSE
    <3>1. i \in S
      BY <1>3, <2>1 DEF S
    <3> QED  BY <1>2, <1>3, <3>1
  <2> QED  BY <2>1 DEF SeenBy
<1> QED  BY <1>3, <1>4 DEF FirstSeenIn

(* What the assumption says of the buckets of an epoch.                    *)
LEMMA BucketFacts ==
  ASSUME NEW k \in 1 .. GetEpochNumber(MaxHeight), NEW b \in Buckets[k]
  PROVE  b = [index |-> b.index, owner |-> b.owner] /\ b.index # NoBucket
BY RequestsAssumption

(* The epochs of a chain are among those the assumption is about.          *)
LEMMA EpochsInReach ==
  ASSUME ChainFormed, NEW v \in 0 .. MaxHeight
  PROVE  /\ GetEpochNumber(v) \in Nat
         /\ 1 .. GetEpochNumber(v) \subseteq 1 .. GetEpochNumber(MaxHeight)
<1>1. MaxHeight \in Nat
  BY ViewsAssumption
<1>2. CASE v = 0
  BY <1>2 DEF GetEpochNumber
<1>3. CASE v # 0
  <2>1. v \in Nat \ {0} /\ MaxHeight \in Nat \ {0} /\ v <= MaxHeight
    BY <1>1, <1>3
  <2>2. GetEpochNumber(v) \in Nat \ {0} /\ GetEpochNumber(MaxHeight) \in Nat \ {0}
    BY <2>1, HeightInEpoch, RequestsAssumption
  <2>3. GetEpochNumber(v) <= GetEpochNumber(MaxHeight)
    BY <2>1, EpochMonotone, RequestsAssumption
  <2> QED  BY <2>2, <2>3
<1> QED  BY <1>2, <1>3

(* The epoch a block opens comes after the one before.                     *)
LEMMA EpochsOpen ==
  ASSUME NEW h \in Nat, NEW n, n = h + 1
  PROVE  /\ GetEpochNumber(n) \in Nat \ {0}
         /\ IsEpochStart(n) => GetEpochNumber(h) = GetEpochNumber(n) - 1
         /\ ~IsEpochStart(n) => GetEpochNumber(h) = GetEpochNumber(n)
<1>1. GetEpochNumber(n) \in Nat \ {0}
  BY HeightInEpoch, RequestsAssumption
<1>2. CASE h = 0
  <2>1. n = 1 /\ GetEpochNumber(n) = 1 /\ IsEpochStart(n)
    BY <1>2, FirstEpoch, RequestsAssumption
  <2>2. GetEpochNumber(h) = 0
    BY <1>2 DEF GetEpochNumber
  <2> QED  BY <1>1, <2>1, <2>2
<1>3. CASE h # 0
  <2>1. h \in Nat \ {0} /\ h = n - 1 /\ n \in Nat
    BY <1>3
  <2>2. GetEpochNumber(h) \in Nat \ {0}
    BY <2>1, HeightInEpoch, RequestsAssumption
  <2>3. IsEpochStart(n) => GetEpochNumber(n) = GetEpochNumber(h) + 1
    BY <2>1, EpochStep, RequestsAssumption
  <2>4. ~IsEpochStart(n) => GetEpochNumber(n) = GetEpochNumber(h)
    BY <2>1, EpochStep, RequestsAssumption
  <2> QED  BY <1>1, <2>2, <2>3, <2>4
<1> QED  BY <1>2, <1>3

(* What updateStakingResult adds for the buckets of an epoch.              *)
LEMMA BucketsAdded ==
  ASSUME NEW e \in 1 .. GetEpochNumber(MaxHeight), GetEpochNumber(MaxHeight) \in Nat,
         NEW t, t.staking_bucket = BucketRows(e - 1)
  PROVE  updateStakingResult(t, e, Buckets[e]) = BucketRows(e)
<1> DEFINE New == {c \in Buckets[e] : \A x \in t.staking_bucket : x.index # c.index \/ x.owner # c.owner}
           Of(k) == {BucketRow(b, k) : b \in FirstSeenIn(k)}
<1>1. New = FirstSeenIn(e)
  <2>1. ASSUME NEW c \in Buckets[e], c \in SeenBy(e - 1)  PROVE c \notin New
    <3>1. PICK k \in 1 .. e - 1 : c \in FirstSeenIn(k)
      BY <2>1, FirstSeen
    <3>2. BucketRow(c, k) \in BucketRows(e - 1)
      BY <3>1 DEF BucketRows
    <3>3. BucketRow(c, k).index = c.index /\ BucketRow(c, k).owner = c.owner
      BY DEF BucketRow
    <3> QED  BY <3>2, <3>3
  <2>2. ASSUME NEW c \in Buckets[e], c \notin New  PROVE c \in SeenBy(e - 1)
    <3>1. PICK x \in BucketRows(e - 1) : x.index = c.index /\ x.owner = c.owner
      BY <2>2
    <3>2. PICK k \in 1 .. e - 1 : \E d \in FirstSeenIn(k) : x = BucketRow(d, k)
      BY <3>1 DEF BucketRows
    <3>7. PICK d \in FirstSeenIn(k) : x = BucketRow(d, k)
      BY <3>2
    <3>3. d \in Buckets[k] /\ x.index = d.index /\ x.owner = d.owner
      BY <3>7 DEF FirstSeenIn, BucketRow
    <3>4. k \in 1 .. GetEpochNumber(MaxHeight)
      OBVIOUS
    <3>5. d = [index |-> d.index, owner |-> d.owner] /\ c = [index |-> c.index, owner |-> c.owner]
      BY <3>3, <3>4, BucketFacts
    <3>6. d = c
      BY <3>1, <3>3, <3>5
    <3> QED  BY <3>3, <3>6 DEF SeenBy
  <2>3. New \subseteq Buckets[e] /\ FirstSeenIn(e) = Buckets[e] \ SeenBy(e - 1)
    BY DEF FirstSeenIn
  <2> HIDE DEF New
  <2> QED  BY <2>1, <2>2, <2>3
<1>2. updateStakingResult(t, e, Buckets[e]) = t.staking_bucket \cup Of(e)
  <2>1. updateStakingResult(t, e, Buckets[e]) = t.staking_bucket \cup {BucketRow(b, e) : b \in New}
    BY DEF updateStakingResult, BucketRow
  <2> HIDE DEF New
  <2> QED  BY <1>1, <2>1
<1>3. BucketRows(e) = UNION {Of(k) : k \in 1 .. e} /\ BucketRows(e - 1) = UNION {Of(k) : k \in 1 .. e - 1}
  BY DEF BucketRows
<1>4. 1 .. e = (1 .. e - 1) \cup {e}
  OBVIOUS
<1> HIDE DEF Of
<1>5. UNION {Of(k) : k \in 1 .. e} = (UNION {Of(k) : k \in 1 .. e - 1}) \cup Of(e)
  BY <1>4
<1> QED  BY <1>2, <1>3, <1>5

(* The rows after a block that is put.                                     *)
LEMMA PutRows ==
  ASSUME ChainFormed, RowsTell(height), NEW b, Puts(b), NEW m, m = height + 1
  PROVE  RowsTell(m)' /\ T(m)'.xrc_holders = updateXrc20Holders(T(height), b)
<1> DEFINE n == height + 1
           e == GetEpochNumber(n)
           t == T(height)
           New == {<<n, a>> : a \in b.actions}
<1>1. /\ n \in Nat \ {0} /\ height = n - 1 /\ n <= MaxHeight
      /\ b.height = n
      /\ \A i \in 1 .. height : blocks'[i] = blocks[i]
      /\ blocks'[n] = b
      /\ T(m)' = HandleBlock(t, b, Buckets[e])
  <2>1. n <= MaxHeight
    BY ViewsAssumption DEF Puts, ChainFormed
  <2> QED  BY <2>1, PutFacts
<1>2. ChainActions(m)' = ChainActions(height) \cup New
  BY PutMoves
<1>3. /\ T(m)'.action_history = updateActionHistory(t, b)
      /\ T(m)'.bucket_actions = updateBucketActions(t, b)
      /\ T(m)'.xrc_history = updateXrc20History(t, b)
      /\ T(m)'.xrc_holders = updateXrc20Holders(t, b)
      /\ T(m)'.block_history = updateBlockHistory(t, b)
      /\ T(m)'.staking_bucket = IF IsEpochStart(n) THEN updateStakingResult(t, e, Buckets[e]) ELSE t.staking_bucket
  BY <1>1 DEF HandleBlock
<1>4. /\ t.action_history = {ActionRow(p) : p \in ChainActions(height)}
      /\ t.bucket_actions = {StakeRow(p) : p \in Staked(height)}
      /\ t.xrc_history = {TokenRow(p) : p \in WithToken(height)}
      /\ t.block_history = {BlockRow(h) : h \in 1 .. height}
      /\ t.staking_bucket = BucketRows(GetEpochNumber(height))
  BY DEF RowsTell
<1>5. T(m)'.action_history = {ActionRow(p) : p \in ChainActions(m)'}
  <2> DEFINE Row(a) == [hash |-> Hash(b, a), height |-> b.height, type |-> a.type, from |-> a.from, to |-> a.to]
  <2>1. \A a : ActionRow(<<n, a>>) = Row(a)
    BY <1>1 DEF ActionRow, Hash
  <2>2. updateActionHistory(t, b) = t.action_history \cup {ActionRow(<<n, a>>) : a \in b.actions}
    <3>1. updateActionHistory(t, b) = t.action_history \cup {Row(a) : a \in b.actions}
      BY DEF updateActionHistory
    <3> HIDE DEF t, n, Row
    <3> QED  BY <2>1, <3>1
  <2>3. {ActionRow(<<n, a>>) : a \in b.actions} = {ActionRow(p) : p \in New}
    OBVIOUS
  <2> HIDE DEF New, t, n
  <2>4. T(m)'.action_history = {ActionRow(p) : p \in ChainActions(height)} \cup {ActionRow(p) : p \in New}
    BY <1>3, <1>4, <2>2, <2>3
  <2> QED  BY <1>2, <2>4
<1>6. T(m)'.bucket_actions = {StakeRow(p) : p \in Staked(m)'}
  <2> DEFINE Row(a) == [hash |-> Hash(b, a), bucket |-> a.bucket]
  <2>1. \A a : StakeRow(<<n, a>>) = Row(a)
    BY <1>1 DEF StakeRow, Hash
  <2>2. updateBucketActions(t, b) = t.bucket_actions \cup {StakeRow(<<n, a>>) : a \in Staking(b)}
    <3>1. updateBucketActions(t, b) = t.bucket_actions \cup {Row(a) : a \in Staking(b)}
      BY DEF updateBucketActions
    <3> HIDE DEF t, n, Row
    <3> QED  BY <2>1, <3>1
  <2>3. Staked(m)' = Staked(height) \cup {<<n, a>> : a \in Staking(b)}
    <3>1. {p \in New : p[2].bucket # NoBucket} = {<<n, a>> : a \in Staking(b)}
      BY DEF Staking
    <3>2. Staked(m)' = {p \in ChainActions(m)' : p[2].bucket # NoBucket}
      BY DEF Staked
    <3> HIDE DEF New
    <3> QED  BY <1>2, <3>1, <3>2 DEF Staked
  <2> DEFINE Added == {<<n, a>> : a \in Staking(b)}
  <2>4. {StakeRow(<<n, a>>) : a \in Staking(b)} = {StakeRow(p) : p \in Added}
    OBVIOUS
  <2> HIDE DEF New, t, n, Added
  <2>5. T(m)'.bucket_actions = {StakeRow(p) : p \in Staked(height)} \cup {StakeRow(p) : p \in Added}
    BY <1>3, <1>4, <2>2, <2>4
  <2>6. Staked(m)' = Staked(height) \cup Added
    BY <2>3 DEF Added
  <2> QED  BY <2>5, <2>6
<1>7. T(m)'.xrc_history = {TokenRow(p) : p \in WithToken(m)'}
  <2>1. \A a : TokenRow(<<n, a>>) =
                 [hash |-> Hash(b, a), height |-> b.height, contract |-> a.token.contract,
                  from |-> a.token.from, to |-> a.token.to]
    BY <1>1 DEF TokenRow, Hash
  <2>2. updateXrc20History(t, b) = t.xrc_history \cup {TokenRow(<<n, a>>) : a \in Tokens(b)}
    BY <2>1 DEF updateXrc20History
  <2>3. WithToken(m)' = WithToken(height) \cup {<<n, a>> : a \in Tokens(b)}
    <3>1. {p \in New : p[2].token # NoToken} = {<<n, a>> : a \in Tokens(b)}
      BY DEF Tokens
    <3>2. WithToken(m)' = {p \in ChainActions(m)' : p[2].token # NoToken}
      BY DEF WithToken
    <3> HIDE DEF New
    <3> QED  BY <1>2, <3>1, <3>2 DEF WithToken
  <2> DEFINE Added == {<<n, a>> : a \in Tokens(b)}
  <2>4. {TokenRow(<<n, a>>) : a \in Tokens(b)} = {TokenRow(p) : p \in Added}
    OBVIOUS
  <2> HIDE DEF New, t, n, Added
  <2>5. T(m)'.xrc_history = {TokenRow(p) : p \in WithToken(height)} \cup {TokenRow(p) : p \in Added}
    BY <1>3, <1>4, <2>2, <2>4
  <2>6. WithToken(m)' = WithToken(height) \cup Added
    BY <2>3 DEF Added
  <2> QED  BY <2>5, <2>6
<1>8. T(m)'.block_history = {BlockRow(h)' : h \in 1 .. m}
  <2>1. \A h \in 1 .. height : BlockRow(h)' = BlockRow(h)
    BY <1>1 DEF BlockRow
  <2>2. BlockRow(m)' = [ height |-> b.height, epoch |-> GetEpochNumber(b.height), actions |-> Cardinality(b.actions),
                         tps |-> Cardinality({a \in b.actions : a.type \in TpsTypes}) ]
    BY <1>1 DEF BlockRow
  <2>3. 1 .. m = (1 .. height) \cup {m}
    BY <1>1
  <2>4. updateBlockHistory(t, b) = t.block_history \cup {BlockRow(m)'}
    BY <2>2 DEF updateBlockHistory
  <2>5. {BlockRow(h)' : h \in 1 .. m} = {BlockRow(h) : h \in 1 .. height} \cup {BlockRow(m)'}
    BY <2>1, <2>3
  <2> QED  BY <1>3, <1>4, <2>4, <2>5
<1>9. T(m)'.staking_bucket = BucketRows(e)
  <2>1. height \in Nat
    BY <1>1
  <2>2. e \in Nat \ {0} /\ (IsEpochStart(n) => GetEpochNumber(height) = e - 1)
        /\ (~IsEpochStart(n) => GetEpochNumber(height) = e)
    BY <2>1, EpochsOpen
  <2>3. CASE ~IsEpochStart(n)
    BY <1>3, <1>4, <2>2, <2>3
  <2>4. CASE IsEpochStart(n)
    <3>1. n \in 0 .. MaxHeight /\ MaxHeight \in 0 .. MaxHeight
      BY <1>1, ViewsAssumption
    <3>2. 1 .. e \subseteq 1 .. GetEpochNumber(MaxHeight) /\ GetEpochNumber(MaxHeight) \in Nat
      BY <3>1, EpochsInReach
    <3>3. e \in 1 .. GetEpochNumber(MaxHeight)
      BY <2>2, <3>2
    <3>4. t.staking_bucket = BucketRows(e - 1)
      BY <1>4, <2>2, <2>4
    <3> HIDE DEF t, e, n
    <3>5. updateStakingResult(t, e, Buckets[e]) = BucketRows(e)
      BY <3>2, <3>3, <3>4, BucketsAdded
    <3> QED  BY <1>3, <2>4, <3>5
  <2> QED  BY <2>3, <2>4
<1> QED  BY <1>3, <1>5, <1>6, <1>7, <1>8, <1>9 DEF RowsTell

(* What is said of an older block stays.                                   *)
LEMMA RowsStay ==
  ASSUME NEW v \in Nat, RowsTell(v), T(v)' = T(v), \A i \in 1 .. v : blocks'[i] = blocks[i]
  PROVE  RowsTell(v)'
<1>1. ChainActions(v)' = ChainActions(v)
  BY DEF ChainActions
<1>2. Staked(v)' = Staked(v) /\ WithToken(v)' = WithToken(v)
  BY <1>1 DEF Staked, WithToken
<1>3. \A h \in 1 .. v : BlockRow(h)' = BlockRow(h)
  BY DEF BlockRow
<1>4. {BlockRow(h)' : h \in 1 .. v} = {BlockRow(h) : h \in 1 .. v}
  BY <1>3
<1> QED  BY <1>1, <1>2, <1>4 DEF RowsTell

LEMMA HoldersFinite ==
  ASSUME NEW t, IsFiniteSet(t.xrc_holders), NEW b, IsFiniteSet(b.actions)
  PROVE  IsFiniteSet(updateXrc20Holders(t, b)) /\ t.xrc_holders \subseteq updateXrc20Holders(t, b)
<1> DEFINE Pairs(a) == {<<a.token.contract, a.token.from>>, <<a.token.contract, a.token.to>>}
           Old == {<<x.contract, x.holder>> : x \in t.xrc_holders}
           Row(p) == [contract |-> p[1], holder |-> p[2], height |-> b.height]
           H == Holdings(b) \ Old
<1>1. IsFiniteSet(Tokens(b))
  <2>1. Tokens(b) \subseteq b.actions
    BY DEF Tokens
  <2> QED  BY <2>1, FS_Subset
<1>2. IsFiniteSet({Pairs(a) : a \in Tokens(b)})
  <2> DEFINE f == [a \in Tokens(b) |-> Pairs(a)]
  <2>1. f \in Surjection(Tokens(b), {Pairs(a) : a \in Tokens(b)})
    BY DEF Surjection
  <2> QED  BY <1>1, <2>1, FS_Surjection
<1>3. \A X \in {Pairs(a) : a \in Tokens(b)} : IsFiniteSet(X)
  <2> SUFFICES ASSUME NEW a \in Tokens(b)  PROVE IsFiniteSet(Pairs(a))
    OBVIOUS
  <2>1. IsFiniteSet({<<a.token.contract, a.token.from>>}) /\ IsFiniteSet({<<a.token.contract, a.token.to>>})
    BY FS_Singleton
  <2>2. Pairs(a) = {<<a.token.contract, a.token.from>>} \cup {<<a.token.contract, a.token.to>>}
    OBVIOUS
  <2> HIDE DEF Pairs
  <2> QED  BY <2>1, <2>2, FS_Union
<1>4. IsFiniteSet(Holdings(b))
  <2>1. Holdings(b) = UNION {Pairs(a) : a \in Tokens(b)}
    BY DEF Holdings
  <2> HIDE DEF Pairs
  <2> QED  BY <1>2, <1>3, <2>1, FS_UNION
<1>5. IsFiniteSet(H)
  <2>1. H \subseteq Holdings(b)
    OBVIOUS
  <2> QED  BY <1>4, <2>1, FS_Subset
<1>6. IsFiniteSet({Row(p) : p \in H})
  <2> DEFINE f == [p \in H |-> Row(p)]
  <2>1. f \in Surjection(H, {Row(p) : p \in H})
    BY DEF Surjection
  <2> QED  BY <1>5, <2>1, FS_Surjection
<1>7. updateXrc20Holders(t, b) = t.xrc_holders \cup {Row(p) : p \in H}
  BY DEF updateXrc20Holders
<1> HIDE DEF Row, H
<1>8. IsFiniteSet(t.xrc_holders \cup {Row(p) : p \in H})
  BY <1>6, FS_Union
<1> QED  BY <1>7, <1>8

LEMMA PutLists ==
  ASSUME AInv, NEW b, Puts(b)
  PROVE  AInv'
<1>1. PICK n : n = height + 1
  OBVIOUS
<1>2. ChainFormed /\ ListsTell /\ TInv'
  BY PutTables DEF AInv, TInv
<1>3. height \in Nat /\ height \in 0 .. height
  BY <1>2 DEF ChainFormed
<1>4. /\ height' = n /\ n \in Nat \ {0} /\ height = n - 1
      /\ \A i \in 1 .. height : blocks'[i] = blocks[i]
      /\ \A v \in 0 .. height : T(v)' = T(v)
      /\ b.height = n
  BY <1>1, <1>2, PutFacts
<1>5. RowsTell(n)' /\ T(n)'.xrc_holders = updateXrc20Holders(T(height), b)
  BY <1>1, <1>2, <1>3, PutRows DEF ListsTell
<1>6. ASSUME NEW v \in 0 .. height  PROVE RowsTell(v)'
  <2>1. v \in Nat /\ RowsTell(v) /\ T(v)' = T(v) /\ \A i \in 1 .. v : blocks'[i] = blocks[i]
    BY <1>2, <1>3, <1>4, <1>6 DEF ListsTell
  <2> QED  BY <2>1, RowsStay
<1>7. 0 .. height' = (0 .. height) \cup {n}
  BY <1>4
<1>8. /\ IsFiniteSet(T(n)'.xrc_holders) /\ T(height).xrc_holders \subseteq T(n)'.xrc_holders
      /\ \A v \in 0 .. height : IsFiniteSet(T(v).xrc_holders)
      /\ \A v, w \in 0 .. height : v <= w => T(v).xrc_holders \subseteq T(w).xrc_holders
  <2>1. IsFiniteSet(b.actions)
    <3>1. ChainFormed' /\ n \in 1 .. height' /\ blocks'[n] = b
      <4>1. blocks'[n] = b
        BY <1>1, <1>2, PutFacts
      <4> QED  BY <1>2, <1>4, <4>1 DEF TInv
    <3>2. blocks'[n] \in Candidates[n] /\ n <= MaxHeight
      BY <1>4, <3>1, ViewsAssumption DEF ChainFormed
    <3>3. n \in 1 .. MaxHeight
      BY <1>4, <3>2, ViewsAssumption
    <3> QED  BY <3>1, <3>2, <3>3, RequestsAssumption
  <2>2. HoldersGrow
    BY <1>2 DEF ListsTell
  <2>3. IsFiniteSet(T(height).xrc_holders)
    BY <1>3, <2>2 DEF HoldersGrow
  <2>4. IsFiniteSet(updateXrc20Holders(T(height), b)) /\ T(height).xrc_holders \subseteq updateXrc20Holders(T(height), b)
    BY <2>1, <2>3, HoldersFinite
  <2> QED  BY <1>5, <2>2, <2>4 DEF HoldersGrow
<1>9. HoldersGrow'
  <2>1. ASSUME NEW v \in 0 .. height'  PROVE IsFiniteSet(T(v)'.xrc_holders)
    BY <1>4, <1>7, <1>8
  <2>2. ASSUME NEW v \in 0 .. height', NEW w \in 0 .. height', v <= w
        PROVE  T(v)'.xrc_holders \subseteq T(w)'.xrc_holders
    <3>1. CASE w \in 0 .. height
      <4>1. v \in 0 .. height
        BY <1>3, <1>4, <2>2, <3>1
      <4> QED  BY <1>4, <1>8, <2>2, <3>1, <4>1
    <3>2. CASE w = n /\ v \in 0 .. height
      <4>1. T(v).xrc_holders \subseteq T(height).xrc_holders
        BY <1>3, <1>8, <3>2
      <4> QED  BY <1>4, <1>8, <3>2, <4>1
    <3>3. CASE w = n /\ v = n
      BY <3>3
    <3> QED  BY <1>7, <3>1, <3>2, <3>3
  <2> QED  BY <2>1, <2>2 DEF HoldersGrow
<1>10. \A v \in 0 .. height' : RowsTell(v)'
  BY <1>5, <1>6, <1>7
<1> QED  BY <1>2, <1>9, <1>10 DEF AInv, ListsTell

LEMMA InitLists == Init => AInv
<1> SUFFICES ASSUME Init  PROVE AInv
  OBVIOUS
<1>1. height = 0 /\ tables = <<InitBalances(Genesis)>>
  BY DEF Init, ViewsInit
<1>2. T(0) = InitBalances(Genesis)
  BY <1>1 DEF T
<1>3. /\ T(0).action_history = {} /\ T(0).bucket_actions = {} /\ T(0).xrc_history = {}
      /\ T(0).block_history = {} /\ T(0).staking_bucket = {} /\ T(0).xrc_holders = {}
  BY <1>2 DEF InitBalances, EmptyTables
<1>4. ChainActions(0) = {} /\ Staked(0) = {} /\ WithToken(0) = {}
  BY DEF ChainActions, Staked, WithToken
<1>5. BucketRows(GetEpochNumber(0)) = {}
  BY DEF BucketRows, GetEpochNumber
<1>6. RowsTell(0)
  BY <1>3, <1>4, <1>5 DEF RowsTell
<1>7. 0 .. height = {0}
  BY <1>1
<1>8. HoldersGrow
  <2>1. IsFiniteSet(T(0).xrc_holders)
    BY <1>3, FS_EmptySet
  <2> QED  BY <1>7, <2>1 DEF HoldersGrow
<1> QED  BY <1>6, <1>7, <1>8, InitTables DEF AInv, ListsTell

LEMMA SameLists == AInv /\ UNCHANGED <<height, blocks, tables>> => AInv'
<1> SUFFICES ASSUME AInv, UNCHANGED <<height, blocks, tables>>  PROVE AInv'
  OBVIOUS
<1>1. height' = height /\ blocks' = blocks /\ tables' = tables
  OBVIOUS
<1>2. TInv' /\ ListsTell
  BY SameTables DEF AInv
<1>3. \A v : T(v)' = T(v)
  BY <1>1 DEF T
<1>4. height \in Nat
  BY DEF AInv, TInv, ChainFormed
<1>5. \A v \in 0 .. height : RowsTell(v)'
  <2> SUFFICES ASSUME NEW v \in 0 .. height  PROVE RowsTell(v)'
    OBVIOUS
  <2>1. v \in Nat /\ RowsTell(v) /\ T(v)' = T(v) /\ \A i \in 1 .. v : blocks'[i] = blocks[i]
    BY <1>1, <1>2, <1>3, <1>4 DEF ListsTell
  <2> QED  BY <2>1, RowsStay
<1>6. HoldersGrow'
  BY <1>1, <1>2, <1>3 DEF ListsTell, HoldersGrow
<1> QED  BY <1>1, <1>2, <1>5, <1>6 DEF AInv, ListsTell

(* The rows of actions, of staking, of transfers of tokens and of holders  *)
(* that PutBlock writes are those of the blocks up to there, at every      *)
(* height: what a list is read from, whichever block it is read as of.     *)
THEOREM ListsInvariant == Spec => []AInv
<1>1. AInv /\ [Next]_vars => AInv'
  BY PutBlockPuts, PutLists, SameLists, IndexSteps
<1> QED  BY <1>1, InitLists, PTL DEF Spec

(* The roots there are, and the fields of those that have any.             *)
RootNames ==
  {"account", "chain", "delegate", "voting", "hermes", "hermesAverageStats", "xrc20", "xrc721", "action",
   "topHolders", "hermes2", "bucketsByVoter", "bucketsByCandidate"}

ChainNames == {"votingResultMeta", "mostRecentTPS", "numberOfActions", "totalTransferredTokens"}

NamesOf(root) ==
  CASE root = "account" -> {"activeAccounts", "alias", "operatorAddress", "totalNumberOfHolders", "totalAccountSupply"}
    [] root = "chain" -> ChainNames \cup Supplies \cup Tips
    [] root = "delegate" -> {"reward", "productivity", "bookkeeping", "bucketInfo", "staking", "probationHistoricalRate"}
    [] root = "voting" -> {"candidateInfo", "votingMeta", "rewardSources"}
    [] root = "xrc20" -> {"byContractAddress", "byAddress", "byPage", "xrc20Addresses", "tokenHolderAddresses",
                          "byContractAndAddress"}
    [] root = "action" -> {"byDates", "byHash", "byAddress", "byAddressAndType", "byBucketIndex",
                           "evmTransfersByAddress", "byType", "byVoter"}
    [] root = "hermes2" -> {"byDelegate", "byVoter", "hermesMeta"}

LEMMA QueryNames == DOMAIN FieldsOf["Query"] = RootNames
<1>1. FieldsOf["Query"] = QueryType
  BY DEF FieldsOf
<1>2. DOMAIN QueryType = RootNames
  BY DEF QueryType, RootNames
<1> QED  BY <1>1, <1>2

LEMMA TypesOfRoots ==
  /\ FieldsOf["Query"]["account"].type = "Account" /\ FieldsOf["Query"]["chain"].type = "Chain"
  /\ FieldsOf["Query"]["delegate"].type = "Delegate" /\ FieldsOf["Query"]["voting"].type = "Voting"
  /\ FieldsOf["Query"]["xrc20"].type = "Xrc20" /\ FieldsOf["Query"]["action"].type = "Action"
  /\ FieldsOf["Query"]["hermes2"].type = "Hermes2"
<1>1. FieldsOf["Query"] = QueryType
  BY DEF FieldsOf
<1>2. /\ QueryType["account"] = Null("Account", NoArgs) /\ QueryType["chain"] = Null("Chain", NoArgs)
      /\ QueryType["voting"] = Null("Voting", Epochs)
      /\ QueryType["xrc20"] = Null("Xrc20", NoArgs) /\ QueryType["action"] = Null("Action", NoArgs)
      /\ QueryType["hermes2"] = Null("Hermes2", Epochs)
      /\ QueryType["delegate"] = Null("Delegate", Joined(Epochs, [delegateName |-> Must("String")]))
  BY DEF QueryType
<1> QED  BY <1>1, <1>2 DEF Null

LEMMA NamesOfFields ==
  /\ DOMAIN FieldsOf["Account"] = NamesOf("account") /\ DOMAIN FieldsOf["Chain"] = NamesOf("chain")
  /\ DOMAIN FieldsOf["Delegate"] = NamesOf("delegate") /\ DOMAIN FieldsOf["Voting"] = NamesOf("voting")
  /\ DOMAIN FieldsOf["Xrc20"] = NamesOf("xrc20") /\ DOMAIN FieldsOf["Action"] = NamesOf("action")
  /\ DOMAIN FieldsOf["Hermes2"] = NamesOf("hermes2")
<1>1. /\ FieldsOf["Account"] = AccountType /\ FieldsOf["Chain"] = ChainType
      /\ FieldsOf["Delegate"] = DelegateType /\ FieldsOf["Voting"] = VotingType
      /\ FieldsOf["Xrc20"] = Xrc20Type /\ FieldsOf["Action"] = ActionType
      /\ FieldsOf["Hermes2"] = Hermes2Type
  BY DEF FieldsOf
<1>2. DOMAIN AccountType = NamesOf("account")
  BY DEF AccountType, NamesOf
<1>3. DOMAIN DelegateType = NamesOf("delegate")
  BY DEF DelegateType, NamesOf
<1>4. DOMAIN VotingType = NamesOf("voting")
  BY DEF VotingType, NamesOf
<1>5. DOMAIN Xrc20Type = NamesOf("xrc20")
  BY DEF Xrc20Type, NamesOf
<1>6. DOMAIN ActionType = NamesOf("action")
  BY DEF ActionType, NamesOf
<1>7. DOMAIN Hermes2Type = NamesOf("hermes2")
  BY DEF Hermes2Type, NamesOf
<1>8. DOMAIN ChainType = NamesOf("chain")
  BY DEF ChainType, NamesOf, ChainNames, Supplies, Tips
<1> QED  BY <1>1, <1>2, <1>3, <1>4, <1>5, <1>6, <1>7, <1>8

-------------------------------------------------------------------------------
(* Lists, and how many there are.                                          *)

(* The actions of a chain are finitely many, and a row tells which it is.  *)
LEMMA ChainFinite ==
  ASSUME ChainFormed, NEW v \in 0 .. height
  PROVE  /\ IsFiniteSet(ChainActions(v))
         /\ \A p \in ChainActions(v) : p[1] \in 1 .. v /\ p[2] \in blocks[p[1]].actions /\ p = <<p[1], p[2]>>
<1> DEFINE Of(i) == {<<i, x>> : x \in blocks[i].actions}
<1>0. v \in Nat /\ height \in Nat /\ v <= height
  BY DEF ChainFormed
<1>1. ASSUME NEW i \in 1 .. v  PROVE IsFiniteSet(Of(i))
  <2>1. IsFiniteSet(blocks[i].actions)
    BY <1>0, BlockFacts
  <2> DEFINE f == [x \in blocks[i].actions |-> <<i, x>>]
  <2>2. f \in Surjection(blocks[i].actions, Of(i))
    BY DEF Surjection
  <2> QED  BY <2>1, <2>2, FS_Surjection
<1>2. IsFiniteSet({Of(i) : i \in 1 .. v})
  <2> DEFINE f == [i \in 1 .. v |-> Of(i)]
  <2>1. f \in Surjection(1 .. v, {Of(i) : i \in 1 .. v})
    BY DEF Surjection
  <2>2. IsFiniteSet(1 .. v)
    BY <1>0, FS_Interval
  <2> QED  BY <2>1, <2>2, FS_Surjection
<1>3. ChainActions(v) = UNION {Of(i) : i \in 1 .. v}
  BY DEF ChainActions
<1>4. IsFiniteSet(UNION {Of(i) : i \in 1 .. v})
  <2>1. \A X \in {Of(i) : i \in 1 .. v} : IsFiniteSet(X)
    BY <1>1
  <2> HIDE DEF Of
  <2> QED  BY <1>2, <2>1, FS_UNION
<1>5. ASSUME NEW p \in ChainActions(v)
      PROVE  p[1] \in 1 .. v /\ p[2] \in blocks[p[1]].actions /\ p = <<p[1], p[2]>>
  <2>1. PICK i \in 1 .. v : \E x \in blocks[i].actions : p = <<i, x>>
    BY DEF ChainActions
  <2>2. PICK x \in blocks[i].actions : p = <<i, x>>
    BY <2>1
  <2>3. p[1] = i /\ p[2] = x
    BY <2>2
  <2> QED  BY <2>2, <2>3
<1> QED  BY <1>3, <1>4, <1>5

(* As many rows as what they are of, if each tells which it is of.         *)
LEMMA CountRows ==
  ASSUME NEW S, IsFiniteSet(S), NEW r, \A p, q \in S : r[p] = r[q] => p = q
  PROVE  IsFiniteSet({r[p] : p \in S}) /\ Cardinality({r[p] : p \in S}) = Cardinality(S)
<1> DEFINE R == {r[p] : p \in S}
           f == [p \in S |-> r[p]]
<1>1. f \in Bijection(S, R)
  <2>1. f \in [S -> R] /\ \A p \in S : f[p] = r[p]
    OBVIOUS
  <2>2. \A y \in R : \E p \in S : f[p] = y
    OBVIOUS
  <2> HIDE DEF f, R
  <2> QED  BY <2>1, <2>2 DEF Bijection, Injection, IsInjective, Surjection
<1> HIDE DEF f, R
<1>2. IsFiniteSet(R) /\ Cardinality(R) = Cardinality(S)
  BY <1>1, FS_Bijection DEF ExistsBijection
<1> QED  BY <1>2 DEF R

(* The rows of a set of actions, with and without a page's columns.        *)
LEMMA RowsOf ==
  ASSUME ChainFormed, NEW v \in 0 .. height, NEW S, S \subseteq ChainActions(v)
  PROVE  /\ IsFiniteSet(S)
         /\ Cardinality({ActionRow(p) : p \in S}) = Cardinality(S)
         /\ Cardinality({StakeRow(p) : p \in S}) = Cardinality(S)
         /\ Cardinality({TokenRow(p) : p \in S}) = Cardinality(S)
<1>1. IsFiniteSet(S)
  BY ChainFinite, FS_Subset
<1>2. \A p \in S : p = <<p[1], p[2]>>
  BY ChainFinite
<1>3. \A p \in S : ActionRow(p).hash = p /\ StakeRow(p).hash = p /\ TokenRow(p).hash = p
  BY <1>2 DEF ActionRow, StakeRow, TokenRow
<1>4. Cardinality({ActionRow(p) : p \in S}) = Cardinality(S)
  <2> DEFINE r == [p \in S |-> ActionRow(p)]
  <2>1. \A p, q \in S : r[p] = r[q] => p = q
    BY <1>3
  <2>2. {ActionRow(p) : p \in S} = {r[p] : p \in S}
    OBVIOUS
  <2> HIDE DEF r
  <2>3. Cardinality({r[p] : p \in S}) = Cardinality(S)
    BY <1>1, <2>1, CountRows
  <2> QED  BY <2>2, <2>3
<1>5. Cardinality({StakeRow(p) : p \in S}) = Cardinality(S)
  <2> DEFINE r == [p \in S |-> StakeRow(p)]
  <2>1. \A p, q \in S : r[p] = r[q] => p = q
    BY <1>3
  <2>2. {StakeRow(p) : p \in S} = {r[p] : p \in S}
    OBVIOUS
  <2> HIDE DEF r
  <2>3. Cardinality({r[p] : p \in S}) = Cardinality(S)
    BY <1>1, <2>1, CountRows
  <2> QED  BY <2>2, <2>3
<1>6. Cardinality({TokenRow(p) : p \in S}) = Cardinality(S)
  <2> DEFINE r == [p \in S |-> TokenRow(p)]
  <2>1. \A p, q \in S : r[p] = r[q] => p = q
    BY <1>3
  <2>2. {TokenRow(p) : p \in S} = {r[p] : p \in S}
    OBVIOUS
  <2> HIDE DEF r
  <2>3. Cardinality({r[p] : p \in S}) = Cardinality(S)
    BY <1>1, <2>1, CountRows
  <2> QED  BY <2>2, <2>3
<1> QED  BY <1>1, <1>4, <1>5, <1>6

(* The rows of a list, what is counted, and the row of an action.          *)
ActionList(a, t) ==
  CASE a.field = "byType" -> GetActionsByType(t, a.args.type)
    [] a.field = "byAddress" -> GetActionsByAddress(t, a.args.address)
    [] a.field = "byAddressAndType" -> GetActionsByAddressAndType(t, <<a.args.address, a.args.type>>)
    [] a.field = "byBucketIndex" -> GetActionsByBucketIndex(t, a.args.bucketIndex)
    [] a.field = "byVoter" -> GetBucketActionsByVoter(t, a.args.voter)

ActionCount(a, t) ==
  CASE a.field = "byType" -> GetActionCountByType(t, a.args.type)
    [] a.field = "byAddress" -> GetActionCountByAddress(t, a.args.address)
    [] a.field = "byAddressAndType" -> GetActionCountByAddressAndType(t, <<a.args.address, a.args.type>>)
    [] a.field = "byBucketIndex" -> GetActionCountByBucketIndex(t, a.args.bucketIndex)
    [] a.field = "byVoter" -> GetBucketActionCountByVoter(t, a.args.voter)

TokenList(a, t) ==
  CASE a.field = "byContractAddress" -> GetXrc20(t, a.args.address)
    [] a.field = "byAddress" -> GetXrc20ByAddress(t, a.args.address)
    [] a.field = "byContractAndAddress" -> GetXrc20ByContractAndAddress(t, <<a.args.contract, a.args.address>>)
    [] a.field = "byPage" -> GetXrc20ByPage(t)
    [] a.field = "tokenHolderAddresses" -> GetXrc20Holders(t, a.args.tokenAddress)

TokenCount(a, t) ==
  CASE a.field = "byContractAddress" -> GetXrc20TransactionCount(t, a.args.address)
    [] a.field = "byAddress" -> GetXrc20HistoryCount(t, a.args.address)
    [] a.field = "byContractAndAddress" -> GetXrc20HistoryByContractCount(t, <<a.args.contract, a.args.address>>)
    [] a.field = "byPage" -> GetXrc20Count(t)
    [] a.field = "tokenHolderAddresses" -> GetXrc20HolderCount(t, a.args.tokenAddress)

ListOf(a, t) == IF a.of = "action" THEN ActionList(a, t) ELSE TokenList(a, t)
CountOf(a, t) == IF a.of = "action" THEN ActionCount(a, t) ELSE TokenCount(a, t)
RowOf(a, p) == IF a.of = "action" THEN ActionRow(p) ELSE TokenRow(p)

(* That a list and its count tell of just what is expected.                *)
ListAgrees(a, v) ==
  /\ IsFiniteSet(Expected(a, v))
  /\ ListOf(a, T(v)) = {RowOf(a, p) : p \in Expected(a, v)}
  /\ CountOf(a, T(v)) = Cardinality(Expected(a, v))

ActionFields == {"byType", "byAddress", "byAddressAndType", "byBucketIndex", "byVoter"}
TokenFields == {"byContractAddress", "byAddress", "byContractAndAddress", "byPage"}

LEMMA TokensAgree ==
  ASSUME AInv, NEW v \in 0 .. height, NEW a, a.of = "xrc20", a.field \in TokenFields
  PROVE  ListAgrees(a, v)
<1> DEFINE E == Expected(a, v)
           W == WithToken(v)
<1>1. ChainFormed /\ RowsTell(v)
  BY DEF AInv, TInv, ListsTell
<1>2. T(v).xrc_history = {TokenRow(p) : p \in W}
  BY <1>1 DEF RowsTell
<1>3. E = {p \in W : AboutToken(a, p[2].token)} /\ E \subseteq ChainActions(v)
  BY DEF Expected, WithToken
<1>4. \A p : /\ TokenRow(p).contract = p[2].token.contract /\ TokenRow(p).from = p[2].token.from
             /\ TokenRow(p).to = p[2].token.to
  BY DEF TokenRow
<1>5. IsFiniteSet(E) /\ Cardinality({TokenRow(p) : p \in E}) = Cardinality(E)
  BY <1>1, <1>3, RowsOf
<1>6. ListOf(a, T(v)) = TokenList(a, T(v)) /\ CountOf(a, T(v)) = TokenCount(a, T(v))
      /\ {RowOf(a, p) : p \in E} = {TokenRow(p) : p \in E}
  BY DEF ListOf, CountOf, RowOf
<1>7. TokenList(a, T(v)) = {TokenRow(p) : p \in E} /\ TokenCount(a, T(v)) = Cardinality(TokenList(a, T(v)))
  <2>1. CASE a.field = "byContractAddress"
    <3>1. E = {p \in W : p[2].token.contract = a.args.address}
      BY <1>3, <2>1 DEF AboutToken
    <3>2. /\ TokenList(a, T(v)) = {x \in T(v).xrc_history : x.contract = a.args.address}
          /\ TokenCount(a, T(v)) = Cardinality({x \in T(v).xrc_history : x.contract = a.args.address})
      BY <2>1 DEF TokenList, TokenCount, GetXrc20, GetXrc20TransactionCount
    <3> HIDE DEF E, W
    <3> QED  BY <1>2, <1>4, <3>1, <3>2
  <2>2. CASE a.field = "byAddress"
    <3>1. E = {p \in W : a.args.address \in {p[2].token.from, p[2].token.to}}
      BY <1>3, <2>2 DEF AboutToken, Involves
    <3>2. /\ TokenList(a, T(v)) = {x \in T(v).xrc_history : a.args.address \in {x.from, x.to}}
          /\ TokenCount(a, T(v)) = Cardinality(TokenList(a, T(v)))
      BY <2>2 DEF TokenList, TokenCount, GetXrc20ByAddress, GetXrc20HistoryCount
    <3> HIDE DEF E, W
    <3>3. {x \in T(v).xrc_history : a.args.address \in {x.from, x.to}} = {TokenRow(p) : p \in E}
      <4>1. \A p \in W : TokenRow(p) \in T(v).xrc_history
                          /\ (p \in E <=> a.args.address \in {TokenRow(p).from, TokenRow(p).to})
        BY <1>2, <1>4, <3>1
      <4>2. \A x \in T(v).xrc_history : \E p \in W : x = TokenRow(p)
        BY <1>2
      <4>3. E \subseteq W
        BY <3>1
      <4> QED  BY <4>1, <4>2, <4>3
    <3> QED  BY <3>2, <3>3
  <2>3. CASE a.field = "byContractAndAddress"
    <3>1. E = {p \in W : p[2].token.contract = a.args.contract /\ a.args.address \in {p[2].token.from, p[2].token.to}}
      BY <1>3, <2>3 DEF AboutToken, Involves
    <3>2. /\ TokenList(a, T(v)) =
               {x \in T(v).xrc_history : x.contract = a.args.contract /\ a.args.address \in {x.from, x.to}}
          /\ TokenCount(a, T(v)) = Cardinality(TokenList(a, T(v)))
      BY <2>3 DEF TokenList, TokenCount, GetXrc20ByContractAndAddress, GetXrc20HistoryByContractCount
    <3> HIDE DEF E, W
    <3>3. {x \in T(v).xrc_history : x.contract = a.args.contract /\ a.args.address \in {x.from, x.to}}
            = {TokenRow(p) : p \in E}
      <4> DEFINE Is(x) == x.contract = a.args.contract /\ a.args.address \in {x.from, x.to}
      <4>1. \A p : Is(TokenRow(p)) <=> Is(p[2].token)
        BY <1>4
      <4>2. E = {p \in W : Is(p[2].token)}
        BY <3>1
      <4> HIDE DEF Is
      <4>3. {x \in T(v).xrc_history : Is(x)} = {TokenRow(p) : p \in E}
        BY <1>2, <4>1, <4>2
      <4> QED  BY <4>3 DEF Is
    <3> QED  BY <3>2, <3>3
  <2>4. CASE a.field = "byPage"
    <3>1. E = W
      BY <1>3, <2>4 DEF AboutToken
    <3>2. TokenList(a, T(v)) = T(v).xrc_history /\ TokenCount(a, T(v)) = Cardinality(T(v).xrc_history)
      BY <2>4 DEF TokenList, TokenCount, GetXrc20ByPage, GetXrc20Count
    <3> HIDE DEF E, W
    <3> QED  BY <1>2, <3>1, <3>2
  <2> QED  BY <2>1, <2>2, <2>3, <2>4 DEF TokenFields
<1> QED  BY <1>5, <1>6, <1>7 DEF ListAgrees

(* The buckets a voter has.                                                *)
LEMMA OwnersAgree ==
  ASSUME ChainFormed, NEW v \in 0 .. height, RowsTell(v), NEW owner
  PROVE  BucketsOfVoter(T(v), owner) = OwnedAt(v, owner) /\ NoBucket \notin OwnedAt(v, owner)
<1> DEFINE last == GetEpochNumber(v)
           S == T(v).staking_bucket
<1>1. last \in Nat /\ 1 .. last \subseteq 1 .. GetEpochNumber(MaxHeight)
  <2>1. v \in 0 .. MaxHeight
    BY ViewsAssumption DEF ChainFormed
  <2> QED  BY <2>1, EpochsInReach
<1>2. S = BucketRows(last)
  BY DEF RowsTell
<1>3. \A b, k : BucketRow(b, k).index = b.index /\ BucketRow(b, k).owner = b.owner /\ BucketRow(b, k).id = k
  BY DEF BucketRow
<1>4. ASSUME NEW k \in 1 .. last  PROVE FirstSeenIn(k) = SeenBy(k) \ SeenBy(k - 1)
  <2>1. SeenBy(k) = SeenBy(k - 1) \cup Buckets[k]
    <3>1. 1 .. k = (1 .. k - 1) \cup {k}
      BY <1>1
    <3> QED  BY <3>1 DEF SeenBy
  <2> QED  BY <2>1 DEF FirstSeenIn
<1>5. ASSUME NEW k \in 1 .. last, NEW d \in SeenBy(last)
      PROVE  d \in SeenBy(k) <=> \A j \in 1 .. last : d \in FirstSeenIn(j) => j <= k
  <2>1. ASSUME d \in SeenBy(k), NEW j \in 1 .. last, d \in FirstSeenIn(j)  PROVE j <= k
    <3>1. d \notin SeenBy(j - 1)
      BY <2>1 DEF FirstSeenIn
    <3>2. PICK i \in 1 .. k : d \in Buckets[i]
      BY <2>1 DEF SeenBy
    <3>3. i \notin 1 .. j - 1
      BY <3>1, <3>2 DEF SeenBy
    <3> QED  BY <1>1, <3>3
  <2>2. ASSUME \A j \in 1 .. last : d \in FirstSeenIn(j) => j <= k  PROVE d \in SeenBy(k)
    <3>1. PICK j \in 1 .. last : d \in FirstSeenIn(j)
      BY <1>1, FirstSeen
    <3>2. j <= k /\ d \in Buckets[j]
      BY <2>2, <3>1 DEF FirstSeenIn
    <3>3. j \in 1 .. k
      BY <1>1, <3>2
    <3> QED  BY <3>2, <3>3 DEF SeenBy
  <2> QED  BY <2>1, <2>2
<1>6. \A k \in 1 .. last : FirstSeenIn(k) \subseteq SeenBy(last)
  BY DEF FirstSeenIn, SeenBy
<1>7. \A x : x \in S <=> \E k \in 1 .. last : \E b \in FirstSeenIn(k) : x = BucketRow(b, k)
  BY <1>2 DEF BucketRows
<1>8. ASSUME NEW i
      PROVE  i \in BucketsOfVoter(T(v), owner) <=>
               \E k \in 1 .. last : \E b \in FirstSeenIn(k) :
                 /\ b.index = i /\ b.owner = owner
                 /\ \A j \in 1 .. last : \A d \in FirstSeenIn(j) : d.index = i => j <= k
  <2>1. i \in BucketsOfVoter(T(v), owner) <=>
          \E x \in S : x.index = i /\ x.owner = owner /\ \A y \in S : y.index = i => y.id <= x.id
    <3> HIDE DEF last
    <3> QED  BY DEF BucketsOfVoter, Current
  <2> HIDE DEF S, last
  <2>2. ASSUME NEW x \in S, x.index = i, x.owner = owner, \A y \in S : y.index = i => y.id <= x.id
        PROVE  \E k \in 1 .. last : \E b \in FirstSeenIn(k) :
                 /\ b.index = i /\ b.owner = owner
                 /\ \A j \in 1 .. last : \A d \in FirstSeenIn(j) : d.index = i => j <= k
    <3>1. PICK k \in 1 .. last : \E b \in FirstSeenIn(k) : x = BucketRow(b, k)
      BY <1>7
    <3>2. PICK b \in FirstSeenIn(k) : x = BucketRow(b, k)
      BY <3>1
    <3>3. b.index = i /\ b.owner = owner /\ x.id = k
      BY <1>3, <2>2, <3>2
    <3>4. ASSUME NEW j \in 1 .. last, NEW d \in FirstSeenIn(j), d.index = i  PROVE j <= k
      <4>1. BucketRow(d, j) \in S /\ BucketRow(d, j).index = i /\ BucketRow(d, j).id = j
        BY <1>3, <1>7, <3>4
      <4> QED  BY <2>2, <3>3, <4>1
    <3> QED  BY <3>3, <3>4
  <2>3. ASSUME NEW k \in 1 .. last, NEW b \in FirstSeenIn(k), b.index = i, b.owner = owner,
               \A j \in 1 .. last : \A d \in FirstSeenIn(j) : d.index = i => j <= k
        PROVE  \E x \in S : x.index = i /\ x.owner = owner /\ \A y \in S : y.index = i => y.id <= x.id
    <3>1. BucketRow(b, k) \in S /\ BucketRow(b, k).index = i /\ BucketRow(b, k).owner = owner /\ BucketRow(b, k).id = k
      BY <1>3, <1>7, <2>3
    <3>2. ASSUME NEW y \in S, y.index = i  PROVE y.id <= k
      <4>1. PICK j \in 1 .. last : \E d \in FirstSeenIn(j) : y = BucketRow(d, j)
        BY <1>7
      <4>2. PICK d \in FirstSeenIn(j) : y = BucketRow(d, j)
        BY <4>1
      <4> QED  BY <1>3, <2>3, <3>2, <4>2
    <3> QED  BY <3>1, <3>2
  <2> QED  BY <2>1, <2>2, <2>3
<1>9. ASSUME NEW i
      PROVE  i \in OwnedAt(v, owner) <=>
               \E k \in 1 .. last : \E b \in FirstSeenIn(k) :
                 /\ b.index = i /\ b.owner = owner
                 /\ \A j \in 1 .. last : \A d \in FirstSeenIn(j) : d.index = i => j <= k
  <2>1. i \in OwnedAt(v, owner) <=>
          \E b \in SeenBy(last) :
            /\ b.index = i /\ b.owner = owner
            /\ \E k \in 1 .. last : /\ b \in SeenBy(k) \ SeenBy(k - 1)
                                    /\ \A d \in SeenBy(last) : d.index = b.index => d \in SeenBy(k)
    <3> HIDE DEF last
    <3> QED  BY DEF OwnedAt, last
  <2>2. ASSUME NEW k \in 1 .. last
        PROVE  (\A d \in SeenBy(last) : d.index = i => d \in SeenBy(k))
                 <=> (\A j \in 1 .. last : \A d \in FirstSeenIn(j) : d.index = i => j <= k)
    <3> HIDE DEF last
    <3> QED  BY <1>5, <1>6
  <2> HIDE DEF last
  <2> QED  BY <1>4, <1>6, <2>1, <2>2
<1>10. NoBucket \notin OwnedAt(v, owner)
  <2> SUFFICES ASSUME NoBucket \in OwnedAt(v, owner)  PROVE FALSE
    OBVIOUS
  <2>1. PICK k \in 1 .. last : \E b \in FirstSeenIn(k) : b.index = NoBucket
    BY <1>9
  <2>2. PICK b \in Buckets[k] : b.index = NoBucket
    BY <2>1 DEF FirstSeenIn
  <2>3. k \in 1 .. GetEpochNumber(MaxHeight)
    BY <1>1
  <2> QED  BY <2>2, <2>3, BucketFacts
<1> HIDE DEF last
<1> QED  BY <1>8, <1>9, <1>10

LEMMA ActionsAgree ==
  ASSUME AInv, NEW v \in 0 .. height, NEW a, a.of = "action", a.field \in ActionFields,
         a.field = "byBucketIndex" => a.args.bucketIndex # NoBucket
  PROVE  ListAgrees(a, v)
<1> DEFINE E == Expected(a, v)
           C == ChainActions(v)
           S == Staked(v)
           history == T(v).action_history
           stakes == T(v).bucket_actions
<1>1. ChainFormed /\ RowsTell(v)
  BY DEF AInv, TInv, ListsTell
<1>2. history = {ActionRow(p) : p \in C} /\ stakes = {StakeRow(p) : p \in S}
  BY <1>1 DEF RowsTell
<1>3. E = {p \in C : AboutAction(a, p[2], v)} /\ E \subseteq C
  BY DEF Expected
<1>4. \A p : ActionRow(p).type = p[2].type /\ ActionRow(p).from = p[2].from /\ ActionRow(p).to = p[2].to
  BY DEF ActionRow
<1>5. /\ IsFiniteSet(E) /\ Cardinality({ActionRow(p) : p \in E}) = Cardinality(E)
      /\ Cardinality({StakeRow(p) : p \in E}) = Cardinality(E)
  BY <1>1, <1>3, RowsOf
<1>6. /\ ListOf(a, T(v)) = ActionList(a, T(v)) /\ CountOf(a, T(v)) = ActionCount(a, T(v))
      /\ {RowOf(a, p) : p \in E} = {ActionRow(p) : p \in E}
  BY DEF ListOf, CountOf, RowOf
<1>7. \A p \in C : p = <<p[1], p[2]>>
  BY <1>1, ChainFinite
<1>8. \A p \in C : ActionRow(p).hash = p /\ StakeRow(p).hash = p /\ StakeRow(p).bucket = p[2].bucket
  BY <1>7 DEF ActionRow, StakeRow
<1>9. S = {p \in C : p[2].bucket # NoBucket}
  BY DEF Staked
<1>10. ActionList(a, T(v)) = {ActionRow(p) : p \in E} /\ ActionCount(a, T(v)) = Cardinality(E)
  <2>1. CASE a.field = "byType"
    <3>1. E = {p \in C : p[2].type = a.args.type}
      BY <1>3, <2>1 DEF AboutAction
    <3>2. /\ ActionList(a, T(v)) = {x \in history : x.type = a.args.type}
          /\ ActionCount(a, T(v)) = Cardinality(ActionList(a, T(v)))
      BY <2>1 DEF ActionList, ActionCount, GetActionsByType, GetActionCountByType
    <3> HIDE DEF E, C, history
    <3>3. {x \in history : x.type = a.args.type} = {ActionRow(p) : p \in E}
      BY <1>2, <1>4, <3>1
    <3> QED  BY <1>5, <3>2, <3>3
  <2>2. CASE a.field = "byAddress"
    <3> DEFINE Is(x) == x.from = a.args.address \/ x.to = a.args.address
    <3>1. E = {p \in C : Is(p[2])}
      BY <1>3, <2>2 DEF AboutAction, Involves
    <3>2. ActionList(a, T(v)) = {x \in history : Is(x)} /\ ActionCount(a, T(v)) = Cardinality(ActionList(a, T(v)))
      BY <2>2 DEF ActionList, ActionCount, GetActionsByAddress, GetActionCountByAddress
    <3>3. \A p : Is(ActionRow(p)) <=> Is(p[2])
      BY <1>4
    <3> HIDE DEF E, C, history, Is
    <3>4. {x \in history : Is(x)} = {ActionRow(p) : p \in E}
      BY <1>2, <3>1, <3>3
    <3> QED  BY <1>5, <3>2, <3>4
  <2>3. CASE a.field = "byAddressAndType"
    <3> DEFINE Is(x) == (x.from = a.args.address \/ x.to = a.args.address) /\ x.type = a.args.type
    <3>1. E = {p \in C : Is(p[2])}
      BY <1>3, <2>3 DEF AboutAction, Involves
    <3>2. ActionList(a, T(v)) = {x \in history : Is(x)} /\ ActionCount(a, T(v)) = Cardinality(ActionList(a, T(v)))
      BY <2>3 DEF ActionList, ActionCount, GetActionsByAddressAndType, GetActionCountByAddressAndType
    <3>3. \A p : Is(ActionRow(p)) <=> Is(p[2])
      BY <1>4
    <3> HIDE DEF E, C, history, Is
    <3>4. {x \in history : Is(x)} = {ActionRow(p) : p \in E}
      BY <1>2, <3>1, <3>3
    <3> QED  BY <1>5, <3>2, <3>4
  <2>4. CASE a.field = "byBucketIndex"
    <3> DEFINE i == a.args.bucketIndex
    <3>0. i # NoBucket
      BY <2>4
    <3>1. E = {p \in C : p[2].bucket = i}
      BY <1>3, <2>4 DEF AboutAction
    <3>2. /\ ActionList(a, T(v)) = {x \in history : \E y \in stakes : y.bucket = i /\ y.hash = x.hash}
          /\ ActionCount(a, T(v)) = Cardinality({x \in stakes : x.bucket = i})
      BY <2>4 DEF ActionList, ActionCount, GetActionsByBucketIndex, GetActionCountByBucketIndex
    <3> HIDE DEF E, C, S, history, stakes, i
    <3>3. E = {p \in S : p[2].bucket = i} /\ S \subseteq C
      BY <1>9, <3>0, <3>1
    <3>4. {x \in stakes : x.bucket = i} = {StakeRow(p) : p \in E}
      BY <1>2, <1>8, <3>3
    <3>5. ASSUME NEW p \in C  PROVE (\E y \in stakes : y.bucket = i /\ y.hash = ActionRow(p).hash) <=> p \in E
      <4>1. ASSUME NEW y \in stakes, y.bucket = i, y.hash = ActionRow(p).hash  PROVE p \in E
        <5>1. PICK q \in S : y = StakeRow(q)
          BY <1>2, <4>1
        <5>2. q \in C /\ y.hash = q /\ y.bucket = q[2].bucket
          BY <1>8, <3>3, <5>1
        <5>3. q = p
          BY <1>8, <4>1, <5>2
        <5> QED  BY <3>1, <4>1, <5>2, <5>3
      <4>2. ASSUME p \in E  PROVE \E y \in stakes : y.bucket = i /\ y.hash = ActionRow(p).hash
        <5>1. StakeRow(p) \in {x \in stakes : x.bucket = i}
          BY <3>4, <4>2
        <5> QED  BY <1>8, <5>1
      <4> QED  BY <4>1, <4>2
    <3>6. {x \in history : \E y \in stakes : y.bucket = i /\ y.hash = x.hash} = {ActionRow(p) : p \in E}
      <4> DEFINE Is(x) == \E y \in stakes : y.bucket = i /\ y.hash = x.hash
      <4>1. \A p \in C : Is(ActionRow(p)) <=> p \in E
        BY <3>5
      <4> HIDE DEF Is
      <4>2. {x \in history : Is(x)} = {ActionRow(p) : p \in E}
        BY <1>2, <1>3, <4>1
      <4> QED  BY <4>2 DEF Is
    <3> QED  BY <1>5, <3>2, <3>4, <3>6
  <2>5. CASE a.field = "byVoter"
    <3> DEFINE O == OwnedAt(v, a.args.voter)
               hashes == {x.hash : x \in {y \in stakes : y.bucket \in O}}
    <3>0. BucketsOfVoter(T(v), a.args.voter) = O /\ NoBucket \notin O
      BY <1>1, OwnersAgree
    <3>1. E = {p \in C : p[2].bucket \in O}
      BY <1>3, <2>5 DEF AboutAction
    <3>2. /\ ActionList(a, T(v)) = {x \in history : x.hash \in hashes}
          /\ ActionCount(a, T(v)) = Cardinality({x \in stakes : x.bucket \in O})
      BY <2>5, <3>0 DEF ActionList, ActionCount, GetBucketActionsByVoter, GetBucketActionCountByVoter
    <3>3. \A h : h \in hashes <=> \E y \in stakes : y.bucket \in O /\ y.hash = h
      OBVIOUS
    <3> HIDE DEF E, C, S, history, stakes, O, hashes
    <3>4. E = {p \in S : p[2].bucket \in O} /\ S \subseteq C
      BY <1>9, <3>0, <3>1
    <3>5. {x \in stakes : x.bucket \in O} = {StakeRow(p) : p \in E}
      BY <1>2, <1>8, <3>4
    <3>6. ASSUME NEW p \in C  PROVE ActionRow(p).hash \in hashes <=> p \in E
      <4>1. ASSUME NEW y \in stakes, y.bucket \in O, y.hash = ActionRow(p).hash  PROVE p \in E
        <5>1. PICK q \in S : y = StakeRow(q)
          BY <1>2, <4>1
        <5>2. q \in C /\ y.hash = q /\ y.bucket = q[2].bucket
          BY <1>8, <3>4, <5>1
        <5>3. q = p
          BY <1>8, <4>1, <5>2
        <5> QED  BY <3>1, <4>1, <5>2, <5>3
      <4>2. ASSUME p \in E  PROVE \E y \in stakes : y.bucket \in O /\ y.hash = ActionRow(p).hash
        <5>1. StakeRow(p) \in {x \in stakes : x.bucket \in O}
          BY <3>5, <4>2
        <5> QED  BY <1>8, <5>1
      <4> QED  BY <3>3, <4>1, <4>2
    <3>7. {x \in history : x.hash \in hashes} = {ActionRow(p) : p \in E}
      BY <1>2, <1>3, <3>6
    <3> QED  BY <1>5, <3>2, <3>5, <3>7
  <2> QED  BY <2>1, <2>2, <2>3, <2>4, <2>5 DEF ActionFields
<1> QED  BY <1>5, <1>6, <1>10 DEF ListAgrees

ListFields(a) == \/ a.of = "action" /\ a.field \in ActionFields
                 \/ a.of = "xrc20" /\ a.field \in TokenFields

LEMMA ListsAre == \A a : Lists(a) <=> ListFields(a)
BY DEF Lists, ListFields, ActionFields, TokenFields

LEMMA ListsAgree ==
  ASSUME AInv, NEW v \in 0 .. height, NEW a, ListFields(a),
         a.field = "byBucketIndex" => a.args.bucketIndex # NoBucket
  PROVE  ListAgrees(a, v)
BY TokensAgree, ActionsAgree DEF ListFields

-------------------------------------------------------------------------------
(* Pages.                                                                  *)
LEMMA NewestFacts ==
  ASSUME NEW rows, IsFiniteSet(rows), NEW n \in Int, NEW s \in Newest(rows, n)
  PROVE  /\ s \subseteq rows /\ IsFiniteSet(s)
         /\ Cardinality(rows) \in Nat
         /\ Cardinality(s) = IF n < Cardinality(rows) THEN n ELSE Cardinality(rows)
         /\ Cardinality(s) \in Nat
         /\ \A x \in s, y \in rows \ s : x.height >= y.height
<1>1. s \in kSubset(IF n < Cardinality(rows) THEN n ELSE Cardinality(rows), rows)
      /\ \A x \in s, y \in rows \ s : x.height >= y.height
  BY DEF Newest
<1>2. s \in SUBSET rows /\ Cardinality(s) = IF n < Cardinality(rows) THEN n ELSE Cardinality(rows)
  BY <1>1 DEF kSubset
<1>3. IsFiniteSet(s)
  BY <1>2, FS_Subset
<1> QED  BY <1>1, <1>2, <1>3, FS_CardinalityType

LEMMA PageSize ==
  ASSUME NEW rows, IsFiniteSet(rows), NEW skip \in Int, NEW first \in Int, NEW page \in Limit(rows, skip, first)
  PROVE  /\ page \subseteq rows /\ IsFiniteSet(page)
         /\ Cardinality(rows) \in Nat
         /\ Cardinality(page) =
              IF skip >= Cardinality(rows) THEN 0 ELSE Least(first, Cardinality(rows) - skip)
<1>1. PICK a \in Newest(rows, skip) : page \in {b \ a : b \in {s \in Newest(rows, skip + first) : a \subseteq s}}
  BY DEF Limit
<1>2. PICK b \in Newest(rows, skip + first) : a \subseteq b /\ page = b \ a
  BY <1>1
<1>3. skip + first \in Int
  OBVIOUS
<1>4. /\ a \subseteq rows /\ IsFiniteSet(a) /\ Cardinality(rows) \in Nat
      /\ Cardinality(a) = IF skip < Cardinality(rows) THEN skip ELSE Cardinality(rows)
      /\ Cardinality(a) \in Nat
  BY NewestFacts
<1>5. /\ b \subseteq rows /\ IsFiniteSet(b)
      /\ Cardinality(b) = IF skip + first < Cardinality(rows) THEN skip + first ELSE Cardinality(rows)
      /\ Cardinality(b) \in Nat
  BY <1>3, NewestFacts
<1>6. IsFiniteSet(page) /\ Cardinality(page) = Cardinality(b) - Cardinality(a)
  <2>1. b \cap a = a
    BY <1>2
  <2>2. IsFiniteSet(b)
    BY <1>5
  <2>3. IsFiniteSet(b \ a) /\ Cardinality(b \ a) = Cardinality(b) - Cardinality(b \cap a)
    BY <2>2, FS_Difference
  <2> QED  BY <1>2, <2>1, <2>3
<1>7. Cardinality(a) <= Cardinality(b)
  BY <1>2, <1>5, FS_Subset
<1>8. page \subseteq rows
  BY <1>2, <1>5
<1>9. Cardinality(page) = IF skip >= Cardinality(rows) THEN 0 ELSE Least(first, Cardinality(rows) - skip)
  BY <1>4, <1>5, <1>6, <1>7 DEF Least
<1> QED  BY <1>4, <1>6, <1>8, <1>9

(* How many rows come before a row, if no two are of one block.            *)
Before(rows, x) == {y \in rows : y.height > x.height}

LEMMA NewestByRank ==
  ASSUME NEW rows, IsFiniteSet(rows), \A x \in rows : x.height \in Nat,
         \A x, y \in rows : x.height = y.height => x = y,
         NEW n \in Int, NEW s \in Newest(rows, n), NEW x \in rows
  PROVE  /\ Cardinality(Before(rows, x)) \in Nat
         /\ x \in s <=> Cardinality(Before(rows, x)) < n
<1> DEFINE B == Before(rows, x)
<1>1. /\ s \subseteq rows /\ IsFiniteSet(s) /\ Cardinality(rows) \in Nat
      /\ Cardinality(s) = IF n < Cardinality(rows) THEN n ELSE Cardinality(rows)
      /\ Cardinality(s) \in Nat
      /\ \A u \in s, y \in rows \ s : u.height >= y.height
  BY NewestFacts
<1>2. B \subseteq rows /\ x \notin B /\ IsFiniteSet(B) /\ Cardinality(B) \in Nat
  <2>1. B \subseteq rows /\ x \notin B
    BY DEF Before
  <2> QED  BY <2>1, FS_Subset, FS_CardinalityType
<1>3. ASSUME x \in s  PROVE Cardinality(B) < n
  <2>1. B \subseteq s
    <3>1. ASSUME NEW y \in B, y \notin s  PROVE FALSE
      <4>1. y \in rows /\ y.height > x.height
        BY <3>1 DEF Before
      <4>2. x.height >= y.height
        BY <1>1, <1>3, <3>1, <4>1
      <4> QED  BY <1>1, <4>1, <4>2
    <3> QED  BY <3>1
  <2>2. Cardinality(B) <= Cardinality(s) /\ (Cardinality(B) = Cardinality(s) => B = s)
    <3> HIDE DEF B
    <3> QED  BY <1>1, <2>1, FS_Subset
  <2>3. B # s
    BY <1>2, <1>3
  <2> HIDE DEF B
  <2> QED  BY <1>1, <1>2, <2>2, <2>3
<1>4. ASSUME x \notin s  PROVE n <= Cardinality(B)
  <2>1. s \subseteq B
    <3>1. ASSUME NEW u \in s  PROVE u \in B
      <4>1. u.height >= x.height /\ u \in rows /\ u # x
        BY <1>1, <1>4, <3>1
      <4>2. u.height # x.height
        BY <4>1
      <4> QED  BY <4>1, <4>2 DEF Before
    <3> QED  BY <3>1
  <2>2. Cardinality(s) <= Cardinality(B)
    <3> HIDE DEF B
    <3> QED  BY <1>2, <2>1, FS_Subset
  <2>3. n < Cardinality(rows)
    <3>1. ASSUME Cardinality(s) = Cardinality(rows)  PROVE FALSE
      <4>1. s = rows
        BY <1>1, <3>1, FS_Subset
      <4> QED  BY <1>4, <4>1
    <3> QED  BY <1>1, <3>1
  <2> HIDE DEF B
  <2> QED  BY <1>1, <1>2, <2>2, <2>3
<1> HIDE DEF B
<1>5. x \in s <=> Cardinality(B) < n
  BY <1>2, <1>3, <1>4
<1> QED  BY <1>2, <1>5 DEF B

LEMMA PageByRank ==
  ASSUME NEW rows, IsFiniteSet(rows), \A x \in rows : x.height \in Nat,
         \A x, y \in rows : x.height = y.height => x = y,
         NEW skip \in Int, NEW first \in Int, NEW page \in Limit(rows, skip, first), NEW x \in rows
  PROVE  /\ Cardinality(Before(rows, x)) \in Nat
         /\ x \in page <=> skip <= Cardinality(Before(rows, x)) /\ Cardinality(Before(rows, x)) < skip + first
<1>1. PICK a \in Newest(rows, skip) : page \in {b \ a : b \in {s \in Newest(rows, skip + first) : a \subseteq s}}
  BY DEF Limit
<1>2. PICK b \in Newest(rows, skip + first) : a \subseteq b /\ page = b \ a
  BY <1>1
<1>3. skip + first \in Int
  OBVIOUS
<1>4. Cardinality(Before(rows, x)) \in Nat /\ (x \in a <=> Cardinality(Before(rows, x)) < skip)
  BY NewestByRank
<1>5. x \in b <=> Cardinality(Before(rows, x)) < skip + first
  BY <1>3, NewestByRank
<1> QED  BY <1>2, <1>4, <1>5

-------------------------------------------------------------------------------
(* The asks of a document that is accepted.                                *)
Below(p) == {<<FieldsOf[p[1]][p[2].name].type, p[2].sub[i]>> : i \in DOMAIN p[2].sub}
Roots(doc) == {<<"Query", doc.roots[i]>> : i \in DOMAIN doc.roots}

LEMMA ThreeDepths ==
  ASSUME NEW doc
  PROVE  /\ Selections(doc)[1] = Roots(doc)
         /\ Selections(doc)[2] = UNION {Below(p) : p \in Roots(doc)}
         /\ Selections(doc)[3] = UNION {Below(p) : p \in UNION {Below(q) : q \in Roots(doc)}}
<1> DEFINE S(f) == [n \in 1 .. Depth |->
                      IF n = 1 THEN Roots(doc) ELSE UNION {Below(p) : p \in f[n - 1]}]
           A1 == Roots(doc)
           Next1(A) == UNION {Below(p) : p \in A}
           A2 == Next1(A1)
           A3 == Next1(A2)
           A4 == Next1(A3)
           A5 == Next1(A4)
           g == [n \in 1 .. Depth |-> IF n = 1 THEN A1 ELSE IF n = 2 THEN A2 ELSE IF n = 3 THEN A3
                                      ELSE IF n = 4 THEN A4 ELSE A5]
<1>1. Selections(doc) = CHOOSE f : f = S(f)
  BY DEF Selections, Roots, Below
<1>2. g = S(g)
  <2>2. \A n \in 1 .. Depth : n = 1 \/ n = 2 \/ n = 3 \/ n = 4 \/ n = 5
    BY DEF Depth
  <2>3. g[1] = A1 /\ g[2] = A2 /\ g[3] = A3 /\ g[4] = A4 /\ g[5] = A5
    <3> HIDE DEF A1, A2, A3, A4, A5
    <3> QED  BY DEF Depth
  <2>4. \A n \in 1 .. Depth : g[n] = IF n = 1 THEN A1 ELSE Next1(g[n - 1])
    <3> HIDE DEF g, Next1
    <3> QED  BY <2>2, <2>3 DEF A2, A3, A4, A5
  <2>5. DOMAIN g = 1 .. Depth /\ g = [n \in 1 .. Depth |-> g[n]]
    OBVIOUS
  <2>6. S(g) = [n \in 1 .. Depth |-> IF n = 1 THEN A1 ELSE Next1(g[n - 1])]
    OBVIOUS
  <2> HIDE DEF g, S, Next1, A1
  <2> QED  BY <2>4, <2>5, <2>6
<1> HIDE DEF g
<1>3. Selections(doc) = S(Selections(doc))
  <2> HIDE DEF S
  <2> QED  BY <1>1, <1>2
<1>4. 1 \in 1 .. Depth /\ 2 \in 1 .. Depth /\ 3 \in 1 .. Depth
  BY DEF Depth
<1>5. Selections(doc)[1] = A1
  BY <1>3, <1>4
<1>6. Selections(doc)[2] = Next1(Selections(doc)[1])
  BY <1>3, <1>4
<1>7. Selections(doc)[3] = Next1(Selections(doc)[2])
  BY <1>3, <1>4
<1> QED  BY <1>5, <1>6, <1>7

Inner == {"account", "chain", "delegate", "voting", "xrc20", "action", "hermes2"}

(* The type of what a root is, and of what a field below it is. *)
TypeOf(root) == FieldsOf["Query"][root.name].type
TypeBelow(root, sel) == FieldsOf[TypeOf(root)][sel.name].type

(* What the validator has looked at, down to the fields below fields.      *)
LEMMA FieldsFit ==
  ASSUME NEW doc, AcceptedDocument(doc), NEW i \in DOMAIN doc.roots, NEW root, root = doc.roots[i]
  PROVE  /\ Fits("Query", root) /\ ValuesFit(doc.variables, "Query", root)
         /\ \A j \in DOMAIN root.sub :
              /\ Fits(TypeOf(root), root.sub[j]) /\ ValuesFit(doc.variables, TypeOf(root), root.sub[j])
              /\ \A k \in DOMAIN root.sub[j].sub :
                   /\ Fits(TypeBelow(root, root.sub[j]), root.sub[j].sub[k])
                   /\ ValuesFit(doc.variables, TypeBelow(root, root.sub[j]), root.sub[j].sub[k])
<1> DEFINE Good(p) == Fits(p[1], p[2]) /\ ValuesFit(doc.variables, p[1], p[2])
<1>1. /\ \A p \in Roots(doc) : Good(p)
      /\ \A p \in UNION {Below(q) : q \in Roots(doc)} : Good(p)
      /\ \A p \in UNION {Below(q) : q \in UNION {Below(r) : r \in Roots(doc)}} : Good(p)
  <2>1. 1 \in 1 .. Depth /\ 2 \in 1 .. Depth /\ 3 \in 1 .. Depth
    BY DEF Depth
  <2>2. \A n \in 1 .. Depth : \A p \in Selections(doc)[n] : Good(p)
    BY DEF AcceptedDocument
  <2> HIDE DEF Good
  <2> QED  BY <2>1, <2>2, ThreeDepths
<1>2. <<"Query", root>> \in Roots(doc)
  BY DEF Roots
<1>3. Fits("Query", root) /\ ValuesFit(doc.variables, "Query", root)
  BY <1>1, <1>2
<1>4. ASSUME NEW j \in DOMAIN root.sub
      PROVE  <<TypeOf(root), root.sub[j]>> \in Below(<<"Query", root>>)
  BY DEF Below, TypeOf
<1>5. ASSUME NEW j \in DOMAIN root.sub
      PROVE  Fits(TypeOf(root), root.sub[j]) /\ ValuesFit(doc.variables, TypeOf(root), root.sub[j])
  <2>1. Good(<<TypeOf(root), root.sub[j]>>)
    <3> HIDE DEF Good
    <3> QED  BY <1>1, <1>2, <1>4
  <2> QED  BY <2>1
<1>6. ASSUME NEW j \in DOMAIN root.sub, NEW k \in DOMAIN root.sub[j].sub
      PROVE  /\ Fits(TypeBelow(root, root.sub[j]), root.sub[j].sub[k])
             /\ ValuesFit(doc.variables, TypeBelow(root, root.sub[j]), root.sub[j].sub[k])
  <2>1. <<TypeBelow(root, root.sub[j]), root.sub[j].sub[k]>> \in Below(<<TypeOf(root), root.sub[j]>>)
    BY DEF Below, TypeBelow
  <2>2. Good(<<TypeBelow(root, root.sub[j]), root.sub[j].sub[k]>>)
    <3> HIDE DEF Good
    <3> QED  BY <1>1, <1>2, <1>4, <2>1
  <2> QED  BY <2>2
<1> QED  BY <1>3, <1>5, <1>6

LEMMA NamesFit ==
  ASSUME NEW doc, AcceptedDocument(doc), NEW i \in DOMAIN doc.roots, doc.roots[i].name # "xrc721"
  PROVE  /\ doc.roots[i].name \in Inner \cup Direct
         /\ doc.roots[i].name \in Inner => CollectAllFields(doc.roots[i].sub) \subseteq NamesOf(doc.roots[i].name)
<1> DEFINE root == doc.roots[i]
<1>1. Fits("Query", root) /\ \A j \in DOMAIN root.sub : Fits(TypeOf(root), root.sub[j])
  BY FieldsFit
<1>3. \A type, sel : Fits(type, sel) => sel.name \in DOMAIN FieldsOf[type]
  BY DEF Fits
<1>4. root.name \in RootNames
  BY <1>1, <1>3, QueryNames
<1>5. root.name \in Inner \cup Direct
  BY <1>4 DEF RootNames, Inner, Direct
<1>6. ASSUME NEW j \in DOMAIN root.sub
      PROVE  root.sub[j].name \in DOMAIN FieldsOf[FieldsOf["Query"][root.name].type]
  BY <1>1, <1>3 DEF TypeOf
<1>7. ASSUME root.name \in Inner
      PROVE  DOMAIN FieldsOf[FieldsOf["Query"][root.name].type] = NamesOf(root.name)
  <2> HIDE DEF root
  <2>1. CASE root.name = "account"
    BY <2>1, TypesOfRoots, NamesOfFields
  <2>2. CASE root.name = "chain"
    BY <2>2, TypesOfRoots, NamesOfFields
  <2>3. CASE root.name = "delegate"
    BY <2>3, TypesOfRoots, NamesOfFields
  <2>4. CASE root.name = "voting"
    BY <2>4, TypesOfRoots, NamesOfFields
  <2>5. CASE root.name = "xrc20"
    BY <2>5, TypesOfRoots, NamesOfFields
  <2>6. CASE root.name = "action"
    BY <2>6, TypesOfRoots, NamesOfFields
  <2>7. CASE root.name = "hermes2"
    BY <2>7, TypesOfRoots, NamesOfFields
  <2> QED  BY <1>7, <2>1, <2>2, <2>3, <2>4, <2>5, <2>6, <2>7 DEF Inner
<1>8. root.name \in Inner => CollectAllFields(root.sub) \subseteq NamesOf(root.name)
  <2> HIDE DEF root
  <2> QED  BY <1>6, <1>7 DEF CollectAllFields
<1> QED  BY <1>5, <1>8

(* The fields that have goroutines of their own.                           *)
FieldNames(of) ==
  IF of \in Direct THEN {of} ELSE IF of = "chain" THEN ChainNames \cup {"supplies"} ELSE NamesOf(of)

Known(a) ==
  /\ a = [root |-> a.root, of |-> a.of, field |-> a.field, args |-> a.args, sub |-> a.sub]
  /\ a.of \in Inner \cup Direct
  /\ a.field \in FieldNames(a.of)

LEMMA AskIs ==
  ASSUME NEW doc, NEW i, NEW n, NEW a, a = Ask(doc, i, n)
  PROVE  /\ a.root = i /\ a.of = doc.roots[i].name /\ a.field = n
         /\ a = [root |-> a.root, of |-> a.of, field |-> a.field, args |-> a.args, sub |-> a.sub]
<1> DEFINE args == AskArgs(doc, doc.roots[i], n)
           sub == IF HasNoFields(doc.roots[i], n) THEN {} ELSE haveField(doc.roots[i], n)
<1>1. a = [root |-> i, of |-> doc.roots[i].name, field |-> n, args |-> args, sub |-> sub]
  BY DEF Ask
<1> HIDE DEF args, sub
<1> QED  BY <1>1

(* The names an inner root launches goroutines for.                        *)
Names(doc, i) ==
  IF doc.roots[i].name \in Direct THEN {doc.roots[i].name} ELSE Launched(CollectAllFields(doc.roots[i].sub))

LEMMA AsksAre ==
  ASSUME NEW doc, NEW a
  PROVE  a \in Asks(doc) <=> \E i \in DOMAIN doc.roots : \E n \in Names(doc, i) : a = Ask(doc, i, n)
BY DEF Asks, AsksOf, Names

LEMMA InnerNames ==
  /\ Inner \cap Direct = {}
  /\ \A name \in Inner \ {"chain"} : NamesOf(name) \cap (Supplies \cup Tips \cup {"supplies", "tip"}) = {}
  /\ NamesOf("chain") = ChainNames \cup Supplies \cup Tips
  /\ (ChainNames \cup Supplies \cup Tips) \cap {"supplies", "tip"} = {}
  /\ ChainNames \cap (Supplies \cup Tips) = {}
  /\ "tip" \notin Direct
<1>1. Inner \cap Direct = {} /\ "tip" \notin Direct
  BY DEF Inner, Direct
<1>2. NamesOf("chain") = ChainNames \cup Supplies \cup Tips
  BY DEF NamesOf
<1>3. /\ (ChainNames \cup Supplies \cup Tips) \cap {"supplies", "tip"} = {}
      /\ ChainNames \cap (Supplies \cup Tips) = {}
  BY DEF ChainNames, Supplies, Tips
<1>4. \A name \in Inner \ {"chain"} : NamesOf(name) \cap (Supplies \cup Tips \cup {"supplies", "tip"}) = {}
  <2> DEFINE N == {"totalSupply", "totalCirculatingSupply", "totalCirculatingSupplyNoRewardPool",
                   "mostRecentEpoch", "mostRecentBlockHeight", "supplies", "tip"}
  <2>1. Supplies \cup Tips \cup {"supplies", "tip"} = N
    BY DEF Supplies, Tips
  <2>2. NamesOf("account") \cap N = {} /\ NamesOf("delegate") \cap N = {} /\ NamesOf("voting") \cap N = {}
    BY DEF NamesOf
  <2>3. NamesOf("xrc20") \cap N = {} /\ NamesOf("action") \cap N = {} /\ NamesOf("hermes2") \cap N = {}
    BY DEF NamesOf
  <2> HIDE DEF N
  <2> QED  BY <2>1, <2>2, <2>3 DEF Inner
<1> QED  BY <1>1, <1>2, <1>3, <1>4

(* What a document of a client asks is known, once, and is no tip.         *)
LEMMA AskFacts ==
  ASSUME NEW doc \in Forms, AcceptedDocument(doc), NEW a \in Asks(doc)
  PROVE  /\ a.root \in DOMAIN doc.roots /\ a.of = doc.roots[a.root].name
         /\ a.field \in Names(doc, a.root) /\ a = Ask(doc, a.root, a.field)
         /\ Known(a) /\ a.field # "tip"
<1>1. PICK i \in DOMAIN doc.roots : \E n \in Names(doc, i) : a = Ask(doc, i, n)
  BY AsksAre
<1>2. PICK n \in Names(doc, i) : a = Ask(doc, i, n)
  BY <1>1
<1>3. /\ a.root = i /\ a.of = doc.roots[i].name /\ a.field = n
      /\ a = [root |-> a.root, of |-> a.of, field |-> a.field, args |-> a.args, sub |-> a.sub]
  BY <1>2, AskIs
<1> DEFINE name == doc.roots[i].name
           sub == CollectAllFields(doc.roots[i].sub)
<1>4. name # "xrc721"
  BY FormsAssumption
<1>5. name \in Inner \cup Direct /\ (name \in Inner => sub \subseteq NamesOf(name))
  BY <1>4, NamesFit
<1>6. n \in FieldNames(name) /\ n # "tip"
  <2>1. CASE name \in Direct
    BY <1>2, <2>1, InnerNames DEF Names, FieldNames
  <2>2. CASE name \in Inner
    <3>1. n \in Launched(sub) /\ name \notin Direct
      BY <1>2, <2>2, InnerNames DEF Names
    <3>2. n \in sub \ (Supplies \cup Tips) \/ (n = "supplies" /\ sub \cap Supplies # {})
      BY <3>1 DEF Launched, Supplies
    <3>3. sub \subseteq NamesOf(name)
      BY <1>5, <2>2
    <3> HIDE DEF name, sub
    <3>4. CASE name = "chain"
      <4>1. FieldNames(name) = ChainNames \cup {"supplies"}
        BY <3>1, <3>4 DEF FieldNames
      <4>2. "supplies" # "tip"
        OBVIOUS
      <4> QED  BY <3>2, <3>3, <3>4, <4>1, <4>2, InnerNames
    <3>5. CASE name # "chain"
      <4>1. FieldNames(name) = NamesOf(name)
        BY <3>1, <3>5 DEF FieldNames
      <4> QED  BY <2>2, <3>2, <3>3, <3>5, <4>1, InnerNames
    <3> QED  BY <3>4, <3>5
  <2> QED  BY <1>5, <2>1, <2>2
<1> QED  BY <1>2, <1>3, <1>5, <1>6 DEF Known

LEMMA AskOnce ==
  ASSUME NEW doc \in Forms, AcceptedDocument(doc), NEW a \in Asks(doc), NEW b \in Asks(doc),
         a.root = b.root, a.field = b.field
  PROVE  a = b
BY AskFacts

-------------------------------------------------------------------------------
(* What the arguments of documents come to. *)
LEMMA KindsAre ==
  /\ Inputs = {"Pagination", "EpochRange"}
  /\ PartsOf["Pagination"] = {"skip", "first"} /\ PartsOf["EpochRange"] = {"startEpoch", "epochCount"}
  /\ "Int" \notin Inputs
BY DEF Inputs, PartsOf

(* A text is read as it is meant, but for what ArgumentsHeeded excepts.    *)
Lost(vs, v) == DOMAIN vs # {} /\ (WrittenOut(v) \/ (v.kind = "literal" /\ v.raw \in DOMAIN vs))

LEMMA ReadAsMeant ==
  ASSUME NEW vs, VariablesFit(vs), NEW kind, kind # "EpochRange", NEW v, FitsKind(vs, kind, v)
  PROVE  parseVariables(vs, kind, v) = Meant(vs, v) \/ Lost(vs, v)
<1>1. CASE v.kind = "object" /\ v.raw = None /\ kind = "Pagination"
           /\ \A n \in DOMAIN v.children : FitsSimple(vs, "Int", v.children[n])
  <2>1. Meant(vs, v) = [n \in DOMAIN v.children |-> Simple(vs, v.children[n])]
    BY <1>1 DEF Meant
  <2>2. CASE DOMAIN vs = {}
    <3>1. parseVariables(vs, kind, v) = [n \in DOMAIN v.children |-> v.children[n].raw]
      BY <1>1, <2>2 DEF parseVariables, AsWritten
    <3>2. \A n \in DOMAIN v.children : Simple(vs, v.children[n]) = v.children[n].raw
      BY <1>1, <2>2 DEF FitsSimple, Simple
    <3> QED  BY <2>1, <3>1, <3>2
  <2>3. CASE DOMAIN vs # {} /\ ~WrittenOut(v)
    <3>1. \A n \in DOMAIN v.children : v.children[n].kind # "literal"
      BY <1>1, <2>3 DEF WrittenOut
    <3>2. \A n \in DOMAIN v.children : OfKind(vs, v.children[n].raw, "Int") /\ v.children[n].kind = "variable"
      BY <1>1, <3>1 DEF FitsSimple, OfKind
    <3>3. ~OfKind(vs, v.raw, kind)
      BY <1>1 DEF OfKind, VariablesFit
    <3>4. {n \in DOMAIN v.children : OfKind(vs, v.children[n].raw, "Int")} = DOMAIN v.children
      BY <3>2
    <3>5. parseVariables(vs, kind, v) = [n \in DOMAIN v.children |-> vs[v.children[n].raw].value]
      BY <1>1, <2>3, <3>3, <3>4 DEF parseVariables
    <3>6. \A n \in DOMAIN v.children : Simple(vs, v.children[n]) = vs[v.children[n].raw].value
      BY <3>2 DEF Simple
    <3> QED  BY <2>1, <3>5, <3>6
  <2>4. CASE DOMAIN vs # {} /\ WrittenOut(v)
    BY <2>4 DEF Lost
  <2> QED  BY <2>2, <2>3, <2>4
<1>2. CASE v.kind = "variable" /\ v.raw \in DOMAIN vs /\ vs[v.raw].kind = kind
  <2>1. DOMAIN vs # {} /\ OfKind(vs, v.raw, kind)
    BY <1>2 DEF OfKind
  <2> QED  BY <1>2, <2>1 DEF parseVariables, Meant, Simple
<1>3. CASE v.kind = "literal" /\ kind \notin Inputs
  <2>1. Meant(vs, v) = v.raw
    BY <1>3 DEF Meant, Simple
  <2>2. CASE DOMAIN vs = {}
    BY <1>3, <2>1, <2>2, KindsAre DEF parseVariables, AsWritten
  <2>3. CASE DOMAIN vs # {} /\ v.raw \in DOMAIN vs
    BY <1>3, <2>3 DEF Lost
  <2>4. CASE DOMAIN vs # {} /\ v.raw \notin DOMAIN vs
    BY <1>3, <2>1, <2>4, KindsAre DEF parseVariables, OfKind
  <2> QED  BY <2>2, <2>3, <2>4
<1> QED  BY <1>1, <1>2, <1>3, KindsAre DEF FitsKind, FitsSimple

(* A number is read as a number, and so are the parts of a page. *)
LEMMA NumbersRead ==
  ASSUME NEW vs, VariablesFit(vs), NEW v
  PROVE  /\ FitsKind(vs, "Int", v) => parseVariables(vs, "Int", v) \in Int
         /\ FitsKind(vs, "Pagination", v) =>
              LET p == parseVariables(vs, "Pagination", v) IN \A n \in DOMAIN p : p[n] \in Int
<1>1. ASSUME FitsSimple(vs, "Int", v), v.kind = "variable"
      PROVE  DOMAIN vs # {} /\ OfKind(vs, v.raw, "Int") /\ vs[v.raw].value \in Int
  BY <1>1 DEF FitsSimple, OfKind, VariablesFit, IsOf
<1>2. ASSUME NEW u, FitsSimple(vs, "Int", u), u.kind # "variable"  PROVE u.raw \in Int
  BY <1>2 DEF FitsSimple, IsOf
<1>3. ASSUME NEW x, OfKind(vs, x, "Int")  PROVE vs[x].value \in Int
  BY <1>3 DEF OfKind, VariablesFit, IsOf
<1>4. ASSUME FitsKind(vs, "Int", v)  PROVE parseVariables(vs, "Int", v) \in Int
  <2>1. FitsSimple(vs, "Int", v)
    BY <1>4, KindsAre DEF FitsKind
  <2>2. CASE v.kind = "variable"
    BY <1>1, <2>1, <2>2 DEF parseVariables
  <2>3. CASE v.kind # "variable"
    BY <1>2, <1>3, <2>1, <2>3 DEF parseVariables, AsWritten
  <2> QED  BY <2>2, <2>3
<1>5. ASSUME FitsKind(vs, "Pagination", v), NEW p, p = parseVariables(vs, "Pagination", v), NEW n \in DOMAIN p
      PROVE  p[n] \in Int
  <2>1. CASE v.kind = "variable"
    <3>1. v.raw \in DOMAIN vs /\ vs[v.raw].kind = "Pagination"
      BY <1>5, <2>1 DEF FitsKind, FitsSimple
    <3>2. p = vs[v.raw].value
      BY <1>5, <3>1 DEF parseVariables, OfKind
    <3>3. IsOf("Pagination", p)
      BY <3>1, <3>2 DEF VariablesFit
    <3> QED  BY <1>5, <3>3, KindsAre DEF IsOf
  <2>2. CASE v.kind # "variable"
    <3>1. v.raw = None /\ \A m \in DOMAIN v.children : FitsSimple(vs, "Int", v.children[m])
      BY <1>5, <2>2, KindsAre DEF FitsKind, FitsSimple
    <3>2. CASE DOMAIN vs = {}
      <4>1. p = [m \in DOMAIN v.children |-> v.children[m].raw]
        BY <1>5, <3>2 DEF parseVariables, AsWritten
      <4>2. v.children[n].kind # "variable"
        BY <1>5, <3>1, <3>2, <4>1 DEF FitsSimple
      <4> QED  BY <1>2, <1>5, <3>1, <4>1, <4>2
    <3>3. CASE DOMAIN vs # {}
      <4>1. ~OfKind(vs, v.raw, "Pagination")
        BY <3>1 DEF OfKind, VariablesFit
      <4>2. p = [m \in {k \in DOMAIN v.children : OfKind(vs, v.children[k].raw, "Int")} |-> vs[v.children[m].raw].value]
        BY <1>5, <3>3, <4>1 DEF parseVariables
      <4> QED  BY <1>3, <1>5, <4>2
    <3> QED  BY <3>2, <3>3
  <2> QED  BY <2>1, <2>2
<1> QED  BY <1>4, <1>5

(* The selection that is read is one of the name. *)
LEMMA NamedFacts ==
  ASSUME NEW sels, InOrder(sels), NEW name, Named(sels, name) # {}
  PROVE  /\ \E i \in Named(sels, name) : FirstNamed(sels, name) = sels[i]
         /\ \E i \in Named(sels, name) : LastNamed(sels, name) = sels[i]
<1> DEFINE N == Named(sels, name)
           n == Len(sels)
<1>1. N \subseteq 1 .. n /\ n \in Nat /\ N # {}
  BY DEF Named, InOrder
<1> HIDE DEF N, n
<1>2. IsFiniteSet(N) /\ N \subseteq Nat /\ N \subseteq Int
  <2>1. IsFiniteSet(1 .. n)
    BY <1>1, FS_Interval
  <2>2. IsFiniteSet(N)
    BY <1>1, <2>1, FS_Subset
  <2>3. N \subseteq Nat
    BY <1>1
  <2> QED  BY <2>2, <2>3
<1>3. Min(N) \in N
  <2>1. \E x \in N : \A y \in N : x <= y
    BY <1>1, <1>2, LeastNumber
  <2> QED  BY <2>1 DEF Min
<1>4. Max(N) \in N
  <2>1. \E x \in N : \A y \in N : x >= y
    BY <1>1, <1>2, GreatestExists
  <2> QED  BY <2>1 DEF Max
<1> QED  BY <1>3, <1>4 DEF FirstNamed, LastNamed, N

(* The arguments of a selection as they are read, one by one. *)
Read(vs, sel, args) == [n \in DOMAIN sel.args |-> parseVariables(vs, args[n].kind, sel.args[n])]

LEMMA ParsedFrom ==
  ASSUME NEW vs, NEW root, NEW name,
         NEW field, field = FirstNamed(root.sub, name),
         NEW type, type = FieldsOf[TypeOf(root)][name],
         NEW selected, selected = Paginated(root, name)
  PROVE  parseFieldArguments(vs, root, name) =
           IF selected = None \/ Named(field.sub, selected) = {} THEN Read(vs, field, type.args)
           ELSE Joined(Read(vs, LastNamed(field.sub, selected), FieldsOf[type.type][selected].args),
                       Read(vs, field, type.args))
BY DEF parseFieldArguments, Read, TypeOf

(* Of a type, the lists that may be paginated: nothing else has arguments. *)
PageArgs == [pagination |-> May("Pagination")]

HasLists(type, lists) ==
  \A m \in DOMAIN type : IF m \in lists THEN type[m].args = PageArgs ELSE DOMAIN type[m].args = {}

LEMMA NoArguments == DOMAIN NoArgs = {}
BY DEF NoArgs

LEMMA ScalarsHave == \A names : HasLists(Scalars(names), {})
BY NoArguments DEF HasLists, Scalars, Scalar, NonNull

LEMMA JoinedHas ==
  ASSUME NEW names, NEW g, NEW lists, HasLists(g, lists), lists \cap names = {}
  PROVE  HasLists(Joined(Scalars(names), g), lists)
<1> DEFINE s == Scalars(names)
<1>1. DOMAIN s = names /\ \A m \in names : DOMAIN s[m].args = {}
  BY NoArguments DEF Scalars, Scalar, NonNull
<1>2. /\ DOMAIN Joined(s, g) = DOMAIN s \cup DOMAIN g
      /\ \A m \in DOMAIN s : Joined(s, g)[m] = s[m]
      /\ \A m \in DOMAIN g \ DOMAIN s : Joined(s, g)[m] = g[m]
  BY DEF Joined
<1>3. PICK f : f = Joined(s, g)
  OBVIOUS
<1> HIDE DEF s
<1>4. ASSUME NEW m \in DOMAIN f
      PROVE  IF m \in lists THEN f[m].args = PageArgs ELSE DOMAIN f[m].args = {}
  <2>1. CASE m \in names
    BY <1>1, <1>2, <1>3, <2>1
  <2>2. CASE m \notin names
    <3>1. m \in DOMAIN g /\ f[m] = g[m]
      BY <1>1, <1>2, <1>3, <1>4, <2>2
    <3> QED  BY <3>1 DEF HasLists
  <2> QED  BY <2>1, <2>2
<1> QED  BY <1>3, <1>4 DEF HasLists, s

LEMMA ListsBelow ==
  /\ HasLists(FieldsOf["Alias"], {}) /\ HasLists(FieldsOf["OperatorAddress"], {})
  /\ HasLists(FieldsOf["Reward"], {}) /\ HasLists(FieldsOf["Productivity"], {}) /\ HasLists(FieldsOf["StakingOutput"], {})
  /\ HasLists(FieldsOf["Bookkeeping"], {"rewardDistribution"}) /\ HasLists(FieldsOf["BucketInfoOutput"], {"bucketInfoList"})
  /\ HasLists(FieldsOf["CandidateInfoList"], {}) /\ HasLists(FieldsOf["VotingMeta"], {})
  /\ HasLists(FieldsOf["RewardSources"], {})
  /\ HasLists(FieldsOf["ActionList"], {"actions"}) /\ HasLists(FieldsOf["ActionDetail"], {})
  /\ HasLists(FieldsOf["EvmTransferList"], {"evmTransfers"})
  /\ HasLists(FieldsOf["XrcHolderAddressList"], {"addresses"})
  /\ HasLists(FieldsOf["ByDelegateResponse"], {"voterInfoList"})
  /\ HasLists(FieldsOf["ByVoterResponse"], {"delegateInfoList"}) /\ HasLists(FieldsOf["HermesMeta"], {})
<1>1. /\ HasLists(FieldsOf["Alias"], {}) /\ HasLists(FieldsOf["OperatorAddress"], {})
      /\ HasLists(FieldsOf["Reward"], {}) /\ HasLists(FieldsOf["Productivity"], {})
      /\ HasLists(FieldsOf["HermesMeta"], {})
  <2>1. /\ FieldsOf["Alias"] = AliasType /\ FieldsOf["OperatorAddress"] = OperatorAddressType
        /\ FieldsOf["Reward"] = RewardType /\ FieldsOf["Productivity"] = ProductivityType
        /\ FieldsOf["HermesMeta"] = HermesMetaType
    BY DEF FieldsOf
  <2> QED  BY <2>1, ScalarsHave DEF AliasType, OperatorAddressType, RewardType, ProductivityType, HermesMetaType
<1>2. HasLists(FieldsOf["StakingOutput"], {})
  <2> DEFINE g == [stakingInfo |-> NonNull("StakingInformation", NoArgs)]
  <2>1. HasLists(g, {})
    BY NoArguments DEF HasLists, NonNull
  <2>2. FieldsOf["StakingOutput"] = Joined(Scalars({"exist"}), g)
    BY DEF FieldsOf, StakingOutputType
  <2> HIDE DEF g
  <2> QED  BY <2>1, <2>2, JoinedHas
<1>3. HasLists(FieldsOf["Bookkeeping"], {"rewardDistribution"})
  <2> DEFINE g == [rewardDistribution |-> Paged("RewardDistribution")]
  <2>1. HasLists(g, {"rewardDistribution"})
    BY DEF HasLists, Paged, NonNull, PageArgs
  <2>2. FieldsOf["Bookkeeping"] = Joined(Scalars({"exist", "count"}), g)
    BY DEF FieldsOf, BookkeepingType
  <2>3. {"rewardDistribution"} \cap {"exist", "count"} = {}
    OBVIOUS
  <2> HIDE DEF g
  <2> QED  BY <2>1, <2>2, <2>3, JoinedHas
<1>4. HasLists(FieldsOf["BucketInfoOutput"], {"bucketInfoList"})
  <2> DEFINE g == [bucketInfoList |-> Paged("BucketInfoList")]
  <2>1. HasLists(g, {"bucketInfoList"})
    BY DEF HasLists, Paged, NonNull, PageArgs
  <2>2. FieldsOf["BucketInfoOutput"] = Joined(Scalars({"exist"}), g)
    BY DEF FieldsOf, BucketInfoOutputType
  <2>3. {"bucketInfoList"} \cap {"exist"} = {}
    OBVIOUS
  <2> HIDE DEF g
  <2> QED  BY <2>1, <2>2, <2>3, JoinedHas
<1>5. HasLists(FieldsOf["CandidateInfoList"], {})
  <2> DEFINE g == [candidates |-> NonNull("CandidateInfo", NoArgs)]
  <2>1. HasLists(g, {})
    BY NoArguments DEF HasLists, NonNull
  <2>2. FieldsOf["CandidateInfoList"] = Joined(Scalars({"epochNumber"}), g)
    BY DEF FieldsOf, CandidateInfoListType
  <2> HIDE DEF g
  <2> QED  BY <2>1, <2>2, JoinedHas
<1>6. HasLists(FieldsOf["VotingMeta"], {})
  <2> DEFINE g == [candidateMeta |-> NonNull("CandidateMeta", NoArgs)]
  <2>1. HasLists(g, {})
    BY NoArguments DEF HasLists, NonNull
  <2>2. FieldsOf["VotingMeta"] = Joined(Scalars({"exist"}), g)
    BY DEF FieldsOf, VotingMetaType
  <2> HIDE DEF g
  <2> QED  BY <2>1, <2>2, JoinedHas
<1>7. HasLists(FieldsOf["RewardSources"], {})
  <2> DEFINE g == [delegateDistributions |-> NonNull("DelegateAmount", NoArgs)]
  <2>1. HasLists(g, {})
    BY NoArguments DEF HasLists, NonNull
  <2>2. FieldsOf["RewardSources"] = Joined(Scalars({"exist"}), g)
    BY DEF FieldsOf, RewardSourcesType
  <2> HIDE DEF g
  <2> QED  BY <2>1, <2>2, JoinedHas
<1>8. HasLists(FieldsOf["ActionList"], {"actions"})
  <2> DEFINE g == [actions |-> Paged("ActionInfo")]
  <2>1. HasLists(g, {"actions"})
    BY DEF HasLists, Paged, NonNull, PageArgs
  <2>2. FieldsOf["ActionList"] = Joined(Scalars({"exist", "count"}), g)
    BY DEF FieldsOf, ActionListType
  <2>3. {"actions"} \cap {"exist", "count"} = {}
    OBVIOUS
  <2> HIDE DEF g
  <2> QED  BY <2>1, <2>2, <2>3, JoinedHas
<1>9. HasLists(FieldsOf["ActionDetail"], {})
  <2>1. FieldsOf["ActionDetail"] = ActionDetailType
    BY DEF FieldsOf
  <2> QED  BY <2>1, NoArguments DEF HasLists, ActionDetailType, Null, NonNull
<1>10. HasLists(FieldsOf["EvmTransferList"], {"evmTransfers"})
  <2> DEFINE g == [evmTransfers |-> Paged("EvmTransferDetail")]
  <2>1. HasLists(g, {"evmTransfers"})
    BY DEF HasLists, Paged, NonNull, PageArgs
  <2>2. FieldsOf["EvmTransferList"] = Joined(Scalars({"exist", "count"}), g)
    BY DEF FieldsOf, EvmTransferListType
  <2>3. {"evmTransfers"} \cap {"exist", "count"} = {}
    OBVIOUS
  <2> HIDE DEF g
  <2> QED  BY <2>1, <2>2, <2>3, JoinedHas
<1>11. HasLists(FieldsOf["XrcHolderAddressList"], {"addresses"})
  <2> DEFINE g == [addresses |-> Paged("scalar")]
  <2>1. HasLists(g, {"addresses"})
    BY DEF HasLists, Paged, NonNull, PageArgs
  <2>2. FieldsOf["XrcHolderAddressList"] = Joined(Scalars({"count"}), g)
    BY DEF FieldsOf, XrcHolderAddressListType
  <2>3. {"addresses"} \cap {"count"} = {}
    OBVIOUS
  <2> HIDE DEF g
  <2> QED  BY <2>1, <2>2, <2>3, JoinedHas
<1>12. HasLists(FieldsOf["ByDelegateResponse"], {"voterInfoList"})
  <2> DEFINE g == [voterInfoList |-> Paged("VoterInfo"), distributionRatio |-> NonNull("Ratio", NoArgs)]
  <2>1. HasLists(g, {"voterInfoList"})
    BY NoArguments DEF HasLists, Paged, NonNull, PageArgs
  <2>2. FieldsOf["ByDelegateResponse"] = Joined(Scalars({"exist", "count", "totalRewardsDistributed"}), g)
    BY DEF FieldsOf, ByDelegateResponseType
  <2>3. {"voterInfoList"} \cap {"exist", "count", "totalRewardsDistributed"} = {}
    OBVIOUS
  <2> HIDE DEF g
  <2> QED  BY <2>1, <2>2, <2>3, JoinedHas
<1>13. HasLists(FieldsOf["ByVoterResponse"], {"delegateInfoList"})
  <2> DEFINE g == [delegateInfoList |-> Paged("DelegateInfo")]
  <2>1. HasLists(g, {"delegateInfoList"})
    BY DEF HasLists, Paged, NonNull, PageArgs
  <2>2. FieldsOf["ByVoterResponse"] = Joined(Scalars({"exist", "count", "totalRewardsReceived"}), g)
    BY DEF FieldsOf, ByVoterResponseType
  <2>3. {"delegateInfoList"} \cap {"exist", "count", "totalRewardsReceived"} = {}
    OBVIOUS
  <2> HIDE DEF g
  <2> QED  BY <2>1, <2>2, <2>3, JoinedHas
<1> QED  BY <1>1, <1>2, <1>3, <1>4, <1>5, <1>6, <1>7, <1>8, <1>9, <1>10, <1>11, <1>12, <1>13

(* The lists the resolvers look for, by field. *)
LEMMA PaginatedIs ==
  ASSUME NEW root, NEW name
  PROVE  /\ root.name = "action" =>
              /\ name \in {"byDates", "byType", "byAddressAndType", "byAddress", "byVoter", "byBucketIndex"} =>
                   Paginated(root, name) = "actions"
              /\ name = "evmTransfersByAddress" => Paginated(root, name) = "evmTransfers"
              /\ name = "byHash" => Paginated(root, name) = None
         /\ root.name \in {"voting", "account"} /\ name \in NamesOf(root.name) => Paginated(root, name) = None
         /\ root.name = "delegate" /\ name \in NamesOf("delegate") =>
              Paginated(root, name) = CASE name = "bookkeeping" -> "rewardDistribution"
                                        [] name = "bucketInfo" -> "bucketInfoList"
                                        [] OTHER -> None
         /\ root.name = "hermes2" =>
              /\ name = "byDelegate" => Paginated(root, name) = "voterInfoList"
              /\ name = "byVoter" => Paginated(root, name) = "delegateInfoList"
              /\ name = "hermesMeta" => Paginated(root, name) = None
         /\ root.name = "xrc20" => Paginated(root, name) = IF name = "tokenHolderAddresses" THEN "addresses" ELSE None
<1>1. DOMAIN SelectedFieldName =
        {"byDates", "byType", "byAddressAndType", "byAddress", "byVoter", "byBucketIndex", "evmTransfersByAddress",
         "tokenHolderAddresses", "bookkeeping", "bucketInfo", "byDelegate"}
  BY DEF SelectedFieldName
<1>2. /\ SelectedFieldName["byDates"] = "actions" /\ SelectedFieldName["byType"] = "actions"
      /\ SelectedFieldName["byAddressAndType"] = "actions" /\ SelectedFieldName["byAddress"] = "actions"
      /\ SelectedFieldName["byVoter"] = "actions" /\ SelectedFieldName["byBucketIndex"] = "actions"
      /\ SelectedFieldName["evmTransfersByAddress"] = "evmTransfers"
      /\ SelectedFieldName["tokenHolderAddresses"] = "addresses"
      /\ SelectedFieldName["bookkeeping"] = "rewardDistribution" /\ SelectedFieldName["bucketInfo"] = "bucketInfoList"
      /\ SelectedFieldName["byDelegate"] = "voterInfoList"
  BY DEF SelectedFieldName
<1>3. ASSUME root.name = "action"
      PROVE  Paginated(root, name) = IF name \in DOMAIN SelectedFieldName THEN SelectedFieldName[name] ELSE None
  BY <1>3 DEF Paginated
<1>4. ASSUME root.name \in {"voting", "account"}, name \in NamesOf(root.name)  PROVE Paginated(root, name) = None
  <2>1. CASE root.name = "account"
    BY <2>1 DEF Paginated
  <2>2. CASE root.name = "voting"
    <3>1. Paginated(root, name) = IF name \in DOMAIN SelectedFieldName THEN SelectedFieldName[name] ELSE None
      BY <2>2 DEF Paginated
    <3>2. name \in {"candidateInfo", "votingMeta", "rewardSources"}
      BY <1>4, <2>2 DEF NamesOf
    <3> QED  BY <1>1, <3>1, <3>2
  <2> QED  BY <1>4, <2>1, <2>2
<1>5. ASSUME root.name = "delegate", name \in NamesOf("delegate")
      PROVE  Paginated(root, name) = CASE name = "bookkeeping" -> "rewardDistribution"
                                       [] name = "bucketInfo" -> "bucketInfoList"
                                       [] OTHER -> None
  <2>1. Paginated(root, name) = IF name \in DOMAIN SelectedFieldName THEN SelectedFieldName[name] ELSE None
    BY <1>5 DEF Paginated
  <2>2. name \in {"reward", "productivity", "bookkeeping", "bucketInfo", "staking", "probationHistoricalRate"}
    BY <1>5 DEF NamesOf
  <2> QED  BY <1>1, <1>2, <2>1, <2>2
<1>6. ASSUME root.name = "hermes2"
      PROVE  Paginated(root, name) = IF name = "byVoter" THEN "delegateInfoList"
                                     ELSE IF name \in DOMAIN SelectedFieldName THEN SelectedFieldName[name] ELSE None
  BY <1>6 DEF Paginated
<1>7. ASSUME root.name = "xrc20"
      PROVE  Paginated(root, name) = IF name = "tokenHolderAddresses" THEN SelectedFieldName[name] ELSE None
  BY <1>1, <1>7 DEF Paginated
<1> QED  BY <1>1, <1>2, <1>3, <1>4, <1>5, <1>6, <1>7

(* What the resolvers can rely on in a field of a root: it has no range of *)
(* epochs, and the list they look for is the only thing below it that has  *)
(* arguments.                                                              *)
WellListed(type, selected) ==
  /\ \A n \in DOMAIN type.args : type.args[n].kind # "EpochRange"
  /\ type.type # "scalar" => HasLists(FieldsOf[type.type], {selected} \ {None})
  /\ selected # None => "pagination" \notin DOMAIN type.args

LEMMA NotNone ==
  /\ "actions" # None /\ "evmTransfers" # None /\ "rewardDistribution" # None /\ "bucketInfoList" # None
  /\ "voterInfoList" # None /\ "delegateInfoList" # None /\ "addresses" # None
BY NoneAssumption DEF SelectedFieldName

(* Of arguments, that none is a range of epochs or a pagination. *)
Unranged(args) == \A n \in DOMAIN args : n # "pagination" /\ args[n].kind # "EpochRange"

LEMMA ListField ==
  ASSUME NEW type, NEW args, Unranged(args), NEW list, list # None, HasLists(FieldsOf[type], {list})
  PROVE  WellListed(Null(type, args), list)
<1>1. {list} \ {None} = {list}
  OBVIOUS
<1> QED  BY <1>1 DEF WellListed, Null, Unranged

LEMMA OtherField ==
  ASSUME NEW type, NEW args, Unranged(args), type = "scalar" \/ HasLists(FieldsOf[type], {})
  PROVE  WellListed(Null(type, args), None) /\ WellListed(NonNull(type, args), None)
<1>1. {None} \ {None} = {}
  OBVIOUS
<1> QED  BY <1>1 DEF WellListed, Null, NonNull, Unranged

LEMMA ArgumentsAre ==
  /\ Unranged(NoArgs) /\ Unranged([count |-> Must("Int")])
  /\ Unranged([operatorAddress |-> Must("String")]) /\ Unranged([aliasName |-> Must("String")])
  /\ Unranged([ percentage |-> Must("Int"), includeBlockReward |-> May("Boolean"),
                includeFoundationBonus |-> Must("Boolean") ])
  /\ Unranged([voterIotexAddress |-> Must("String")])
  /\ Unranged([startDate |-> Must("Int"), endDate |-> Must("Int")]) /\ Unranged([actHash |-> Must("String")])
  /\ Unranged([address |-> Must("String")]) /\ Unranged([address |-> Must("String"), type |-> Must("String")])
  /\ Unranged([bucketIndex |-> Must("Int")]) /\ Unranged([type |-> Must("String")])
  /\ Unranged([voter |-> Must("String")]) /\ Unranged([tokenAddress |-> Must("String")])
  /\ Unranged([delegateName |-> Must("String")]) /\ Unranged([voterAddress |-> Must("String")])
BY NoArguments DEF Unranged, Must, May

LEMMA AccountFields ==
  ASSUME NEW name \in NamesOf("account")  PROVE WellListed(AccountType[name], None)
<1>1. name \in {"activeAccounts", "alias", "operatorAddress", "totalNumberOfHolders", "totalAccountSupply"}
  BY DEF NamesOf
<1>2. /\ AccountType["activeAccounts"] = Null("scalar", [count |-> Must("Int")])
      /\ AccountType["alias"] = Null("Alias", [operatorAddress |-> Must("String")])
      /\ AccountType["operatorAddress"] = Null("OperatorAddress", [aliasName |-> Must("String")])
      /\ AccountType["totalNumberOfHolders"] = NonNull("scalar", NoArgs)
      /\ AccountType["totalAccountSupply"] = NonNull("scalar", NoArgs)
  BY DEF AccountType, Scalar
<1>3. /\ WellListed(Null("scalar", [count |-> Must("Int")]), None)
      /\ WellListed(Null("Alias", [operatorAddress |-> Must("String")]), None)
      /\ WellListed(Null("OperatorAddress", [aliasName |-> Must("String")]), None)
      /\ WellListed(NonNull("scalar", NoArgs), None)
  BY OtherField, ArgumentsAre, ListsBelow
<1> QED  BY <1>1, <1>2, <1>3

LEMMA DelegateFields ==
  ASSUME NEW name \in NamesOf("delegate")
  PROVE  WellListed(DelegateType[name], CASE name = "bookkeeping" -> "rewardDistribution"
                                          [] name = "bucketInfo" -> "bucketInfoList"
                                          [] OTHER -> None)
<1>1. name \in {"reward", "productivity", "bookkeeping", "bucketInfo", "staking", "probationHistoricalRate"}
  BY DEF NamesOf
<1> DEFINE bookkeeping == [ percentage |-> Must("Int"), includeBlockReward |-> May("Boolean"),
                            includeFoundationBonus |-> Must("Boolean") ]
<1>2. /\ DelegateType["reward"] = Null("Reward", NoArgs) /\ DelegateType["productivity"] = Null("Productivity", NoArgs)
      /\ DelegateType["staking"] = Null("StakingOutput", NoArgs)
      /\ DelegateType["probationHistoricalRate"] = NonNull("scalar", NoArgs)
      /\ DelegateType["bookkeeping"] = Null("Bookkeeping", bookkeeping)
      /\ DelegateType["bucketInfo"] = Null("BucketInfoOutput", NoArgs)
  BY DEF DelegateType, Scalar
<1>3. /\ WellListed(Null("Reward", NoArgs), None) /\ WellListed(Null("Productivity", NoArgs), None)
      /\ WellListed(Null("StakingOutput", NoArgs), None) /\ WellListed(NonNull("scalar", NoArgs), None)
  BY OtherField, ArgumentsAre, ListsBelow
<1>4. /\ WellListed(Null("Bookkeeping", bookkeeping), "rewardDistribution")
      /\ WellListed(Null("BucketInfoOutput", NoArgs), "bucketInfoList")
  <2>1. Unranged(bookkeeping)
    BY ArgumentsAre
  <2> HIDE DEF bookkeeping
  <2> QED  BY <2>1, NotNone, ListField, ArgumentsAre, ListsBelow
<1> HIDE DEF bookkeeping
<1>5. CASE name = "bookkeeping"
  BY <1>2, <1>4, <1>5
<1>6. CASE name = "bucketInfo"
  BY <1>2, <1>4, <1>6
<1>7. CASE name \notin {"bookkeeping", "bucketInfo"}
  <2>1. WellListed(DelegateType[name], None)
    BY <1>1, <1>2, <1>3, <1>7
  <2> QED  BY <1>7, <2>1
<1> QED  BY <1>5, <1>6, <1>7

LEMMA VotingFields ==
  ASSUME NEW name \in NamesOf("voting")  PROVE WellListed(VotingType[name], None)
<1>1. name \in {"candidateInfo", "votingMeta", "rewardSources"}
  BY DEF NamesOf
<1>2. /\ VotingType["candidateInfo"] = NonNull("CandidateInfoList", NoArgs)
      /\ VotingType["votingMeta"] = Null("VotingMeta", NoArgs)
      /\ VotingType["rewardSources"] = Null("RewardSources", [voterIotexAddress |-> Must("String")])
  BY DEF VotingType
<1>3. /\ WellListed(NonNull("CandidateInfoList", NoArgs), None) /\ WellListed(Null("VotingMeta", NoArgs), None)
      /\ WellListed(Null("RewardSources", [voterIotexAddress |-> Must("String")]), None)
  BY OtherField, ArgumentsAre, ListsBelow
<1> QED  BY <1>1, <1>2, <1>3

LEMMA ActionTypes ==
  /\ WellListed(ActionType["byHash"], None)
  /\ WellListed(ActionType["evmTransfersByAddress"], "evmTransfers")
  /\ \A name \in {"byDates", "byType", "byAddressAndType", "byAddress", "byVoter", "byBucketIndex"} :
       WellListed(ActionType[name], "actions")
<1>1. /\ ActionType["byDates"] = Null("ActionList", [startDate |-> Must("Int"), endDate |-> Must("Int")])
      /\ ActionType["byHash"] = Null("ActionDetail", [actHash |-> Must("String")])
      /\ ActionType["byAddress"] = Null("ActionList", [address |-> Must("String")])
      /\ ActionType["byAddressAndType"] = Null("ActionList", [address |-> Must("String"), type |-> Must("String")])
      /\ ActionType["byBucketIndex"] = Null("ActionList", [bucketIndex |-> Must("Int")])
      /\ ActionType["evmTransfersByAddress"] = Null("EvmTransferList", [address |-> Must("String")])
      /\ ActionType["byType"] = Null("ActionList", [type |-> Must("String")])
      /\ ActionType["byVoter"] = Null("ActionList", [voter |-> Must("String")])
  BY DEF ActionType
<1>2. WellListed(Null("ActionDetail", [actHash |-> Must("String")]), None)
  BY OtherField, ArgumentsAre, ListsBelow
<1>3. WellListed(Null("EvmTransferList", [address |-> Must("String")]), "evmTransfers")
  BY NotNone, ListField, ArgumentsAre, ListsBelow
<1>4. \A args : Unranged(args) => WellListed(Null("ActionList", args), "actions")
  BY NotNone, ListField, ListsBelow
<1> QED  BY <1>1, <1>2, <1>3, <1>4, ArgumentsAre

LEMMA Hermes2Fields ==
  /\ WellListed(Hermes2Type["byDelegate"], "voterInfoList")
  /\ WellListed(Hermes2Type["byVoter"], "delegateInfoList")
  /\ WellListed(Hermes2Type["hermesMeta"], None)
<1>1. /\ Hermes2Type["byDelegate"] = Null("ByDelegateResponse", [delegateName |-> Must("String")])
      /\ Hermes2Type["byVoter"] = Null("ByVoterResponse", [voterAddress |-> Must("String")])
      /\ Hermes2Type["hermesMeta"] = Null("HermesMeta", NoArgs)
  BY DEF Hermes2Type
<1>2. /\ WellListed(Null("ByDelegateResponse", [delegateName |-> Must("String")]), "voterInfoList")
      /\ WellListed(Null("ByVoterResponse", [voterAddress |-> Must("String")]), "delegateInfoList")
  BY NotNone, ListField, ArgumentsAre, ListsBelow
<1>3. WellListed(Null("HermesMeta", NoArgs), None)
  BY OtherField, ArgumentsAre, ListsBelow
<1> QED  BY <1>1, <1>2, <1>3

(* Xrc20 asks for the page in the field, but for the holders of a token.   *)
LEMMA TokenTypes ==
  /\ WellListed(Xrc20Type["tokenHolderAddresses"], "addresses")
  /\ \A name \in NamesOf("xrc20") : \A n \in DOMAIN Xrc20Type[name].args : Xrc20Type[name].args[n].kind # "EpochRange"
<1>1. /\ Xrc20Type["byContractAddress"].args = OfPage /\ Xrc20Type["byAddress"].args = OfPage
      /\ Xrc20Type["byPage"].args = [pagination |-> Must("Pagination")]
      /\ Xrc20Type["xrc20Addresses"].args = [pagination |-> Must("Pagination")]
      /\ Xrc20Type["byContractAndAddress"].args = Joined(OfPage, [contract |-> Must("String")])
      /\ Xrc20Type["tokenHolderAddresses"] = Null("XrcHolderAddressList", [tokenAddress |-> Must("String")])
  BY DEF Xrc20Type, Null
<1>2. WellListed(Null("XrcHolderAddressList", [tokenAddress |-> Must("String")]), "addresses")
  BY NotNone, ListField, ArgumentsAre, ListsBelow
<1>3. \A n \in DOMAIN OfPage : OfPage[n].kind # "EpochRange"
  BY DEF OfPage, Must
<1>4. \A n \in DOMAIN Joined(OfPage, [contract |-> Must("String")]) :
        Joined(OfPage, [contract |-> Must("String")])[n].kind # "EpochRange"
  BY DEF Joined, OfPage, Must
<1>5. \A n \in DOMAIN [pagination |-> Must("Pagination")] : [pagination |-> Must("Pagination")][n].kind # "EpochRange"
  BY DEF Must
<1>6. \A n \in DOMAIN [tokenAddress |-> Must("String")] : [tokenAddress |-> Must("String")][n].kind # "EpochRange"
  BY DEF Must
<1>7. Xrc20Type["tokenHolderAddresses"].args = [tokenAddress |-> Must("String")]
  BY <1>1 DEF Null
<1>8. NamesOf("xrc20") = {"byContractAddress", "byAddress", "byPage", "xrc20Addresses", "tokenHolderAddresses",
                          "byContractAndAddress"}
  BY DEF NamesOf
<1> QED  BY <1>1, <1>2, <1>3, <1>4, <1>5, <1>6, <1>7, <1>8

LEMMA FieldsListed ==
  ASSUME NEW root, root.name \in Inner \ {"chain"}, NEW name \in NamesOf(root.name),
         NEW type, type = FieldsOf[TypeOf(root)][name]
  PROVE  /\ \A n \in DOMAIN type.args : type.args[n].kind # "EpochRange"
         /\ (root.name = "xrc20" /\ name # "tokenHolderAddresses") \/ WellListed(type, Paginated(root, name))
<1>1. /\ FieldsOf["Account"] = AccountType /\ FieldsOf["Delegate"] = DelegateType /\ FieldsOf["Voting"] = VotingType
      /\ FieldsOf["Xrc20"] = Xrc20Type /\ FieldsOf["Action"] = ActionType /\ FieldsOf["Hermes2"] = Hermes2Type
  BY DEF FieldsOf
<1>2. (root.name = "xrc20" /\ name # "tokenHolderAddresses") \/ WellListed(type, Paginated(root, name))
  <2>1. CASE root.name = "account"
    <3>1. type = AccountType[name] /\ Paginated(root, name) = None
      BY <1>1, <2>1, TypesOfRoots, PaginatedIs DEF TypeOf
    <3> QED  BY <2>1, <3>1, AccountFields
  <2>2. CASE root.name = "delegate"
    <3>1. type = DelegateType[name]
      BY <1>1, <2>2, TypesOfRoots DEF TypeOf
    <3>2. Paginated(root, name) = CASE name = "bookkeeping" -> "rewardDistribution"
                                    [] name = "bucketInfo" -> "bucketInfoList"
                                    [] OTHER -> None
      BY <2>2, PaginatedIs
    <3>3. WellListed(DelegateType[name], CASE name = "bookkeeping" -> "rewardDistribution"
                                           [] name = "bucketInfo" -> "bucketInfoList"
                                           [] OTHER -> None)
      BY <2>2, DelegateFields
    <3> QED  BY <3>1, <3>2, <3>3
  <2>3. CASE root.name = "voting"
    <3>1. type = VotingType[name] /\ Paginated(root, name) = None
      BY <1>1, <2>3, TypesOfRoots, PaginatedIs DEF TypeOf
    <3> QED  BY <2>3, <3>1, VotingFields
  <2>4. CASE root.name = "xrc20"
    <3>1. type = Xrc20Type[name]
      BY <1>1, <2>4, TypesOfRoots DEF TypeOf
    <3>2. name = "tokenHolderAddresses" => Paginated(root, name) = "addresses"
      BY <2>4, PaginatedIs
    <3> QED  BY <2>4, <3>1, <3>2, TokenTypes
  <2>5. CASE root.name = "action"
    <3>1. type = ActionType[name]
      BY <1>1, <2>5, TypesOfRoots DEF TypeOf
    <3>2. name \in {"byHash", "evmTransfersByAddress"} \cup
                   {"byDates", "byType", "byAddressAndType", "byAddress", "byVoter", "byBucketIndex"}
      BY <2>5 DEF NamesOf
    <3>3. /\ name = "byHash" => Paginated(root, name) = None
          /\ name = "evmTransfersByAddress" => Paginated(root, name) = "evmTransfers"
          /\ name \in {"byDates", "byType", "byAddressAndType", "byAddress", "byVoter", "byBucketIndex"} =>
               Paginated(root, name) = "actions"
      BY <2>5, PaginatedIs
    <3> QED  BY <3>1, <3>2, <3>3, ActionTypes
  <2>6. CASE root.name = "hermes2"
    <3>1. type = Hermes2Type[name]
      BY <1>1, <2>6, TypesOfRoots DEF TypeOf
    <3>2. name \in {"byDelegate", "byVoter", "hermesMeta"}
      BY <2>6 DEF NamesOf
    <3>3. /\ name = "byDelegate" => Paginated(root, name) = "voterInfoList"
          /\ name = "byVoter" => Paginated(root, name) = "delegateInfoList"
          /\ name = "hermesMeta" => Paginated(root, name) = None
      BY <2>6, PaginatedIs
    <3> QED  BY <3>1, <3>2, <3>3, Hermes2Fields
  <2> QED  BY <2>1, <2>2, <2>3, <2>4, <2>5, <2>6 DEF Inner
<1>3. root.name = "xrc20" => \A n \in DOMAIN type.args : type.args[n].kind # "EpochRange"
  BY <1>1, TypesOfRoots, TokenTypes DEF TypeOf
<1> QED  BY <1>2, <1>3 DEF WellListed

(* Heeded, for any variables. *)
ReadFrom(vs, args, sel) ==
  \A n \in DOMAIN sel.args : (n \in DOMAIN args /\ args[n] = Meant(vs, sel.args[n])) \/ Lost(vs, sel.args[n])

LEMMA ReadIsHeeded ==
  ASSUME NEW vs, VariablesFit(vs), NEW sel, NEW args,
         \A n \in DOMAIN sel.args : args[n].kind # "EpochRange" /\ FitsKind(vs, args[n].kind, sel.args[n])
  PROVE  ReadFrom(vs, Read(vs, sel, args), sel)
<1>1. /\ DOMAIN Read(vs, sel, args) = DOMAIN sel.args
      /\ \A n \in DOMAIN sel.args : Read(vs, sel, args)[n] = parseVariables(vs, args[n].kind, sel.args[n])
  BY DEF Read
<1>2. ASSUME NEW n \in DOMAIN sel.args
      PROVE  parseVariables(vs, args[n].kind, sel.args[n]) = Meant(vs, sel.args[n]) \/ Lost(vs, sel.args[n])
  BY ReadAsMeant
<1> QED  BY <1>1, <1>2 DEF ReadFrom

LEMMA HeededJoined ==
  ASSUME NEW vs, NEW f, NEW g, NEW h, h = Joined(f, g), NEW sel
  PROVE  /\ ReadFrom(vs, f, sel) => ReadFrom(vs, h, sel)
         /\ ReadFrom(vs, g, sel) /\ DOMAIN f \cap DOMAIN sel.args = {} => ReadFrom(vs, h, sel)
<1>1. /\ DOMAIN h = DOMAIN f \cup DOMAIN g
      /\ \A n \in DOMAIN f : h[n] = f[n]
      /\ \A n \in DOMAIN g \ DOMAIN f : h[n] = g[n]
  BY DEF Joined
<1> QED  BY <1>1 DEF ReadFrom

(* What is read for a field that a root has. *)
LEMMA FieldHeeded ==
  ASSUME NEW doc, AcceptedDocument(doc), NEW r \in DOMAIN doc.roots, NEW root, root = doc.roots[r],
         root.name \in Inner \ {"chain"},
         NEW name \in NamesOf(root.name), NEW i \in Once(root.sub, name),
         NEW args, args = parseFieldArguments(doc.variables, root, name)
  PROVE  /\ ReadFrom(doc.variables, args, root.sub[i])
         /\ root.name # "xrc20" \/ name = "tokenHolderAddresses" =>
              \A j \in DOMAIN root.sub[i].sub :
                j \in Once(root.sub[i].sub, root.sub[i].sub[j].name) =>
                  ReadFrom(doc.variables, args, root.sub[i].sub[j])
<1> DEFINE vs == doc.variables
           field == root.sub[i]
           type == FieldsOf[TypeOf(root)][name]
           selected == Paginated(root, name)
           below == FieldsOf[type.type]
           outer == Read(vs, field, type.args)
           inner == Read(vs, LastNamed(field.sub, selected), below[selected].args)
<1>1. VariablesFit(vs)
  BY DEF AcceptedDocument
<1>2. Named(root.sub, name) = {i} /\ i \in DOMAIN root.sub /\ field.name = name
  BY DEF Once, Named
<1>3. Fits("Query", root) /\ Fits(TypeOf(root), field) /\ ValuesFit(vs, TypeOf(root), field)
  BY <1>2, FieldsFit
<1>4. InOrder(root.sub) /\ InOrder(field.sub)
      /\ DOMAIN field.args \subseteq DOMAIN type.args
      /\ (type.type = "scalar") = (field.sub = <<>>)
  BY <1>2, <1>3 DEF Fits
<1>5. FirstNamed(root.sub, name) = field
  BY <1>2, <1>4, NamedFacts
<1>6. args = IF selected = None \/ Named(field.sub, selected) = {} THEN outer ELSE Joined(inner, outer)
  BY <1>5, ParsedFrom
<1>7. /\ \A n \in DOMAIN type.args : type.args[n].kind # "EpochRange"
      /\ (root.name = "xrc20" /\ name # "tokenHolderAddresses") \/ WellListed(type, selected)
  BY FieldsListed
<1>8. ReadFrom(vs, outer, field)
  <2>1. \A n \in DOMAIN field.args : FitsKind(vs, type.args[n].kind, field.args[n])
    BY <1>2, <1>3 DEF ValuesFit
  <2> HIDE DEF vs, field, type
  <2> QED  BY <1>1, <1>4, <1>7, <2>1, ReadIsHeeded
<1>9. \A j \in DOMAIN field.sub :
        /\ Fits(type.type, field.sub[j]) /\ ValuesFit(vs, type.type, field.sub[j])
        /\ type.type # "scalar"
  <2>1. TypeBelow(root, field) = type.type
    BY <1>2 DEF TypeBelow
  <2>2. \A j \in DOMAIN field.sub : Fits(type.type, field.sub[j]) /\ ValuesFit(vs, type.type, field.sub[j])
    BY <1>2, <2>1, FieldsFit
  <2>3. field.sub = <<>> => DOMAIN field.sub = {}
    OBVIOUS
  <2> QED  BY <1>4, <2>2, <2>3
<1>10. root.name = "xrc20" /\ name # "tokenHolderAddresses" => selected = None
  BY PaginatedIs
<1> HIDE DEF vs, field, type, selected, below, outer, inner
<1>11. ASSUME selected # None, NEW j \in DOMAIN field.sub, field.sub[j].name = selected
       PROVE  below[selected].args = PageArgs /\ DOMAIN field.sub[j].args \subseteq {"pagination"}
  <2>1. HasLists(below, {selected} \ {None})
    BY <1>7, <1>9, <1>10, <1>11 DEF WellListed, below
  <2>2. selected \in DOMAIN below /\ DOMAIN field.sub[j].args \subseteq DOMAIN below[selected].args
    BY <1>9, <1>11 DEF Fits, below
  <2>3. below[selected].args = PageArgs
    BY <1>11, <2>1, <2>2 DEF HasLists
  <2> QED  BY <2>2, <2>3 DEF PageArgs
<1>12. ReadFrom(vs, args, field)
  <2>1. CASE selected = None \/ Named(field.sub, selected) = {}
    BY <1>6, <1>8, <2>1
  <2>2. CASE selected # None /\ Named(field.sub, selected) # {}
    <3>1. PICK j \in Named(field.sub, selected) : LastNamed(field.sub, selected) = field.sub[j]
      BY <1>4, <2>2, NamedFacts
    <3>2. DOMAIN inner \subseteq {"pagination"}
      <4>1. j \in DOMAIN field.sub /\ field.sub[j].name = selected
        BY <3>1 DEF Named
      <4>2. DOMAIN field.sub[j].args \subseteq {"pagination"}
        BY <1>11, <2>2, <4>1
      <4> QED  BY <3>1, <4>2 DEF inner, Read
    <3>3. "pagination" \notin DOMAIN field.args
      BY <1>4, <1>7, <1>10, <2>2 DEF WellListed
    <3>4. DOMAIN inner \cap DOMAIN field.args = {}
      BY <3>2, <3>3
    <3> QED  BY <1>6, <1>8, <2>2, <3>4, HeededJoined
  <2> QED  BY <2>1, <2>2
<1>13. ASSUME root.name # "xrc20" \/ name = "tokenHolderAddresses",
              NEW j \in DOMAIN field.sub, NEW sel, sel = field.sub[j], j \in Once(field.sub, sel.name)
       PROVE  ReadFrom(vs, args, sel)
  <2>1. Fits(type.type, sel) /\ ValuesFit(vs, type.type, sel) /\ type.type # "scalar"
    BY <1>9, <1>13
  <2>2. HasLists(below, {selected} \ {None})
    BY <1>7, <1>13, <2>1 DEF WellListed, below
  <2>3. Named(field.sub, sel.name) = {j}
    BY <1>13 DEF Once
  <2>4. CASE sel.name = selected /\ selected # None
    <3>1. LastNamed(field.sub, selected) = sel
      BY <1>4, <1>13, <2>3, <2>4, NamedFacts
    <3>2. below[selected].args = PageArgs /\ DOMAIN sel.args \subseteq {"pagination"}
      BY <1>11, <1>13, <2>4
    <3>3. \A n \in DOMAIN sel.args : FitsKind(vs, below[selected].args[n].kind, sel.args[n])
      BY <2>1, <2>4 DEF ValuesFit, below
    <3>4. \A n \in DOMAIN sel.args : below[selected].args[n].kind # "EpochRange"
      BY <3>2 DEF PageArgs, May
    <3>5. ReadFrom(vs, inner, sel)
      BY <1>1, <3>1, <3>3, <3>4, ReadIsHeeded DEF inner
    <3>6. args = Joined(inner, outer)
      BY <1>6, <2>3, <2>4
    <3> QED  BY <3>5, <3>6, HeededJoined
  <2>5. CASE sel.name # selected \/ selected = None
    <3>1. sel.name \in DOMAIN below /\ DOMAIN sel.args \subseteq DOMAIN below[sel.name].args
      BY <2>1 DEF Fits, below
    <3>2. DOMAIN below[sel.name].args = {}
      BY <2>2, <2>5, <3>1 DEF HasLists
    <3> QED  BY <3>1, <3>2 DEF ReadFrom
  <2> QED  BY <2>4, <2>5
<1> QED  BY <1>12, <1>13 DEF vs, field

(* An ask is for a field of an inner root, or for a root that does all     *)
(* itself, and nothing below such a root has its name.                     *)
LEMMA NoneOfItsName ==
  \A name \in Direct : name \notin DOMAIN FieldsOf[FieldsOf["Query"][name].type]
<1>1. /\ FieldsOf["Query"] = QueryType /\ FieldsOf["Hermes"] = HermesType
      /\ FieldsOf["AverageHermesStats"] = AverageHermesStatsType
      /\ FieldsOf["TopHolder"] = TopHolderType /\ FieldsOf["BucketInfo"] = BucketInfoType
  BY DEF FieldsOf
<1>2. /\ QueryType["hermes"].type = "Hermes" /\ QueryType["hermesAverageStats"].type = "AverageHermesStats"
      /\ QueryType["topHolders"].type = "TopHolder"
      /\ QueryType["bucketsByVoter"].type = "BucketInfo" /\ QueryType["bucketsByCandidate"].type = "BucketInfo"
  BY DEF QueryType, Null, NonNull
<1>3. "hermes" \notin DOMAIN HermesType
  BY DEF HermesType, Joined, Scalars
<1>4. "hermesAverageStats" \notin DOMAIN AverageHermesStatsType
  BY DEF AverageHermesStatsType, Joined, Scalars
<1>5. "topHolders" \notin DOMAIN TopHolderType
  BY DEF TopHolderType, Scalars
<1>6. "bucketsByVoter" \notin DOMAIN BucketInfoType /\ "bucketsByCandidate" \notin DOMAIN BucketInfoType
  BY DEF BucketInfoType, Scalars
<1> QED  BY <1>1, <1>2, <1>3, <1>4, <1>5, <1>6 DEF Direct

LEMMA FieldAsked ==
  ASSUME NEW doc \in Forms, AcceptedDocument(doc), NEW a \in Asks(doc), a.of \in Inner \ {"chain"},
         NEW root, root = doc.roots[a.root]
  PROVE  /\ root.name = a.of /\ a.field \in NamesOf(a.of) /\ Named(root.sub, a.field) # {}
         /\ a.args = Joined(parseFieldArguments(doc.variables, root, a.field), MeantArgs(doc.variables, root))
<1>1. /\ a.root \in DOMAIN doc.roots /\ a.of = root.name
      /\ a.field \in Names(doc, a.root) /\ a = Ask(doc, a.root, a.field) /\ Known(a)
  BY AskFacts
<1>2. a.of \notin Direct
  BY InnerNames
<1>3. a.field \in NamesOf(a.of)
  BY <1>1, <1>2 DEF Known, FieldNames
<1>4. a.field \notin Supplies \cup Tips \cup {"supplies", "tip"}
  BY <1>3, InnerNames
<1>5. a.field \in CollectAllFields(root.sub)
  BY <1>1, <1>2, <1>4 DEF Names, Launched
<1>6. Named(root.sub, a.field) # {}
  BY <1>5 DEF CollectAllFields, Named
<1>7. ~HasNoFields(root, a.field)
  BY <1>1, <1>2, <1>4 DEF HasNoFields
<1>8. a.args = AskArgs(doc, root, a.field)
  <2> DEFINE args == AskArgs(doc, root, a.field)
             sub == IF HasNoFields(root, a.field) THEN {} ELSE haveField(root, a.field)
  <2>1. a = [root |-> a.root, of |-> root.name, field |-> a.field, args |-> args, sub |-> sub]
    BY <1>1 DEF Ask
  <2> HIDE DEF args, sub
  <2>2. a.args = args
    BY <2>1
  <2> QED  BY <2>2 DEF args
<1> QED  BY <1>1, <1>3, <1>6, <1>7, <1>8 DEF AskArgs

(* The arguments that are numbers, in the fields that list.                *)
Numbers == {"numPerPage", "page", "bucketIndex"}

Numbered(args) ==
  \A n \in DOMAIN args :
    /\ n = "pagination" => args[n].kind = "Pagination"
    /\ n \in Numbers => args[n].kind = "Int"
    /\ n = "numPerPage" => "page" \in DOMAIN args /\ ~args["page"].optional

LEMMA ArgumentsNumbered ==
  /\ \A name \in NamesOf("action") : Numbered(ActionType[name].args)
  /\ \A name \in NamesOf("xrc20") : Numbered(Xrc20Type[name].args)
  /\ \A name \in {"type", "address", "bucketIndex"} :
       /\ name = "type" => name \in DOMAIN ActionType["byType"].args /\ ~ActionType["byType"].args[name].optional
       /\ name = "address" => name \in DOMAIN ActionType["byAddress"].args /\ ~ActionType["byAddress"].args[name].optional
       /\ name = "bucketIndex" =>
            name \in DOMAIN ActionType["byBucketIndex"].args /\ ~ActionType["byBucketIndex"].args[name].optional
<1>1. /\ ActionType["byDates"].args = [startDate |-> Must("Int"), endDate |-> Must("Int")]
      /\ ActionType["byHash"].args = [actHash |-> Must("String")]
      /\ ActionType["byAddress"].args = [address |-> Must("String")]
      /\ ActionType["byAddressAndType"].args = [address |-> Must("String"), type |-> Must("String")]
      /\ ActionType["byBucketIndex"].args = [bucketIndex |-> Must("Int")]
      /\ ActionType["evmTransfersByAddress"].args = [address |-> Must("String")]
      /\ ActionType["byType"].args = [type |-> Must("String")]
      /\ ActionType["byVoter"].args = [voter |-> Must("String")]
  BY DEF ActionType, Null
<1>2. NamesOf("action") = {"byDates", "byHash", "byAddress", "byAddressAndType", "byBucketIndex",
                           "evmTransfersByAddress", "byType", "byVoter"}
  BY DEF NamesOf
<1>3. /\ Numbered([startDate |-> Must("Int"), endDate |-> Must("Int")]) /\ Numbered([actHash |-> Must("String")])
      /\ Numbered([address |-> Must("String")]) /\ Numbered([address |-> Must("String"), type |-> Must("String")])
      /\ Numbered([bucketIndex |-> Must("Int")]) /\ Numbered([type |-> Must("String")])
      /\ Numbered([voter |-> Must("String")]) /\ Numbered([tokenAddress |-> Must("String")])
  BY DEF Numbered, Numbers, Must
<1>4. /\ Xrc20Type["byContractAddress"].args = OfPage /\ Xrc20Type["byAddress"].args = OfPage
      /\ Xrc20Type["byPage"].args = [pagination |-> Must("Pagination")]
      /\ Xrc20Type["xrc20Addresses"].args = [pagination |-> Must("Pagination")]
      /\ Xrc20Type["byContractAndAddress"].args = Joined(OfPage, [contract |-> Must("String")])
      /\ Xrc20Type["tokenHolderAddresses"].args = [tokenAddress |-> Must("String")]
  BY DEF Xrc20Type, Null
<1>5. NamesOf("xrc20") = {"byContractAddress", "byAddress", "byPage", "xrc20Addresses", "tokenHolderAddresses",
                          "byContractAndAddress"}
  BY DEF NamesOf
<1>6. Numbered(OfPage)
  BY DEF OfPage, Numbered, Numbers, Must
<1>7. Numbered([pagination |-> Must("Pagination")])
  BY DEF Numbered, Numbers, Must
<1>8. Numbered(Joined(OfPage, [contract |-> Must("String")]))
  BY DEF OfPage, Joined, Numbered, Numbers, Must
<1>9. /\ "type" \in DOMAIN [type |-> Must("String")] /\ ~[type |-> Must("String")]["type"].optional
      /\ "address" \in DOMAIN [address |-> Must("String")] /\ ~[address |-> Must("String")]["address"].optional
      /\ "bucketIndex" \in DOMAIN [bucketIndex |-> Must("Int")] /\ ~[bucketIndex |-> Must("Int")]["bucketIndex"].optional
  BY DEF Must
<1>10. \A name \in NamesOf("action") : Numbered(ActionType[name].args)
  BY <1>1, <1>2, <1>3
<1>11. \A name \in NamesOf("xrc20") : Numbered(Xrc20Type[name].args)
  BY <1>3, <1>4, <1>5, <1>6, <1>7, <1>8
<1> QED  BY <1>1, <1>9, <1>10, <1>11

(* What is read for a field of Action or Xrc20: a page is one of numbers,  *)
(* numbers are numbers, and the arguments that must be there are.          *)
LEMMA NumbersAsked ==
  ASSUME NEW doc \in Forms, AcceptedDocument(doc), NEW a \in Asks(doc), a.of \in {"action", "xrc20"},
         NEW type, type = FieldsOf[TypeOf(doc.roots[a.root])][a.field]
  PROVE  /\ "pagination" \in DOMAIN a.args => \A m \in DOMAIN a.args["pagination"] : a.args["pagination"][m] \in Int
         /\ \A n \in DOMAIN a.args \cap Numbers : a.args[n] \in Int
         /\ "numPerPage" \in DOMAIN a.args => "page" \in DOMAIN a.args
         /\ \A n \in DOMAIN type.args : type.args[n].optional \/ n \in DOMAIN a.args
<1> DEFINE root == doc.roots[a.root]
           vs == doc.variables
           name == a.field
           selected == Paginated(root, name)
           field == FirstNamed(root.sub, name)
           below == FieldsOf[type.type]
           outer == Read(vs, field, type.args)
           inner == Read(vs, LastNamed(field.sub, selected), below[selected].args)
           read == parseFieldArguments(vs, root, name)
<1>1. a.of \in Inner \ {"chain"}
  BY DEF Inner
<1>2. /\ root.name = a.of /\ name \in NamesOf(a.of) /\ Named(root.sub, name) # {}
      /\ a.args = Joined(read, MeantArgs(vs, root))
  BY <1>1, FieldAsked
<1>3. a.root \in DOMAIN doc.roots
  BY AskFacts
<1>4. VariablesFit(vs) /\ Fits("Query", root) /\ InOrder(root.sub)
  <2>1. VariablesFit(vs)
    BY DEF AcceptedDocument
  <2>2. Fits("Query", root)
    BY <1>3, FieldsFit
  <2>3. InOrder(root.sub)
    <3> HIDE DEF root
    <3> QED  BY <2>2 DEF Fits
  <2> HIDE DEF vs, root
  <2> QED  BY <2>1, <2>2, <2>3
<1>5. PICK i \in DOMAIN root.sub : field = root.sub[i] /\ field.name = name
  BY <1>2, <1>4, NamedFacts DEF Named
<1>6. /\ Fits(TypeOf(root), field) /\ ValuesFit(vs, TypeOf(root), field)
      /\ \A j \in DOMAIN field.sub : Fits(type.type, field.sub[j]) /\ ValuesFit(vs, type.type, field.sub[j])
  BY <1>3, <1>5, FieldsFit DEF TypeBelow
<1>7. /\ DOMAIN field.args \subseteq DOMAIN type.args
      /\ \A n \in DOMAIN type.args : type.args[n].optional \/ n \in DOMAIN field.args
      /\ InOrder(field.sub)
      /\ \A n \in DOMAIN field.args : FitsKind(vs, type.args[n].kind, field.args[n])
      /\ DOMAIN field.sub # {} => type.type # "scalar"
  <2>1. field.sub = <<>> => DOMAIN field.sub = {}
    OBVIOUS
  <2>2. TypeOf(root) = TypeOf(doc.roots[a.root]) /\ FieldsOf[TypeOf(root)][field.name] = type
    BY <1>5
  <2> HIDE DEF root, vs, name, field
  <2> QED  BY <1>6, <2>1, <2>2 DEF Fits, ValuesFit
<1>8. read = IF selected = None \/ Named(field.sub, selected) = {} THEN outer ELSE Joined(inner, outer)
  BY ParsedFrom
<1>9. /\ FieldsOf["Query"] = QueryType /\ FieldsOf["Action"] = ActionType /\ FieldsOf["Xrc20"] = Xrc20Type
  BY DEF FieldsOf
<1>10. Numbered(type.args)
  <2>1. CASE a.of = "action"
    <3>1. type = ActionType[name]
      BY <1>2, <1>9, <2>1, TypesOfRoots DEF TypeOf
    <3> QED  BY <1>2, <2>1, <3>1, ArgumentsNumbered
  <2>2. CASE a.of = "xrc20"
    <3>1. type = Xrc20Type[name]
      BY <1>2, <1>9, <2>2, TypesOfRoots DEF TypeOf
    <3> QED  BY <1>2, <2>2, <3>1, ArgumentsNumbered
  <2> QED  BY <2>1, <2>2
<1>11. DOMAIN a.args = DOMAIN read /\ \A n \in DOMAIN read : a.args[n] = read[n]
  <2>1. QueryType["action"].args = NoArgs /\ QueryType["xrc20"].args = NoArgs
    BY DEF QueryType, Null
  <2>2. DOMAIN root.args = {}
    BY <1>2, <1>4, <1>9, <2>1, NoArguments DEF Fits
  <2>3. DOMAIN MeantArgs(vs, root) = {}
    BY <2>2 DEF MeantArgs
  <2> DEFINE meant == MeantArgs(vs, root)
  <2>4. a.args = Joined(read, meant)
    BY <1>2
  <2> HIDE DEF read, vs, root, meant
  <2>5. DOMAIN a.args = DOMAIN read \cup DOMAIN meant /\ \A n \in DOMAIN read : a.args[n] = read[n]
    BY <2>4 DEF Joined
  <2> QED  BY <2>3, <2>5 DEF meant
<1>12. (a.of = "xrc20" /\ name # "tokenHolderAddresses") \/ WellListed(type, selected)
  BY <1>1, <1>2, FieldsListed
<1>13. a.of = "xrc20" /\ name # "tokenHolderAddresses" => selected = None
  BY <1>2, PaginatedIs
<1> HIDE DEF root, vs, name, selected, field, below, outer, inner, read
<1>14. /\ DOMAIN outer = DOMAIN field.args
       /\ \A n \in DOMAIN field.args : outer[n] = parseVariables(vs, type.args[n].kind, field.args[n])
  BY DEF outer, Read
<1>15. /\ "pagination" \in DOMAIN outer => \A m \in DOMAIN outer["pagination"] : outer["pagination"][m] \in Int
       /\ \A n \in DOMAIN outer \cap Numbers : outer[n] \in Int
  <2>1. "pagination" \in DOMAIN outer => \A m \in DOMAIN outer["pagination"] : outer["pagination"][m] \in Int
    <3> SUFFICES ASSUME "pagination" \in DOMAIN outer
                 PROVE  \A m \in DOMAIN outer["pagination"] : outer["pagination"][m] \in Int
      OBVIOUS
    <3>1. type.args["pagination"].kind = "Pagination"
      BY <1>7, <1>10, <1>14 DEF Numbered
    <3>2. FitsKind(vs, "Pagination", field.args["pagination"])
      BY <1>7, <1>14, <3>1
    <3>3. outer["pagination"] = parseVariables(vs, "Pagination", field.args["pagination"])
      BY <1>14, <3>1
    <3> QED  BY <1>4, <3>2, <3>3, NumbersRead
  <2>2. ASSUME NEW n \in DOMAIN outer \cap Numbers  PROVE outer[n] \in Int
    <3>1. type.args[n].kind = "Int"
      BY <1>7, <1>10, <1>14, <2>2 DEF Numbered
    <3>2. FitsKind(vs, "Int", field.args[n])
      BY <1>7, <1>14, <2>2, <3>1
    <3>3. outer[n] = parseVariables(vs, "Int", field.args[n])
      BY <1>14, <2>2, <3>1
    <3> QED  BY <1>4, <3>2, <3>3, NumbersRead
  <2> QED  BY <2>1, <2>2
<1>16. ASSUME selected # None, Named(field.sub, selected) # {}
       PROVE  /\ DOMAIN inner \subseteq {"pagination"}
              /\ "pagination" \in DOMAIN inner => \A m \in DOMAIN inner["pagination"] : inner["pagination"][m] \in Int
  <2>1. PICK j \in DOMAIN field.sub : LastNamed(field.sub, selected) = field.sub[j] /\ field.sub[j].name = selected
    BY <1>7, <1>16, NamedFacts DEF Named
  <2>2. HasLists(below, {selected} \ {None})
    BY <1>7, <1>12, <1>13, <1>16, <2>1 DEF WellListed, below
  <2>3. selected \in DOMAIN below /\ DOMAIN field.sub[j].args \subseteq DOMAIN below[selected].args
    BY <1>6, <2>1 DEF Fits, below
  <2>4. below[selected].args = PageArgs
    BY <1>16, <2>2, <2>3 DEF HasLists
  <2>5. \A n \in DOMAIN field.sub[j].args : FitsKind(vs, below[selected].args[n].kind, field.sub[j].args[n])
    BY <1>6, <2>1 DEF ValuesFit, below
  <2>6. /\ DOMAIN inner = DOMAIN field.sub[j].args
        /\ \A n \in DOMAIN inner : inner[n] = parseVariables(vs, below[selected].args[n].kind, field.sub[j].args[n])
    BY <2>1 DEF inner, Read
  <2>7. DOMAIN PageArgs = {"pagination"} /\ PageArgs["pagination"].kind = "Pagination"
    BY DEF PageArgs, May
  <2>8. ASSUME "pagination" \in DOMAIN inner
        PROVE  \A m \in DOMAIN inner["pagination"] : inner["pagination"][m] \in Int
    <3>1. FitsKind(vs, "Pagination", field.sub[j].args["pagination"])
      BY <2>4, <2>5, <2>6, <2>7, <2>8
    <3>2. inner["pagination"] = parseVariables(vs, "Pagination", field.sub[j].args["pagination"])
      BY <2>4, <2>6, <2>7, <2>8
    <3> QED  BY <1>4, <3>1, <3>2, NumbersRead
  <2> QED  BY <2>3, <2>4, <2>6, <2>7, <2>8
<1>17. /\ \A n \in DOMAIN outer : n \in DOMAIN read
       /\ \A n \in DOMAIN read \ {"pagination"} : n \in DOMAIN outer /\ read[n] = outer[n]
       /\ "pagination" \in DOMAIN read => \A m \in DOMAIN read["pagination"] : read["pagination"][m] \in Int
  <2>1. CASE selected = None \/ Named(field.sub, selected) = {}
    <3>1. read = outer
      BY <1>8, <2>1
    <3> QED  BY <1>15, <3>1
  <2>2. CASE selected # None /\ Named(field.sub, selected) # {}
    <3>1. read = Joined(inner, outer)
      BY <1>8, <2>2
    <3>2. /\ DOMAIN read = DOMAIN inner \cup DOMAIN outer
          /\ \A n \in DOMAIN inner : read[n] = inner[n]
          /\ \A n \in DOMAIN outer \ DOMAIN inner : read[n] = outer[n]
      BY <3>1 DEF Joined
    <3>3. DOMAIN inner \subseteq {"pagination"}
      BY <1>16, <2>2
    <3>4. "pagination" \in DOMAIN inner => \A m \in DOMAIN inner["pagination"] : inner["pagination"][m] \in Int
      BY <1>16, <2>2
    <3> QED  BY <1>15, <3>2, <3>3, <3>4
  <2> QED  BY <2>1, <2>2
<1>18. "pagination" \in DOMAIN a.args => \A m \in DOMAIN a.args["pagination"] : a.args["pagination"][m] \in Int
  BY <1>11, <1>17
<1>19. "pagination" \notin Numbers /\ "numPerPage" # "pagination"
  BY DEF Numbers
<1>20. ASSUME NEW n \in DOMAIN a.args \cap Numbers  PROVE a.args[n] \in Int
  <2>1. n \in DOMAIN outer /\ a.args[n] = outer[n]
    BY <1>11, <1>17, <1>19, <1>20
  <2> QED  BY <1>15, <1>20, <2>1
<1>21. \A n \in DOMAIN type.args : type.args[n].optional \/ n \in DOMAIN a.args
  BY <1>7, <1>11, <1>14, <1>17
<1>22. "numPerPage" \in DOMAIN a.args => "page" \in DOMAIN a.args
  <2>1. "numPerPage" \in DOMAIN a.args => "numPerPage" \in DOMAIN type.args
    BY <1>7, <1>11, <1>14, <1>17, <1>19
  <2> QED  BY <1>10, <1>21, <2>1 DEF Numbered
<1> QED  BY <1>18, <1>20, <1>21, <1>22

(* A page is cut by numbers, whatever the client has written.              *)
THEOREM PagesAreNumbers ==
  ASSUME NEW doc \in Forms, AcceptedDocument(doc), NEW a \in Asks(doc)
  PROVE  /\ Lists(a) \/ a.field = "tokenHolderAddresses" => Page(a).skip \in Int /\ Page(a).first \in Int
         /\ a.field = "byBucketIndex" => a.args.bucketIndex # NoBucket
         /\ a.of = "action" =>
              (a.field = "byType" => "type" \in DOMAIN a.args) /\ (a.field = "byAddress" => "address" \in DOMAIN a.args)
<1>1. /\ a.root \in DOMAIN doc.roots /\ a.of = doc.roots[a.root].name /\ Known(a)
  BY AskFacts
<1>2. Lists(a) \/ a.field = "tokenHolderAddresses" => a.of \in {"action", "xrc20"}
  <2>1. Lists(a) => a.of \in {"action", "xrc20"}
    BY DEF Lists
  <2>2. ASSUME a.field = "tokenHolderAddresses"  PROVE a.of = "xrc20"
    BY <1>1, <2>2 DEF Known, FieldNames, NamesOf, Inner, Direct, ChainNames, Supplies, Tips
  <2> QED  BY <2>1, <2>2
<1>3. a.field = "byBucketIndex" => a.of = "action"
  BY <1>1 DEF Known, FieldNames, NamesOf, Inner, Direct, ChainNames, Supplies, Tips
<1>4. ASSUME a.of \in {"action", "xrc20"}  PROVE Page(a).skip \in Int /\ Page(a).first \in Int
  <2>1. CASE "pagination" \in DOMAIN a.args
    <3>1. \A n : Child(a.args.pagination, n) \in Int
      BY <1>4, <2>1, NumbersAsked DEF Child
    <3>2. Page(a) = [skip |-> Child(a.args.pagination, "skip"), first |-> Child(a.args.pagination, "first")]
      BY <2>1 DEF Page
    <3> QED  BY <3>1, <3>2
  <2>2. CASE "pagination" \notin DOMAIN a.args /\ "numPerPage" \in DOMAIN a.args
    <3>1. a.args.numPerPage \in Int /\ a.args.page \in Int
      BY <1>4, <2>2, NumbersAsked DEF Numbers
    <3>2. PICK n \in Int : n = IF a.args.page < 1 THEN 0 ELSE a.args.page - 1
      BY <3>1
    <3>3. Page(a) = [skip |-> n * a.args.numPerPage, first |-> a.args.numPerPage]
      BY <2>2, <3>2 DEF Page
    <3>4. n * a.args.numPerPage \in Int
      BY <3>1
    <3> QED  BY <3>1, <3>3, <3>4
  <2>3. CASE "pagination" \notin DOMAIN a.args /\ "numPerPage" \notin DOMAIN a.args
    BY <2>3 DEF Page, DefaultPageSize
  <2> QED  BY <2>1, <2>2, <2>3
<1>5. FieldsOf["Action"] = ActionType
  BY DEF FieldsOf
<1>6. ASSUME a.of = "action", NEW type, type = FieldsOf[TypeOf(doc.roots[a.root])][a.field]
      PROVE  type = ActionType[a.field] /\ \A n \in DOMAIN type.args : type.args[n].optional \/ n \in DOMAIN a.args
  <2>1. type = ActionType[a.field]
    BY <1>1, <1>5, <1>6, TypesOfRoots DEF TypeOf
  <2>2. \A n \in DOMAIN type.args : type.args[n].optional \/ n \in DOMAIN a.args
    BY <1>6, NumbersAsked
  <2> QED  BY <2>1, <2>2
<1>7. a.of = "action" =>
        /\ a.field = "byType" => "type" \in DOMAIN a.args
        /\ a.field = "byAddress" => "address" \in DOMAIN a.args
        /\ a.field = "byBucketIndex" => "bucketIndex" \in DOMAIN a.args
  BY <1>6, ArgumentsNumbered
<1>8. a.field = "byBucketIndex" => a.args.bucketIndex \in Int
  BY <1>3, <1>7, NumbersAsked DEF Numbers
<1> QED  BY <1>2, <1>4, <1>7, <1>8, RequestsAssumption

-------------------------------------------------------------------------------
(* What goroutines may come to.                                            *)
Plain(a, outcomes) == \A o \in outcomes : o = More \/ o = Failure \/ \E x : o = Write(a.field, x)

(* CountThenList and ListThenCount, by what their queries find.            *)
Counted(a, s, n, none, rows) ==
  IF Broken \in ToSet(s) THEN {Failure}
  ELSE IF Len(s) < 2 THEN {More}
  ELSE {Write(a.field, IF page = {} THEN NotExist(none) ELSE Found(n, page)) : page \in Pages(a, rows)}

ListedFirst(a, s, rows, n) ==
  IF Broken \in ToSet(s) THEN {Failure}
  ELSE IF s = <<>> THEN {More}
  ELSE IF {} \in Pages(a, rows) THEN {Write(a.field, NotExist(0))}
  ELSE IF Len(s) < 2 THEN {More}
  ELSE {Write(a.field, Found(n, page)) : page \in Pages(a, rows)}

LEMMA CountedPlain == \A a, s, n, none, rows : Plain(a, Counted(a, s, n, none, rows))
BY DEF Plain, Counted

LEMMA ListedPlain == \A a, s, rows, n : Plain(a, ListedFirst(a, s, rows, n))
BY DEF Plain, ListedFirst

LEMMA VotesPlain ==
  \A a, s : /\ Plain(a, Perhaps(a, s)) /\ Plain(a, OrFail(a, s)) /\ Plain(a, OrEmpty(a, s))
            /\ Plain(a, Decoded(a, s)) /\ Plain(a, {Failure})
            /\ Plain(a, getBookkeeping(a, s)) /\ Plain(a, getBucketInfo(a, s))
<1> SUFFICES ASSUME NEW a, NEW s
             PROVE  /\ Plain(a, Perhaps(a, s)) /\ Plain(a, OrFail(a, s)) /\ Plain(a, OrEmpty(a, s))
                    /\ Plain(a, Decoded(a, s)) /\ Plain(a, {Failure})
                    /\ Plain(a, getBookkeeping(a, s)) /\ Plain(a, getBucketInfo(a, s))
  OBVIOUS
<1>1. Plain(a, All(a)) /\ Plain(a, {Failure}) /\ Plain(a, Cut(a))
  BY DEF Plain, All, Cut
<1>2. Plain(a, {Write(a.field, NotExist(0))}) /\ Plain(a, {Write(a.field, Found(0, {}))})
  BY DEF Plain
<1>3. \A some, none : Plain(a, some) /\ Plain(a, none) => Plain(a, Answer(s, some, none))
  BY DEF Plain, Answer
<1> QED  BY <1>1, <1>2, <1>3 DEF Perhaps, Decoded, OrFail, OrEmpty, getBookkeeping, getBucketInfo

LEMMA AccountPlain ==
  ASSUME NEW a, a.field \in NamesOf("account"), NEW s
  PROVE  Plain(a, Account(a, s))
<1>1. \A pages : Plain(a, Listed(a, pages))
  BY DEF Plain, Listed
<1>2. Plain(a, getActiveAccounts(a, s))
  BY <1>1 DEF getActiveAccounts, OneQuery, Plain
<1>3. Plain(a, getTotalNumberOfHolders(a, s))
  BY DEF getTotalNumberOfHolders, OneQuery, Plain
<1>4. Plain(a, getTotalAccountSupply(a, s))
  BY DEF getTotalAccountSupply, OneQuery, Plain
<1>5. Plain(a, getAlias(a, s)) /\ Plain(a, getOperatorAddress(a, s))
  BY VotesPlain DEF getAlias, getOperatorAddress
<1>6. a.field \in {"activeAccounts", "alias", "operatorAddress", "totalNumberOfHolders", "totalAccountSupply"}
  BY DEF NamesOf
<1> QED  BY <1>2, <1>3, <1>4, <1>5, <1>6 DEF Account

LEMMA ChainPlain ==
  ASSUME NEW a, a.field \in ChainNames \cup {"supplies", "tip"}, NEW s
  PROVE  Plain(a, Chain(a, s))
<1>1. Plain(a, getLastEpochAndHeight(a, s)) \/ a.field # "tip"
  BY DEF getLastEpochAndHeight, AfterTip, Plain
<1>2. Plain(a, getTPS(a, s))
  BY DEF getTPS, AfterTip, Plain
<1>3. Plain(a, getNumberOfActions(a, s))
  BY DEF getNumberOfActions, AfterTip, Plain
<1>4. Plain(a, gettotalTransferredTokens(a, s))
  BY DEF gettotalTransferredTokens, AfterTip, Plain
<1>5. Plain(a, getTotalAndTotalCirculatingSupply(a, s))
  BY DEF getTotalAndTotalCirculatingSupply, Plain
<1>6. Plain(a, getVotingResultMeta(a, s))
  BY VotesPlain DEF getVotingResultMeta
<1> QED  BY <1>1, <1>2, <1>3, <1>4, <1>5, <1>6 DEF Chain, ChainNames

LEMMA DelegatePlain ==
  ASSUME NEW a, a.field \in NamesOf("delegate"), NEW s
  PROVE  Plain(a, Delegate(a, s))
<1>1. a.field \in {"reward", "productivity", "bookkeeping", "bucketInfo", "staking", "probationHistoricalRate"}
  BY DEF NamesOf
<1> QED  BY <1>1, VotesPlain DEF Delegate, getRewards, getProductivity, getStaking, probationHistoricalRate

LEMMA VotingPlain ==
  ASSUME NEW a, a.field \in NamesOf("voting"), NEW s
  PROVE  Plain(a, Voting(a, s))
<1>1. a.field \in {"candidateInfo", "votingMeta", "rewardSources"}
  BY DEF NamesOf
<1> QED  BY <1>1, VotesPlain DEF Voting, getCandidateList, getVotingMeta, getRewardSources

LEMMA DistributionsPlain ==
  ASSUME NEW a, NEW s
  PROVE  Plain(a, getHermes2ByDelegate(a, s)) /\ Plain(a, getHermes2ByVoter(a, s))
<1>1. Plain(a, getHermes2ByDelegate(a, s))
  <2> DEFINE pairs(t) == GetHermes2ByDelegate(t, <<a.args.startEpoch, LastEpoch(a), a.args.delegateName>>)
             outcomes == Distributions2(a, s, ByDelegateParts(a), pairs)
  <2>1. Plain(a, outcomes)
    BY DEF Distributions2, Plain
  <2>2. getHermes2ByDelegate(a, s) = {Failure} \/ getHermes2ByDelegate(a, s) = outcomes
    BY DEF getHermes2ByDelegate
  <2> HIDE DEF outcomes
  <2> QED  BY <2>1, <2>2, VotesPlain
<1>2. Plain(a, getHermes2ByVoter(a, s))
  BY DEF getHermes2ByVoter, Distributions2, Plain
<1> QED  BY <1>1, <1>2

LEMMA Hermes2Plain ==
  ASSUME NEW a, a.field \in NamesOf("hermes2"), NEW s
  PROVE  Plain(a, Hermes2(a, s))
<1>1. a.field \in {"byDelegate", "byVoter", "hermesMeta"}
  BY DEF NamesOf
<1>2. Plain(a, getHermes2HermesMeta(a, s))
  BY DEF getHermes2HermesMeta, OneQuery, Plain
<1>3. Plain(a, {Failure})
  BY DEF Plain
<1> QED  BY <1>1, <1>2, <1>3, DistributionsPlain DEF Hermes2

(* The lists whose rows come first, and what a list is told with: rows of  *)
(* a page, and a count, each as of the block its query was answered as of. *)
ListFirst(a) == a.field \in {"byType", "tokenHolderAddresses"}

IsHolders(a) == a.of = "xrc20" /\ a.field = "tokenHolderAddresses"

ListTold(a, s, r) ==
  LET i == IF ListFirst(a) THEN 1 ELSE 2
  IN  /\ i \in DOMAIN s /\ s[i] \in 0 .. height
      /\ r.rows \in Pages(a, ListOf(a, T(s[i])))
      /\ r.exist => /\ r.rows # {}
                    /\ 3 - i \in DOMAIN s /\ s[3 - i] \in 0 .. height
                    /\ r.count = CountOf(a, T(s[3 - i]))

Answers == (0 .. height) \cup {Broken}

LEMMA AnswersOf ==
  ASSUME NEW s \in Seq(Answers), Broken \notin ToSet(s)
  PROVE  /\ Len(s) \in Nat
         /\ s # <<>> => 1 \in DOMAIN s /\ s[1] \in 0 .. height
         /\ Len(s) >= 2 => 1 \in DOMAIN s /\ 2 \in DOMAIN s /\ s[1] \in 0 .. height /\ s[2] \in 0 .. height
<1>1. Len(s) \in Nat /\ DOMAIN s = 1 .. Len(s) /\ \A i \in 1 .. Len(s) : s[i] \in Answers
  BY LenProperties, ElementOfSeq
<1>2. \A i \in 1 .. Len(s) : s[i] # Broken
  BY <1>1 DEF ToSet
<1>3. s # <<>> => Len(s) # 0
  BY EmptySeq
<1> QED  BY <1>1, <1>2, <1>3 DEF Answers

LEMMA CountedTells ==
  ASSUME NEW a, ~ListFirst(a), a.field \notin {"more", "error"}, NEW s \in Seq(Answers), NEW none,
         NEW o \in Counted(a, s, CountOf(a, T(s[1])), none, ListOf(a, T(s[2]))), o.to = a.field
  PROVE  ListTold(a, s, o.value)
<1> DEFINE n == CountOf(a, T(s[1]))
           rows == ListOf(a, T(s[2]))
<1>1. Broken \notin ToSet(s) /\ ~(Len(s) < 2)
  BY DEF Counted, More, Failure
<1>2. PICK page \in Pages(a, rows) : o = Write(a.field, IF page = {} THEN NotExist(none) ELSE Found(n, page))
  BY <1>1 DEF Counted
<1>3. 1 \in DOMAIN s /\ 2 \in DOMAIN s /\ s[1] \in 0 .. height /\ s[2] \in 0 .. height
  BY <1>1, AnswersOf
<1> HIDE DEF n, rows
<1>4. o.value.rows = page /\ (o.value.exist => page # {} /\ o.value.count = n)
  BY <1>2 DEF Write, NotExist, Found
<1> QED  BY <1>3, <1>4 DEF ListTold, n, rows

LEMMA ListedTells ==
  ASSUME NEW a, ListFirst(a), a.field \notin {"more", "error"}, NEW s \in Seq(Answers),
         NEW o \in ListedFirst(a, s, ListOf(a, T(s[1])), CountOf(a, T(s[2]))), o.to = a.field
  PROVE  ListTold(a, s, o.value)
<1> DEFINE n == CountOf(a, T(s[2]))
           rows == ListOf(a, T(s[1]))
<1>1. Broken \notin ToSet(s) /\ s # <<>>
  BY DEF ListedFirst, More, Failure
<1>2. 1 \in DOMAIN s /\ s[1] \in 0 .. height
  BY <1>1, AnswersOf
<1>3. CASE {} \in Pages(a, rows)
  <2>1. o = Write(a.field, NotExist(0))
    BY <1>1, <1>3 DEF ListedFirst
  <2> HIDE DEF n, rows
  <2>2. o.value.rows = {} /\ ~o.value.exist
    BY <2>1 DEF Write, NotExist
  <2> QED  BY <1>2, <1>3, <2>2 DEF ListTold, rows
<1>4. CASE {} \notin Pages(a, rows)
  <2>1. ~(Len(s) < 2)
    BY <1>1, <1>4 DEF ListedFirst, More
  <2>2. PICK page \in Pages(a, rows) : o = Write(a.field, Found(n, page))
    BY <1>1, <1>4, <2>1 DEF ListedFirst
  <2>3. 2 \in DOMAIN s /\ s[2] \in 0 .. height
    BY <1>1, <2>1, AnswersOf
  <2> HIDE DEF n, rows
  <2>4. o.value.rows = page /\ o.value.count = n /\ page # {}
    BY <1>4, <2>2 DEF Write, Found
  <2> QED  BY <1>2, <2>2, <2>3, <2>4 DEF ListTold, n, rows
<1> QED  BY <1>3, <1>4

(* The getters of lists are of these two kinds.                            *)
LEMMA ActionLists ==
  ASSUME NEW a, a.of = "action", NEW s
  PROVE  LET counted == Counted(a, s, CountOf(a, T(s[1])), 0, ListOf(a, T(s[2])))
         IN  /\ a.field = "byAddress" => getActionsByAddress(a, s) = counted
             /\ a.field = "byVoter" => getActionsByVoter(a, s) = counted
             /\ a.field = "byBucketIndex" =>
                  getActionsByBucketIndex(a, s) =
                    IF a.args.bucketIndex <= 0 THEN {Failure} ELSE {AsOfBucketIndex(o) : o \in counted}
             /\ a.field = "byAddressAndType" =>
                  getActionsByAddressAndType(a, s) =
                    IF Len(s) = 1 /\ s[1] # Broken /\ Page(a).skip >= CountOf(a, T(s[1])) THEN {Silence} ELSE counted
             /\ a.field = "byType" =>
                  \/ getActionsByType(a, s) = {Failure}
                  \/ getActionsByType(a, s) = ListedFirst(a, s, ListOf(a, T(s[1])), CountOf(a, T(s[2])))
<1> DEFINE counted == Counted(a, s, CountOf(a, T(s[1])), 0, ListOf(a, T(s[2])))
<1>1. \A v : ListOf(a, T(v)) = ActionList(a, T(v)) /\ CountOf(a, T(v)) = ActionCount(a, T(v))
  BY DEF ListOf, CountOf
<1>2. ASSUME a.field = "byAddress"  PROVE getActionsByAddress(a, s) = counted
  BY <1>1, <1>2 DEF getActionsByAddress, CountThenList, Counted, ActionList, ActionCount, Zero
<1>3. ASSUME a.field = "byVoter"  PROVE getActionsByVoter(a, s) = counted
  BY <1>1, <1>3 DEF getActionsByVoter, CountThenList, Counted, ActionList, ActionCount, Zero
<1>4. ASSUME a.field = "byBucketIndex"
      PROVE  getActionsByBucketIndex(a, s) =
               IF a.args.bucketIndex <= 0 THEN {Failure} ELSE {AsOfBucketIndex(o) : o \in counted}
  BY <1>1, <1>4 DEF getActionsByBucketIndex, CountThenList, Counted, ActionList, ActionCount, Zero
<1>5. ASSUME a.field = "byAddressAndType"
      PROVE  getActionsByAddressAndType(a, s) =
               IF Len(s) = 1 /\ s[1] # Broken /\ Page(a).skip >= CountOf(a, T(s[1])) THEN {Silence} ELSE counted
  BY <1>1, <1>5 DEF getActionsByAddressAndType, CountThenList, Counted, ActionList, ActionCount, Zero
<1>6. ASSUME a.field = "byType"
      PROVE  \/ getActionsByType(a, s) = {Failure}
             \/ getActionsByType(a, s) = ListedFirst(a, s, ListOf(a, T(s[1])), CountOf(a, T(s[2])))
  BY <1>1, <1>6 DEF getActionsByType, ListThenCount, ListedFirst, ActionList, ActionCount
<1> QED  BY <1>2, <1>3, <1>4, <1>5, <1>6

LEMMA TokenLists ==
  ASSUME NEW a, a.of = "xrc20", NEW s
  PROVE  LET counted == Counted(a, s, CountOf(a, T(s[1])), CountOf(a, T(s[1])), ListOf(a, T(s[2])))
         IN  /\ a.field = "byContractAddress" => getXrcByContractAddress(a, s) = counted
             /\ a.field = "byAddress" => getXrcByAddress(a, s) = counted
             /\ a.field = "byContractAndAddress" => getXrcByContractAndAddress(a, s) = counted
             /\ a.field = "byPage" => getXrcByPage(a, s) = counted
             /\ a.field = "tokenHolderAddresses" =>
                  xrcTokenHolderAddresses(a, s) =
                    {IF o = Write(a.field, NotExist(0)) THEN Failure ELSE o :
                       o \in ListedFirst(a, s, ListOf(a, T(s[1])), CountOf(a, T(s[2])))}
<1> DEFINE counted == Counted(a, s, CountOf(a, T(s[1])), CountOf(a, T(s[1])), ListOf(a, T(s[2])))
<1>1. \A v : ListOf(a, T(v)) = TokenList(a, T(v)) /\ CountOf(a, T(v)) = TokenCount(a, T(v))
  BY DEF ListOf, CountOf
<1>2. ASSUME a.field = "byContractAddress"  PROVE getXrcByContractAddress(a, s) = counted
  BY <1>1, <1>2 DEF getXrcByContractAddress, CountThenList, Counted, TokenList, TokenCount, Same
<1>3. ASSUME a.field = "byAddress"  PROVE getXrcByAddress(a, s) = counted
  BY <1>1, <1>3 DEF getXrcByAddress, CountThenList, Counted, TokenList, TokenCount, Same
<1>4. ASSUME a.field = "byContractAndAddress"  PROVE getXrcByContractAndAddress(a, s) = counted
  BY <1>1, <1>4 DEF getXrcByContractAndAddress, CountThenList, Counted, TokenList, TokenCount, Same
<1>5. ASSUME a.field = "byPage"  PROVE getXrcByPage(a, s) = counted
  BY <1>1, <1>5 DEF getXrcByPage, CountThenList, Counted, TokenList, TokenCount, Same
<1>6. ASSUME a.field = "tokenHolderAddresses"
      PROVE  xrcTokenHolderAddresses(a, s) =
               {IF o = Write(a.field, NotExist(0)) THEN Failure ELSE o :
                  o \in ListedFirst(a, s, ListOf(a, T(s[1])), CountOf(a, T(s[2])))}
  BY <1>1, <1>6 DEF xrcTokenHolderAddresses, ListThenCount, ListedFirst, TokenList, TokenCount
<1> QED  BY <1>2, <1>3, <1>4, <1>5, <1>6

(* How a goroutine comes to an end: with a field, with what another field  *)
(* is written with, or, past the end, with nothing.                        *)
ElseWhere(a, o) == a.of = "action" /\ a.field = "byBucketIndex" /\ \E x : o = Write("byAddress", x) /\ ~x.exist

PastEnd(a, s) ==
  /\ a.of = "action" /\ a.field = "byAddressAndType"
  /\ 1 \in DOMAIN s /\ s[1] \in 0 .. height /\ Page(a).skip >= CountOf(a, T(s[1]))

Outcome(a, s, o) ==
  \/ o = More \/ o = Failure \/ \E x : o = Write(a.field, x)
  \/ ElseWhere(a, o)
  \/ o = Silence /\ PastEnd(a, s)

LEMMA PlainIsOutcome ==
  ASSUME NEW a, NEW s, NEW outcomes, Plain(a, outcomes)
  PROVE  \A o \in outcomes : Outcome(a, s, o)
BY DEF Plain, Outcome

LEMMA ActionOutcomes ==
  ASSUME NEW a, a.of = "action", a.field \in NamesOf("action"), NEW s \in Seq(Answers)
  PROVE  \A o \in Action(a, s) : Outcome(a, s, o)
<1> DEFINE counted == Counted(a, s, CountOf(a, T(s[1])), 0, ListOf(a, T(s[2])))
<1>1. a.field \in {"byDates", "byHash", "byAddress", "byAddressAndType", "byBucketIndex",
                   "evmTransfersByAddress", "byType", "byVoter"}
  BY DEF NamesOf
<1>2. CASE BadPagination(a) \/ (a.field = "byType" /\ "pagination" \notin DOMAIN a.args)
  <2>1. Action(a, s) = {Failure}
    BY <1>2 DEF Action
  <2> QED  BY <2>1 DEF Outcome
<1>3. CASE ~(BadPagination(a) \/ (a.field = "byType" /\ "pagination" \notin DOMAIN a.args))
  <2>1. CASE a.field = "byDates"
    <3>1. Action(a, s) = getActionsByDates(a, s)
      BY <1>3, <2>1 DEF Action
    <3>2. Plain(a, getActionsByDates(a, s))
      BY DEF getActionsByDates, ListThenCount, Plain
    <3> QED  BY <3>1, <3>2, PlainIsOutcome
  <2>2. CASE a.field = "byHash"
    <3>1. Action(a, s) = getActionByHash(a, s)
      BY <1>3, <2>2 DEF Action
    <3>2. Plain(a, getActionByHash(a, s))
      BY DEF getActionByHash, Plain
    <3> QED  BY <3>1, <3>2, PlainIsOutcome
  <2>3. CASE a.field = "evmTransfersByAddress"
    <3>1. Action(a, s) = getEvmTransfersByAddress(a, s)
      BY <1>3, <2>3 DEF Action
    <3>2. Plain(a, getEvmTransfersByAddress(a, s))
      BY DEF getEvmTransfersByAddress, CountThenList, Plain
    <3> QED  BY <3>1, <3>2, PlainIsOutcome
  <2>4. CASE a.field = "byType"
    <3>1. Action(a, s) = getActionsByType(a, s)
      BY <1>3, <2>4 DEF Action
    <3> QED  BY <2>4, <3>1, ActionLists, ListedPlain, VotesPlain, PlainIsOutcome
  <2>5. CASE a.field \in {"byAddress", "byVoter"}
    <3>1. Action(a, s) = counted
      BY <1>3, <2>5, ActionLists DEF Action
    <3> QED  BY <3>1, CountedPlain, PlainIsOutcome
  <2>6. CASE a.field = "byBucketIndex"
    <3>1. Action(a, s) = getActionsByBucketIndex(a, s)
      BY <1>3, <2>6 DEF Action
    <3>2. Action(a, s) = IF a.args.bucketIndex <= 0 THEN {Failure} ELSE {AsOfBucketIndex(o) : o \in counted}
      BY <2>6, <3>1, ActionLists
    <3> HIDE DEF counted
    <3>3. Plain(a, counted)
      BY CountedPlain DEF counted
    <3>4. ASSUME NEW o \in counted  PROVE Outcome(a, s, AsOfBucketIndex(o))
      <4>1. CASE o = More \/ o = Failure
        <5>1. AsOfBucketIndex(o) = o
          BY <4>1 DEF AsOfBucketIndex, More, Failure
        <5> QED  BY <4>1, <5>1 DEF Outcome
      <4>2. ASSUME NEW x, o = Write(a.field, x)  PROVE Outcome(a, s, AsOfBucketIndex(o))
        <5>1. o = [to |-> a.field, value |-> x]
          BY <4>2 DEF Write
        <5>2. AsOfBucketIndex(o) = o \/ (AsOfBucketIndex(o) = [to |-> "byAddress", value |-> x] /\ ~x.exist)
          BY <5>1 DEF AsOfBucketIndex
        <5>3. AsOfBucketIndex(o) = Write(a.field, x) \/ (AsOfBucketIndex(o) = Write("byAddress", x) /\ ~x.exist)
          BY <5>1, <5>2 DEF Write
        <5> QED  BY <2>6, <5>3 DEF Outcome, ElseWhere
      <4> QED  BY <3>3, <4>1, <4>2 DEF Plain
    <3>5. Outcome(a, s, Failure)
      BY DEF Outcome
    <3> QED  BY <3>2, <3>4, <3>5
  <2>7. CASE a.field = "byAddressAndType"
    <3>1. Action(a, s) = getActionsByAddressAndType(a, s)
      BY <1>3, <2>7 DEF Action
    <3>2. Action(a, s) =
            IF Len(s) = 1 /\ s[1] # Broken /\ Page(a).skip >= CountOf(a, T(s[1])) THEN {Silence} ELSE counted
      BY <2>7, <3>1, ActionLists
    <3>3. CASE Len(s) = 1 /\ s[1] # Broken /\ Page(a).skip >= CountOf(a, T(s[1]))
      <4>1. 1 \in DOMAIN s /\ s[1] \in 0 .. height
        BY <3>3, LenProperties, ElementOfSeq DEF Answers
      <4>2. Outcome(a, s, Silence)
        BY <2>7, <3>3, <4>1 DEF Outcome, PastEnd
      <4> QED  BY <3>2, <3>3, <4>2
    <3>4. CASE ~(Len(s) = 1 /\ s[1] # Broken /\ Page(a).skip >= CountOf(a, T(s[1])))
      <4>1. Action(a, s) = counted
        BY <3>2, <3>4
      <4> QED  BY <4>1, CountedPlain, PlainIsOutcome
    <3> QED  BY <3>3, <3>4
  <2> QED  BY <1>1, <2>1, <2>2, <2>3, <2>4, <2>5, <2>6, <2>7
<1> QED  BY <1>2, <1>3

LEMMA XrcPlain ==
  ASSUME NEW a, a.of = "xrc20", a.field \in NamesOf("xrc20"), NEW s
  PROVE  Plain(a, Xrc20(a, s))
<1> DEFINE counted == Counted(a, s, CountOf(a, T(s[1])), CountOf(a, T(s[1])), ListOf(a, T(s[2])))
<1>1. a.field \in {"byContractAddress", "byAddress", "byPage", "xrc20Addresses", "tokenHolderAddresses",
                   "byContractAndAddress"}
  BY DEF NamesOf
<1>2. Plain(a, {Failure})
  BY DEF Plain
<1>3. Plain(a, counted)
  BY CountedPlain
<1>4. a.field = "tokenHolderAddresses" => Plain(a, xrcTokenHolderAddresses(a, s))
  <2> DEFINE listed == ListedFirst(a, s, ListOf(a, T(s[1])), CountOf(a, T(s[2])))
  <2>1. Plain(a, listed)
    BY ListedPlain
  <2> HIDE DEF listed
  <2>2. Plain(a, {IF o = Write(a.field, NotExist(0)) THEN Failure ELSE o : o \in listed})
    BY <2>1 DEF Plain
  <2> QED  BY <2>2, TokenLists DEF listed
<1>5. Plain(a, getXrcAddresses(a, s))
  <2> DEFINE all(t) == GetXrc20Addresses(t)
             many(t) == GetXrc20AddressesCount(t)
             listed == CountThenList(a, s, many, all, Same)
  <2>1. Plain(a, listed)
    BY DEF CountThenList, Plain
  <2>2. getXrcAddresses(a, s) = {[o EXCEPT !.value = IF o.to = a.field THEN [@ EXCEPT !.exist = TRUE] ELSE @] : o \in listed}
    BY DEF getXrcAddresses, CountThenList
  <2> HIDE DEF listed
  <2>3. ASSUME NEW o \in listed
        PROVE  LET r == [o EXCEPT !.value = IF o.to = a.field THEN [@ EXCEPT !.exist = TRUE] ELSE @]
               IN  r = More \/ r = Failure \/ \E x : r = Write(a.field, x)
    <3>1. a.field # "more" /\ a.field # "error"
      BY <1>1
    <3>2. CASE o = More \/ o = Failure
      BY <3>1, <3>2 DEF More, Failure
    <3>3. ASSUME NEW x, o = Write(a.field, x)
          PROVE  \E y : [o EXCEPT !.value = IF o.to = a.field THEN [@ EXCEPT !.exist = TRUE] ELSE @] = Write(a.field, y)
      <4> DEFINE y == IF o.to = a.field THEN [o.value EXCEPT !.exist = TRUE] ELSE o.value
      <4>1. [o EXCEPT !.value = IF o.to = a.field THEN [@ EXCEPT !.exist = TRUE] ELSE @] = [o EXCEPT !.value = y]
        OBVIOUS
      <4> HIDE DEF y
      <4>2. o = [to |-> a.field, value |-> x]
        BY <3>3 DEF Write
      <4>3. [o EXCEPT !.value = y] = [to |-> a.field, value |-> y]
        BY <4>2
      <4>4. [o EXCEPT !.value = y] = Write(a.field, y)
        BY <4>3 DEF Write
      <4> QED  BY <4>1, <4>4
    <3> QED  BY <2>1, <3>2, <3>3 DEF Plain
  <2> QED  BY <2>2, <2>3 DEF Plain
<1>6. a.field \in {"byContractAddress", "byAddress", "byPage", "byContractAndAddress"} =>
        Xrc20(a, s) = {Failure} \/ Xrc20(a, s) = counted
  BY TokenLists DEF Xrc20
<1> HIDE DEF counted
<1>7. a.field = "tokenHolderAddresses" => Xrc20(a, s) = {Failure} \/ Xrc20(a, s) = xrcTokenHolderAddresses(a, s)
  BY DEF Xrc20
<1>8. a.field = "xrc20Addresses" => Xrc20(a, s) = {Failure} \/ Xrc20(a, s) = getXrcAddresses(a, s)
  BY DEF Xrc20
<1> QED  BY <1>1, <1>2, <1>3, <1>4, <1>5, <1>6, <1>7, <1>8

LEMMA DirectPlain ==
  ASSUME NEW a, a.of \in Direct, a.field = a.of, NEW s
  PROVE  Plain(a, Resolve(a, s))
<1>1. Plain(a, {Failure})
  BY DEF Plain
<1>2. Plain(a, TopHolders(a, s))
  BY DEF TopHolders, OneQuery, Listed, Plain
<1>3. Plain(a, BucketsByVoter(a, s)) /\ Plain(a, BucketsByCandidate(a, s))
  BY <1>1, VotesPlain DEF BucketsByVoter, BucketsByCandidate
<1>4. Plain(a, HermesBookkeeping(a, s)) /\ Plain(a, HermesAverageStats(a, s))
  BY VotesPlain DEF HermesBookkeeping, HermesAverageStats
<1> QED  BY <1>1, <1>2, <1>3, <1>4 DEF Resolve, Direct

LEMMA Outcomes ==
  ASSUME NEW a, Known(a), NEW s, a.of = "action" => s \in Seq(Answers)
  PROVE  \A o \in Resolve(a, s) : Outcome(a, s, o)
<1>1. CASE a.of \in Direct
  <2>1. a.field = a.of
    BY <1>1 DEF Known, FieldNames
  <2> QED  BY <1>1, <2>1, DirectPlain, PlainIsOutcome
<1>2. CASE a.of \in Inner
  <2>1. a.of \notin Direct
    BY <1>2, InnerNames
  <2>2. a.field \in IF a.of = "chain" THEN ChainNames \cup {"supplies"} ELSE NamesOf(a.of)
    BY <2>1 DEF Known, FieldNames
  <2>3. CASE a.of = "action"
    BY <2>2, <2>3, ActionOutcomes DEF Resolve
  <2>4. CASE a.of = "xrc20"
    BY <2>2, <2>4, XrcPlain, PlainIsOutcome DEF Resolve
  <2>5. CASE a.of = "account"
    BY <2>2, <2>5, AccountPlain, PlainIsOutcome DEF Resolve
  <2>6. CASE a.of = "chain"
    BY <2>2, <2>6, ChainPlain, PlainIsOutcome DEF Resolve
  <2>7. CASE a.of = "delegate"
    BY <2>2, <2>7, DelegatePlain, PlainIsOutcome DEF Resolve
  <2>8. CASE a.of = "voting"
    BY <2>2, <2>8, VotingPlain, PlainIsOutcome DEF Resolve
  <2>9. CASE a.of = "hermes2"
    BY <2>2, <2>9, Hermes2Plain, PlainIsOutcome DEF Resolve
  <2> QED  BY <1>2, <2>3, <2>4, <2>5, <2>6, <2>7, <2>8, <2>9 DEF Inner
<1> QED  BY <1>1, <1>2 DEF Known

(* A list that is written tells of pages and counts of the chain.          *)
LEMMA ResolveTells ==
  ASSUME NEW a, Known(a), ListFields(a) \/ IsHolders(a), NEW s \in Seq(Answers),
         NEW o \in Resolve(a, s), o.to = a.field
  PROVE  ListTold(a, s, o.value)
<1>0. Failure.to = "error" /\ Failure.to # a.field
  BY DEF Failure, ListFields, IsHolders, ActionFields, TokenFields
<1>1. CASE a.of = "action" /\ a.field \in ActionFields
  <2> DEFINE counted == Counted(a, s, CountOf(a, T(s[1])), 0, ListOf(a, T(s[2])))
             listed == ListedFirst(a, s, ListOf(a, T(s[1])), CountOf(a, T(s[2])))
  <2>1. Resolve(a, s) = Action(a, s)
    BY <1>1 DEF Resolve
  <2>2. o # Failure
    BY <1>0
  <2>3. ASSUME a.field # "byType"  PROVE \A c \in counted : c.to = a.field => ListTold(a, s, c.value)
    <3>1. ~ListFirst(a) /\ a.field \notin {"more", "error"}
      BY <1>1, <2>3 DEF ListFirst, ActionFields
    <3> QED  BY <3>1, CountedTells
  <2>4. CASE a.field \in {"byAddress", "byVoter"}
    <3>1. Action(a, s) = {Failure} \/ Action(a, s) = counted
      BY <1>1, <2>4, ActionLists DEF Action
    <3>2. o \in counted
      BY <2>1, <2>2, <3>1
    <3> QED  BY <2>3, <2>4, <3>2
  <2>5. CASE a.field = "byAddressAndType"
    <3>1. Action(a, s) = {Failure} \/ Action(a, s) = {Silence} \/ Action(a, s) = counted
      BY <1>1, <2>5, ActionLists DEF Action
    <3>2. o # Silence
      BY <2>5 DEF Silence
    <3>3. o \in counted
      BY <2>1, <2>2, <3>1, <3>2
    <3> QED  BY <2>3, <2>5, <3>3
  <2>6. CASE a.field = "byBucketIndex"
    <3>1. Action(a, s) = {Failure} \/ Action(a, s) = {AsOfBucketIndex(c) : c \in counted}
      BY <1>1, <2>6, ActionLists DEF Action
    <3> HIDE DEF counted
    <3>2. PICK c \in counted : o = AsOfBucketIndex(c)
      BY <2>1, <2>2, <3>1
    <3>3. Plain(a, counted)
      BY CountedPlain DEF counted
    <3>4. c = More \/ c = Failure \/ \E x : c = Write(a.field, x)
      BY <3>3 DEF Plain
    <3>5. o = c
      <4>1. ASSUME o # c  PROVE FALSE
        <5>1. o = [c EXCEPT !.to = "byAddress"] /\ c.to = "byBucketIndex"
          BY <3>2, <4>1 DEF AsOfBucketIndex
        <5>2. PICK x : c = [to |-> a.field, value |-> x]
          BY <2>6, <3>4, <5>1 DEF More, Failure, Write
        <5>3. o.to = "byAddress"
          BY <5>1, <5>2
        <5> QED  BY <2>6, <5>3
      <4> QED  BY <4>1
    <3> QED  BY <2>3, <2>6, <3>5
  <2>7. CASE a.field = "byType"
    <3>1. Action(a, s) = {Failure} \/ Action(a, s) = listed
      BY <1>1, <2>7, ActionLists DEF Action
    <3>2. o \in listed
      BY <2>1, <2>2, <3>1
    <3>3. ListFirst(a) /\ a.field \notin {"more", "error"}
      BY <2>7 DEF ListFirst
    <3> QED  BY <3>2, <3>3, ListedTells
  <2> QED  BY <1>1, <2>4, <2>5, <2>6, <2>7 DEF ActionFields
<1>2. CASE a.of = "xrc20" /\ a.field \in TokenFields
  <2> DEFINE counted == Counted(a, s, CountOf(a, T(s[1])), CountOf(a, T(s[1])), ListOf(a, T(s[2])))
  <2>1. Resolve(a, s) = Xrc20(a, s)
    BY <1>2 DEF Resolve
  <2>2. Xrc20(a, s) = {Failure} \/ Xrc20(a, s) = counted
    BY <1>2, TokenLists DEF Xrc20, TokenFields
  <2>3. o \in counted
    BY <1>0, <2>1, <2>2
  <2>4. ~ListFirst(a) /\ a.field \notin {"more", "error"}
    BY <1>2 DEF ListFirst, TokenFields
  <2> QED  BY <2>3, <2>4, CountedTells
<1>3. CASE IsHolders(a)
  <2> DEFINE listed == ListedFirst(a, s, ListOf(a, T(s[1])), CountOf(a, T(s[2])))
  <2>1. Resolve(a, s) = Xrc20(a, s) /\ a.of = "xrc20" /\ a.field = "tokenHolderAddresses"
    BY <1>3 DEF Resolve, IsHolders
  <2>2. Xrc20(a, s) = {Failure} \/ Xrc20(a, s) = xrcTokenHolderAddresses(a, s)
    BY <2>1 DEF Xrc20
  <2>3. xrcTokenHolderAddresses(a, s) = {IF c = Write(a.field, NotExist(0)) THEN Failure ELSE c : c \in listed}
    BY <2>1, TokenLists
  <2> HIDE DEF listed
  <2>4. o \in listed
    BY <1>0, <2>1, <2>2, <2>3
  <2>5. ListFirst(a) /\ a.field \notin {"more", "error"}
    BY <2>1 DEF ListFirst
  <2> QED  BY <2>4, <2>5, ListedTells DEF listed
<1> QED  BY <1>1, <1>2, <1>3 DEF ListFields

(* What is told of the last block, and of the actions of a range.          *)
TipTells(s, r) ==
  /\ 1 \in DOMAIN s /\ 2 \in DOMAIN s /\ s[2] \in 0 .. height
  /\ T(s[2]).block_history # {}
  /\ r.epoch = CurrentEpoch(T(s[2]))

NumberTells(s, r, range) ==
  r.exist =>
    /\ 3 \in DOMAIN s /\ s[3] \in 0 .. height
    /\ r.count = GetNumberOfActions(T(s[3]), range.startEpoch, Ending(range))

LEMMA TipWritten ==
  ASSUME NEW a, a.of = "chain", a.field = "tip", NEW s \in Seq(Answers), NEW o \in Resolve(a, s)
  PROVE  o = More \/ o = Failure \/ (o.to = "tip" /\ o # Silence /\ TipTells(s, o.value))
<1>1. Resolve(a, s) = getLastEpochAndHeight(a, s)
  BY DEF Resolve, Chain
<1>2. CASE Broken \in ToSet(s) \/ Len(s) < 2 \/ \E i \in 1 .. 2 : i \in DOMAIN s /\ T(s[i]).block_history = {}
  BY <1>1, <1>2 DEF getLastEpochAndHeight, AfterTip
<1>3. CASE ~(Broken \in ToSet(s) \/ Len(s) < 2 \/ \E i \in 1 .. 2 : i \in DOMAIN s /\ T(s[i]).block_history = {})
  <2> DEFINE e == CurrentEpoch(T(s[2]))
             h == CurrentHeight(T(s[2]))
  <2>1. o = Write("tip", [epoch |-> e, height |-> h])
    BY <1>1, <1>3 DEF getLastEpochAndHeight, AfterTip
  <2>2. 1 \in DOMAIN s /\ 2 \in DOMAIN s /\ s[2] \in 0 .. height
    BY <1>3, AnswersOf
  <2>3. T(s[2]).block_history # {}
    BY <1>3, <2>2
  <2> HIDE DEF e, h
  <2>4. o.to = "tip" /\ o.value.epoch = e /\ o # Silence
    BY <2>1 DEF Write, Silence
  <2> QED  BY <2>2, <2>3, <2>4 DEF TipTells, e
<1> QED  BY <1>2, <1>3

LEMMA NumberWritten ==
  ASSUME NEW a, a.of = "chain", a.field = "numberOfActions", NEW s \in Seq(Answers),
         NEW o \in Resolve(a, s), o.to = a.field
  PROVE  NumberTells(s, o.value, RangeAsked(a, response[<<a.root, "tip">>].epoch))
<1> DEFINE range == RangeAsked(a, response[<<a.root, "tip">>].epoch)
           none == BlocksOfEpochs(T(s[3]), range.startEpoch, Ending(range)) = {}
           n == GetNumberOfActions(T(s[3]), range.startEpoch, Ending(range))
           counted == AfterTip(s, 3, IF none THEN {Failure} ELSE {Write(a.field, Found(n, {}))})
<1>1. Resolve(a, s) = getNumberOfActions(a, s)
  BY DEF Resolve, Chain
<1>2. getNumberOfActions(a, s) \in {{Failure}, {Write(a.field, NotExist(0))}, counted}
  BY DEF getNumberOfActions
<1>3. o # Failure /\ o # More
  BY DEF Failure, More
<1> HIDE DEF range, none, n
<1>4. CASE o = Write(a.field, NotExist(0))
  <2>1. ~o.value.exist
    BY <1>4 DEF Write, NotExist
  <2> QED  BY <2>1 DEF NumberTells
<1>5. CASE o # Write(a.field, NotExist(0))
  <2>1. Broken \notin ToSet(s) /\ ~(Len(s) < 3) /\ o = Write(a.field, Found(n, {}))
    BY <1>1, <1>2, <1>3, <1>5 DEF AfterTip
  <2>2. 3 \in DOMAIN s /\ s[3] \in 0 .. height
    <3>1. Len(s) \in Nat /\ DOMAIN s = 1 .. Len(s) /\ \A i \in 1 .. Len(s) : s[i] \in Answers
      BY LenProperties, ElementOfSeq
    <3>2. \A i \in 1 .. Len(s) : s[i] # Broken
      BY <2>1, <3>1 DEF ToSet
    <3> QED  BY <2>1, <3>1, <3>2 DEF Answers
  <2>3. o.value.count = n
    BY <2>1 DEF Write, Found
  <2> QED  BY <2>2, <2>3 DEF NumberTells, n, range
<1> QED  BY <1>4, <1>5

-------------------------------------------------------------------------------
(* What is true of a request at any time.  An ask waits while a goroutine  *)
(* is at work for it, or while Chain looks for the last block.  One that   *)
(* has been waited for has a field that tells of the chain, one that       *)
(* another ask's goroutine has written, or none to have.                   *)
TipsOf(doc) == {Tip(i) : i \in ChainRoots(doc)}

OfViews(a) == a.of \in {"action", "xrc20"} \/ (a.of = "chain" /\ a.field # "votingResultMeta")

Waiting(a) == a \in pending \/ (a.root \in ChainRoots(request) /\ Tip(a.root) \in pending)

Told(a) ==
  /\ ListFields(a) \/ IsHolders(a) => ListTold(a, seen[a], Got(a))
  /\ a.of = "chain" /\ a.field = "numberOfActions" =>
       NumberTells(seen[a], Got(a), RangeAsked(a, response[<<a.root, "tip">>].epoch))

Quiet(a) ==
  \/ a.of = "action" /\ a.field = "byBucketIndex" /\ <<a.root, "byAddress">> \in DOMAIN response
  \/ PastEnd(a, seen[a])

Has(a) == <<a.root, a.field>> \in DOMAIN response

AskTold(a) ==
  IF Waiting(a) THEN Has(a) => Overwritten(a)
  ELSE a.root \in failed \/ (Has(a) /\ (Overwritten(a) \/ Told(a))) \/ (~Has(a) /\ Quiet(a))

TipTold(i) ==
  \/ Tip(i) \in pending \/ i \in failed
  \/ <<i, "tip">> \in DOMAIN response /\ TipTells(seen[Tip(i)], response[<<i, "tip">>])

TipFirst(a) == a = Tip(a.root) \/ ~(a.root \in ChainRoots(request) /\ Tip(a.root) \in pending)

RequestFits ==
  /\ request \in Forms /\ AcceptedDocument(request)
  /\ pending \subseteq Asks(request) \cup TipsOf(request)
  /\ DOMAIN seen = Asks(request) \cup TipsOf(request)
  /\ \A a \in DOMAIN seen : OfViews(a) => seen[a] \in Seq(Answers)
  /\ \A a \in pending : TipFirst(a)
  /\ \A a \in Asks(request) : AskTold(a)
  /\ \A i \in ChainRoots(request) : TipTold(i)

LEMMA TipIs ==
  \A i : /\ Tip(i).root = i /\ Tip(i).of = "chain" /\ Tip(i).field = "tip"
         /\ \A j : Tip(i) = Tip(j) => i = j
BY DEF Tip

LEMMA BeginFits ==
  ASSUME NEW doc \in Forms, AcceptedDocument(doc), Begin(doc)
  PROVE  RequestFits'
<1>1. /\ request' = doc
      /\ pending' = {a \in Asks(doc) : a.root \notin ChainRoots(doc)} \cup TipsOf(doc)
      /\ seen' = [a \in Asks(doc) \cup TipsOf(doc) |-> <<>>]
      /\ response' = <<>> /\ failed' = {}
  BY DEF Begin, TipsOf
<1>2. DOMAIN response' = {}
  BY <1>1
<1>3. \A a : ~Has(a)'
  BY <1>2 DEF Has
<1>4. ASSUME NEW a \in Asks(doc)  PROVE Waiting(a)'
  BY <1>1 DEF Waiting, TipsOf
<1>5. \A a \in Asks(doc) : AskTold(a)'
  BY <1>3, <1>4 DEF AskTold
<1>6. \A i \in ChainRoots(doc) : TipTold(i)'
  BY <1>1 DEF TipTold, TipsOf
<1>7. ASSUME NEW a \in pending'  PROVE TipFirst(a)'
  <2>1. CASE a \in TipsOf(doc)
    BY <2>1, TipIs DEF TipsOf, TipFirst
  <2>2. CASE a \notin TipsOf(doc)
    BY <1>1, <1>7, <2>2 DEF TipFirst
  <2> QED  BY <2>1, <2>2
<1>8. ASSUME NEW a \in DOMAIN seen'  PROVE seen'[a] \in Seq(Answers')
  <2>1. seen'[a] = <<>>
    BY <1>1, <1>8
  <2> QED  BY <2>1
<1>9. pending' \subseteq Asks(doc) \cup TipsOf(doc) /\ DOMAIN seen' = Asks(doc) \cup TipsOf(doc)
  BY <1>1
<1> QED  BY <1>1, <1>5, <1>6, <1>7, <1>8, <1>9 DEF RequestFits

(* Blocks come in, and connections forget; what has been told stays.       *)
LEMMA ToldStays ==
  ASSUME height \in Nat, height' \in Nat, height <= height', \A v \in 0 .. height : T(v)' = T(v),
         UNCHANGED response
  PROVE  /\ \A a, s, r : ListTold(a, s, r) => ListTold(a, s, r)'
         /\ \A a, s : PastEnd(a, s) => PastEnd(a, s)'
         /\ \A s, r : TipTells(s, r) => TipTells(s, r)'
         /\ \A s, r, e : NumberTells(s, r, e) => NumberTells(s, r, e)'
<1>1. \A v \in 0 .. height : v \in 0 .. height' /\ T(v)' = T(v)
  OBVIOUS
<1>2. ASSUME NEW a, NEW s, NEW r, ListTold(a, s, r)  PROVE ListTold(a, s, r)'
  <2> DEFINE i == IF ListFirst(a) THEN 1 ELSE 2
             j == 3 - i
  <2>1. /\ i \in DOMAIN s /\ s[i] \in 0 .. height
        /\ r.rows \in Pages(a, ListOf(a, T(s[i])))
        /\ r.exist => /\ r.rows # {}
                      /\ j \in DOMAIN s /\ s[j] \in 0 .. height
                      /\ r.count = CountOf(a, T(s[j]))
    BY <1>2 DEF ListTold
  <2>2. T(s[i])' = T(s[i]) /\ s[i] \in 0 .. height'
    BY <1>1, <2>1
  <2>3. r.exist => T(s[j])' = T(s[j]) /\ s[j] \in 0 .. height'
    BY <1>1, <2>1
  <2>4. ListTold(a, s, r)' <=>
          /\ i \in DOMAIN s /\ s[i] \in 0 .. height'
          /\ r.rows \in Pages(a, ListOf(a, T(s[i])'))
          /\ r.exist => /\ r.rows # {}
                        /\ j \in DOMAIN s /\ s[j] \in 0 .. height'
                        /\ r.count = CountOf(a, T(s[j])')
    BY DEF ListTold
  <2> HIDE DEF i, j
  <2> QED  BY <2>1, <2>2, <2>3, <2>4
<1>3. ASSUME NEW a, NEW s, PastEnd(a, s)  PROVE PastEnd(a, s)'
  <2>1. T(s[1])' = T(s[1]) /\ s[1] \in 0 .. height'
    BY <1>1, <1>3 DEF PastEnd
  <2>2. PastEnd(a, s)' <=>
          /\ a.of = "action" /\ a.field = "byAddressAndType"
          /\ 1 \in DOMAIN s /\ s[1] \in 0 .. height' /\ Page(a).skip >= CountOf(a, T(s[1])')
    BY DEF PastEnd
  <2> QED  BY <1>3, <2>1, <2>2 DEF PastEnd
<1>4. ASSUME NEW s, NEW r, TipTells(s, r)  PROVE TipTells(s, r)'
  <2>1. T(s[2])' = T(s[2]) /\ s[2] \in 0 .. height'
    BY <1>1, <1>4 DEF TipTells
  <2>2. TipTells(s, r)' <=>
          /\ 1 \in DOMAIN s /\ 2 \in DOMAIN s /\ s[2] \in 0 .. height'
          /\ T(s[2])'.block_history # {}
          /\ r.epoch = CurrentEpoch(T(s[2])')
    BY DEF TipTells
  <2> QED  BY <1>4, <2>1, <2>2 DEF TipTells
<1>5. ASSUME NEW s, NEW r, NEW e, NumberTells(s, r, e)  PROVE NumberTells(s, r, e)'
  <2>1. r.exist => T(s[3])' = T(s[3]) /\ s[3] \in 0 .. height'
    BY <1>1, <1>5 DEF NumberTells
  <2>2. NumberTells(s, r, e)' <=>
          (r.exist =>
             /\ 3 \in DOMAIN s /\ s[3] \in 0 .. height'
             /\ r.count = GetNumberOfActions(T(s[3])', e.startEpoch, Ending(e)))
    BY DEF NumberTells
  <2> QED  BY <1>5, <2>1, <2>2 DEF NumberTells
<1> QED  BY <1>2, <1>3, <1>4, <1>5

LEMMA IndexGoesOn ==
  ASSUME RequestFits, UNCHANGED <<request, pending, seen, response, failed>>,
         height \in Nat, height' \in Nat, height <= height', \A v \in 0 .. height : T(v)' = T(v)
  PROVE  RequestFits'
<1>1. /\ request' = request /\ pending' = pending /\ seen' = seen /\ response' = response /\ failed' = failed
      /\ request \in Forms /\ AcceptedDocument(request)
      /\ pending \subseteq Asks(request) \cup TipsOf(request)
      /\ DOMAIN seen = Asks(request) \cup TipsOf(request)
  BY DEF RequestFits
<1>2. \A a : Waiting(a)' = Waiting(a) /\ Has(a)' = Has(a) /\ Overwritten(a)' = Overwritten(a) /\ Got(a)' = Got(a)
  BY <1>1 DEF Waiting, Has, Overwritten, Got
<1>3. /\ \A a, s, r : ListTold(a, s, r) => ListTold(a, s, r)'
      /\ \A a, s : PastEnd(a, s) => PastEnd(a, s)'
      /\ \A s, r : TipTells(s, r) => TipTells(s, r)'
      /\ \A s, r, e : NumberTells(s, r, e) => NumberTells(s, r, e)'
  BY <1>1, ToldStays
<1>4. ASSUME NEW a, Told(a)  PROVE Told(a)'
  <2>1. PICK s, r, e : s = seen[a] /\ r = Got(a) /\ e = RangeAsked(a, response[<<a.root, "tip">>].epoch)
    OBVIOUS
  <2>2. seen[a]' = s /\ Got(a)' = r /\ RangeAsked(a, response[<<a.root, "tip">>].epoch)' = e
    BY <1>1, <1>2, <2>1 DEF RangeAsked
  <2>3. ListTold(a, s, r) => ListTold(a, seen[a], Got(a))'
    <3>1. ListTold(a, s, r) => ListTold(a, s, r)'
      BY <1>3
    <3>2. ListTold(a, seen[a], Got(a))' <=> ListTold(a, s, r)'
      BY <2>2 DEF ListTold
    <3> QED  BY <3>1, <3>2
  <2>4. NumberTells(s, r, e) => NumberTells(seen[a], Got(a), RangeAsked(a, response[<<a.root, "tip">>].epoch))'
    <3>1. NumberTells(s, r, e) => NumberTells(s, r, e)'
      BY <1>3
    <3>2. NumberTells(seen[a], Got(a), RangeAsked(a, response[<<a.root, "tip">>].epoch))' <=> NumberTells(s, r, e)'
      BY <2>2 DEF NumberTells
    <3> QED  BY <3>1, <3>2
  <2> QED  BY <1>4, <2>1, <2>3, <2>4 DEF Told
<1>5. ASSUME NEW a, Quiet(a)  PROVE Quiet(a)'
  BY <1>1, <1>3, <1>5 DEF Quiet
<1>6. ASSUME NEW a \in Asks(request)  PROVE AskTold(a)'
  <2>1. AskTold(a)
    BY DEF RequestFits
  <2> QED  BY <1>1, <1>2, <1>4, <1>5, <2>1 DEF AskTold
<1>7. ASSUME NEW i \in ChainRoots(request)  PROVE TipTold(i)'
  <2>1. TipTold(i)
    BY DEF RequestFits
  <2> QED  BY <1>1, <1>3, <2>1 DEF TipTold
<1>8. ASSUME NEW a \in DOMAIN seen, OfViews(a)  PROVE seen'[a] \in Seq(Answers')
  <2>1. seen[a] \in Seq(Answers)
    BY <1>8 DEF RequestFits
  <2>2. Answers \subseteq Answers'
    BY DEF Answers
  <2>3. Seq(Answers) \subseteq Seq(Answers')
    BY <2>2, SeqMonotonic
  <2> QED  BY <1>1, <2>1, <2>3
<1>9. \A a \in pending : TipFirst(a)'
  BY <1>1 DEF RequestFits, TipFirst
<1>10. TipsOf(request)' = TipsOf(request) /\ Asks(request)' = Asks(request) /\ ChainRoots(request)' = ChainRoots(request)
  BY <1>1 DEF TipsOf
<1> QED  BY <1>1, <1>6, <1>7, <1>8, <1>9, <1>10 DEF RequestFits

(* A query more of an ask whose goroutine is at work.                      *)
LEMMA QueryFits ==
  ASSUME RequestFits, UNCHANGED <<height, tables, request, pending, response, failed>>,
         NEW a \in pending, NEW v, OfViews(a) => v \in Answers,
         seen' = [seen EXCEPT ![a] = Append(@, v)]
  PROVE  RequestFits'
<1>1. /\ request' = request /\ pending' = pending /\ response' = response /\ failed' = failed
      /\ height' = height /\ tables' = tables
      /\ request \in Forms /\ AcceptedDocument(request)
      /\ pending \subseteq Asks(request) \cup TipsOf(request)
      /\ DOMAIN seen = Asks(request) \cup TipsOf(request)
  BY DEF RequestFits
<1>2. DOMAIN seen' = DOMAIN seen /\ (\A b : b # a /\ b \in DOMAIN seen => seen'[b] = seen[b]) /\ seen'[a] = Append(seen[a], v)
  <2>1. a \in DOMAIN seen
    BY <1>1
  <2> QED  BY <2>1
<1>3. \A b : Waiting(b)' = Waiting(b) /\ Has(b)' = Has(b) /\ Overwritten(b)' = Overwritten(b) /\ Got(b)' = Got(b)
  BY <1>1 DEF Waiting, Has, Overwritten, Got
<1>4. ASSUME NEW b \in Asks(request)  PROVE AskTold(b)'
  <2>1. AskTold(b)
    BY DEF RequestFits
  <2>2. CASE Waiting(b)
    BY <1>1, <1>3, <2>1, <2>2 DEF AskTold
  <2>3. CASE ~Waiting(b)
    <3>1. b # a
      BY <2>3 DEF Waiting
    <3>2. seen'[b] = seen[b]
      BY <1>1, <1>2, <3>1
    <3>3. Told(b) => Told(b)'
      BY <1>1, <1>3, <3>2 DEF Told, ListTold, NumberTells, RangeAsked, T
    <3>4. Quiet(b) => Quiet(b)'
      BY <1>1, <3>2 DEF Quiet, PastEnd, T
    <3> QED  BY <1>1, <1>3, <2>1, <3>3, <3>4 DEF AskTold
  <2> QED  BY <2>2, <2>3
<1>5. ASSUME NEW i \in ChainRoots(request)  PROVE TipTold(i)'
  <2>1. TipTold(i)
    BY DEF RequestFits
  <2>2. CASE Tip(i) \in pending
    BY <1>1, <2>2 DEF TipTold
  <2>3. CASE Tip(i) \notin pending
    <3>1. Tip(i) # a /\ Tip(i) \in DOMAIN seen
      BY <1>1, <2>3 DEF TipsOf
    <3>2. seen'[Tip(i)] = seen[Tip(i)]
      BY <1>2, <3>1
    <3> QED  BY <1>1, <2>1, <2>3, <3>2 DEF TipTold, TipTells, T
  <2> QED  BY <2>2, <2>3
<1>6. ASSUME NEW b \in DOMAIN seen, OfViews(b)  PROVE seen'[b] \in Seq(Answers')
  <2>1. seen[b] \in Seq(Answers) /\ Answers' = Answers
    BY <1>1, <1>6 DEF RequestFits, Answers
  <2>2. CASE b = a
    <3>1. v \in Answers
      BY <1>6, <2>2
    <3>2. Append(seen[b], v) \in Seq(Answers)
      <4> HIDE DEF Answers
      <4> QED  BY <2>1, <3>1, AppendProperties
    <3> QED  BY <1>2, <2>1, <2>2, <3>2
  <2>3. CASE b # a
    BY <1>2, <2>1, <2>3
  <2> QED  BY <2>2, <2>3
<1>7. \A b \in pending : TipFirst(b)'
  BY <1>1 DEF RequestFits, TipFirst
<1>8. TipsOf(request)' = TipsOf(request) /\ Asks(request)' = Asks(request) /\ ChainRoots(request)' = ChainRoots(request)
  BY <1>1 DEF TipsOf
<1> QED  BY <1>1, <1>2, <1>4, <1>5, <1>6, <1>7, <1>8 DEF RequestFits

LEMMA RootsOfAsks ==
  ASSUME NEW doc, NEW i
  PROVE  /\ \A b \in AsksOf(doc, i) : b.root = i
         /\ \A b \in Asks(doc) : b.root \in DOMAIN doc.roots /\ b \in AsksOf(doc, b.root)
         /\ i \in DOMAIN doc.roots => AsksOf(doc, i) \subseteq Asks(doc)
<1>1. \A j : \A b \in AsksOf(doc, j) : b.root = j
  BY DEF AsksOf, Ask
<1>2. ASSUME NEW b \in Asks(doc)  PROVE b.root \in DOMAIN doc.roots /\ b \in AsksOf(doc, b.root)
  <2>1. PICK j \in DOMAIN doc.roots : b \in AsksOf(doc, j)
    BY DEF Asks
  <2> QED  BY <1>1, <2>1
<1> QED  BY <1>1, <1>2 DEF Asks

(* Chain has looked for the last block.                                    *)
LEMMA TipReturns ==
  ASSUME RequestFits, NEW i \in ChainRoots(request), Tip(i) \in pending, Return(Tip(i))
  PROVE  RequestFits'
<1> DEFINE a == Tip(i)
<1>1. /\ request \in Forms /\ AcceptedDocument(request)
      /\ pending \subseteq Asks(request) \cup TipsOf(request)
      /\ DOMAIN seen = Asks(request) \cup TipsOf(request)
      /\ height' = height /\ tables' = tables /\ request' = request /\ seen' = seen
  BY DEF RequestFits, Return, index
<1>2. a.root = i /\ a.of = "chain" /\ a.field = "tip" /\ \A j : Tip(j) = a => j = i
  BY TipIs
<1>3. a \in DOMAIN seen /\ seen[a] \in Seq(Answers)
  <2>1. a \in DOMAIN seen
    BY <1>1
  <2> QED  BY <1>2, <2>1 DEF RequestFits, OfViews
<1>4. PICK o \in Resolve(a, seen[a]) \ {More} :
        IF o = Failure
        THEN failed' = failed \cup {a.root} /\ pending' = pending \ {a} /\ response' = response
        ELSE /\ response' = IF o = Silence THEN response ELSE Updated(response, <<a.root, o.to>>, o.value)
             /\ pending' = (pending \ {a}) \cup (IF a = Tip(a.root) THEN AsksOf(request, a.root) ELSE {})
             /\ failed' = failed
  BY DEF Return
<1>5. o = Failure \/ (o.to = "tip" /\ o # Silence /\ TipTells(seen[a], o.value))
  BY <1>2, <1>3, <1>4, TipWritten
<1>6. \A b \in Asks(request) : b.field # "tip" /\ b # a /\ b.root \in DOMAIN request.roots /\ b \in AsksOf(request, b.root)
  BY <1>1, <1>2, AskFacts, RootsOfAsks
<1>7. i \in DOMAIN request.roots /\ AsksOf(request, i) \subseteq Asks(request) /\ \A b \in AsksOf(request, i) : b.root = i
  BY RootsOfAsks DEF ChainRoots
<1>8. /\ \A b : b.root # i => (b \in pending' <=> b \in pending)
      /\ \A j : j # i => (Tip(j) \in pending' <=> Tip(j) \in pending)
      /\ a \notin pending'
      /\ pending' \subseteq pending \cup AsksOf(request, i)
      /\ o # Failure => AsksOf(request, i) \subseteq pending'
  <2>1. a = Tip(a.root)
    BY <1>2
  <2>2. pending' = (pending \ {a}) \cup (IF o = Failure THEN {} ELSE AsksOf(request, i))
    BY <1>2, <1>4, <2>1
  <2>3. a \notin AsksOf(request, i)
    BY <1>6, <1>7
  <2>4. \A j : Tip(j).root = j
    BY TipIs
  <2> HIDE DEF a
  <2> QED  BY <1>2, <1>7, <2>2, <2>3, <2>4
<1>9. /\ \A z : z # <<i, "tip">> => (z \in DOMAIN response' <=> z \in DOMAIN response)
      /\ \A z \in DOMAIN response : z # <<i, "tip">> => response'[z] = response[z]
      /\ o # Failure => <<i, "tip">> \in DOMAIN response' /\ response'[<<i, "tip">>] = o.value
      /\ failed' = IF o = Failure THEN failed \cup {i} ELSE failed
  <2>1. CASE o = Failure
    BY <1>2, <1>4, <2>1
  <2>2. CASE o # Failure
    <3>1. response' = Updated(response, <<i, "tip">>, o.value) /\ failed' = failed
      BY <1>2, <1>4, <1>5, <2>2
    <3>2. PICK x, y : x = <<i, "tip">> /\ y = o.value
      OBVIOUS
    <3>3. response' = Updated(response, x, y)
      BY <3>1, <3>2
    <3>4. DOMAIN response' = DOMAIN response \cup {x}
      BY <3>3 DEF Updated
    <3>5. response'[x] = y
      BY <3>3 DEF Updated
    <3>6. \A z \in DOMAIN response : z # x => response'[z] = response[z]
      BY <3>3 DEF Updated
    <3> QED  BY <2>2, <3>1, <3>2, <3>4, <3>5, <3>6
  <2> QED  BY <2>1, <2>2
<1> HIDE DEF a
<1>10. ASSUME NEW b \in Asks(request)  PROVE AskTold(b)'
  <2>1. AskTold(b) /\ b.field # "tip" /\ b \in AsksOf(request, b.root)
    BY <1>6 DEF RequestFits
  <2>2. Has(b) => Got(b)' = Got(b) /\ (Overwritten(b)' <=> Overwritten(b))
    <3>1. <<b.root, b.field>> # <<i, "tip">>
      BY <2>1
    <3>2. Has(b) => Got(b)' = Got(b)
      BY <1>9, <3>1 DEF Got, Has
    <3> QED  BY <1>1, <3>2 DEF Overwritten
  <2>3. Has(b)' <=> Has(b)
    <3>1. <<b.root, b.field>> # <<i, "tip">>
      BY <2>1
    <3> QED  BY <1>9, <3>1 DEF Has
  <2>4. CASE b.root = i
    <3>1. Waiting(b)
      BY <2>4 DEF Waiting
    <3>2. Has(b)' => Overwritten(b)'
      BY <2>1, <2>2, <2>3, <3>1 DEF AskTold
    <3>3. CASE o = Failure
      <4>1. b.root \in failed'
        BY <1>9, <2>4, <3>3
      <4> QED  BY <3>2, <4>1 DEF AskTold
    <3>4. CASE o # Failure
      <4>1. Waiting(b)'
        BY <1>8, <2>1, <2>4, <3>4 DEF Waiting
      <4> QED  BY <3>2, <4>1 DEF AskTold
    <3> QED  BY <3>3, <3>4
  <2>5. CASE b.root # i
    <3>1. Waiting(b)' <=> Waiting(b)
      BY <1>1, <1>8, <2>5 DEF Waiting
    <3>3. Quiet(b) => Quiet(b)'
      <4>1. <<b.root, "byAddress">> # <<i, "tip">>
        OBVIOUS
      <4> QED  BY <1>1, <1>9, <4>1 DEF Quiet, PastEnd, T
    <3>4. b.root \in failed => b.root \in failed'
      BY <1>9
    <3>5. CASE Waiting(b)
      BY <2>1, <2>2, <2>3, <3>1, <3>5 DEF AskTold
    <3>6. CASE ~Waiting(b) /\ ~(Has(b) /\ ~Overwritten(b) /\ b.root \notin failed)
      BY <2>1, <2>2, <2>3, <3>1, <3>3, <3>4, <3>6 DEF AskTold
    <3>7. CASE ~Waiting(b) /\ Has(b) /\ ~Overwritten(b) /\ b.root \notin failed
      <4>1. Told(b)
        BY <2>1, <3>7 DEF AskTold
      <4>2. response'[<<b.root, "tip">>] = response[<<b.root, "tip">>] \/ b.root \notin ChainRoots(request)
        <5>1. ASSUME b.root \in ChainRoots(request)  PROVE response'[<<b.root, "tip">>] = response[<<b.root, "tip">>]
          <6>1. TipTold(b.root) /\ Tip(b.root) \notin pending
            BY <3>7, <5>1 DEF RequestFits, Waiting
          <6>2. <<b.root, "tip">> \in DOMAIN response
            BY <3>7, <6>1 DEF TipTold
          <6>3. <<b.root, "tip">> # <<i, "tip">>
            BY <2>5
          <6> QED  BY <1>9, <6>2, <6>3
        <5> QED  BY <5>1
      <4>3. b.of = "chain" => b.root \in ChainRoots(request)
        BY <1>1, AskFacts DEF ChainRoots
      <4>4. Told(b)'
        <5>1. Got(b)' = Got(b)
          BY <2>2, <3>7
        <5>2. (ListFields(b) \/ IsHolders(b)) => ListTold(b, seen[b], Got(b))'
          BY <1>1, <4>1, <5>1 DEF Told, ListTold, T
        <5>3. b.of = "chain" /\ b.field = "numberOfActions" =>
                 NumberTells(seen[b], Got(b), RangeAsked(b, response[<<b.root, "tip">>].epoch))'
          BY <1>1, <4>1, <4>2, <4>3, <5>1 DEF Told, NumberTells, RangeAsked, T
        <5> QED  BY <5>2, <5>3 DEF Told
      <4> QED  BY <2>2, <2>3, <3>7, <4>4, <3>1 DEF AskTold
    <3> QED  BY <3>5, <3>6, <3>7
  <2> QED  BY <2>4, <2>5
<1>11. ASSUME NEW j \in ChainRoots(request)  PROVE TipTold(j)'
  <2>1. CASE j = i
    <3>1. CASE o = Failure
      BY <1>9, <2>1, <3>1 DEF TipTold
    <3>2. CASE o # Failure
      BY <1>1, <1>5, <1>9, <2>1, <3>2 DEF TipTold, TipTells, T, a
    <3> QED  BY <3>1, <3>2
  <2>2. CASE j # i
    <3>1. TipTold(j) /\ <<j, "tip">> # <<i, "tip">>
      BY <2>2 DEF RequestFits
    <3>2. Tip(j) \in pending => Tip(j) \in pending'
      BY <1>8, <2>2
    <3>3. j \in failed => j \in failed'
      BY <1>9
    <3> QED  BY <1>1, <1>9, <3>1, <3>2, <3>3 DEF TipTold, TipTells, T
  <2> QED  BY <2>1, <2>2
<1>12. ASSUME NEW b \in pending'  PROVE TipFirst(b)'
  <2>1. CASE b.root = i
    <3>1. Tip(b.root) \notin pending'
      BY <1>8, <2>1 DEF a
    <3> QED  BY <3>1 DEF TipFirst
  <2>2. CASE b.root # i
    <3>1. TipFirst(b)
      BY <1>8, <1>12, <2>2 DEF RequestFits
    <3> QED  BY <1>1, <1>8, <2>2, <3>1 DEF TipFirst
  <2> QED  BY <2>1, <2>2
<1>13. pending' \subseteq Asks(request) \cup TipsOf(request)
  BY <1>1, <1>7, <1>8
<1>14. \A b \in DOMAIN seen' : OfViews(b) => seen'[b] \in Seq(Answers')
  BY <1>1 DEF RequestFits, Answers
<1>15. TipsOf(request)' = TipsOf(request) /\ Asks(request)' = Asks(request) /\ ChainRoots(request)' = ChainRoots(request)
  BY <1>1 DEF TipsOf
<1> QED  BY <1>1, <1>10, <1>11, <1>12, <1>13, <1>14, <1>15 DEF RequestFits

LEMMA NoSuchField ==
  ASSUME NEW a, Known(a)
  PROVE  a.field \notin {"nothing", "error", "more", "tip"}
<1>1. a.of \in Inner \cup Direct /\ a.field \in FieldNames(a.of)
  BY DEF Known
<1>2. CASE a.of \in Direct
  BY <1>1, <1>2 DEF FieldNames, Direct
<1>3. CASE a.of \in Inner
  <2>1. CASE a.of = "chain"
    BY <1>1, <2>1 DEF FieldNames, Direct, ChainNames
  <2>2. CASE a.of \in {"account", "delegate", "voting"}
    BY <1>1, <2>2 DEF FieldNames, Direct, NamesOf
  <2>3. CASE a.of \in {"xrc20", "action", "hermes2"}
    BY <1>1, <2>3 DEF FieldNames, Direct, NamesOf
  <2> QED  BY <1>3, <2>1, <2>2, <2>3 DEF Inner
<1> QED  BY <1>1, <1>2, <1>3

(* A goroutine is at the end of its field.                                 *)
LEMMA AskReturns ==
  ASSUME RequestFits, NEW a \in Asks(request), a \in pending, Return(a)
  PROVE  RequestFits'
<1>1. /\ request \in Forms /\ AcceptedDocument(request)
      /\ pending \subseteq Asks(request) \cup TipsOf(request)
      /\ DOMAIN seen = Asks(request) \cup TipsOf(request)
      /\ height' = height /\ tables' = tables /\ request' = request /\ seen' = seen
  BY DEF RequestFits, Return, index
<1>2. Known(a) /\ a.field \notin {"nothing", "error", "more", "tip"} /\ a \in AsksOf(request, a.root)
  <2>1. Known(a) /\ a \in AsksOf(request, a.root)
    BY <1>1, AskFacts, RootsOfAsks
  <2> QED  BY <2>1, NoSuchField
<1>3. OfViews(a) => seen[a] \in Seq(Answers)
  <2>1. a \in DOMAIN seen
    BY <1>1
  <2> QED  BY <2>1 DEF RequestFits
<1>4. PICK o \in Resolve(a, seen[a]) \ {More} :
        IF o = Failure
        THEN failed' = failed \cup {a.root} /\ pending' = pending \ {a} /\ response' = response
        ELSE /\ response' = IF o = Silence THEN response ELSE Updated(response, <<a.root, o.to>>, o.value)
             /\ pending' = (pending \ {a}) \cup (IF a = Tip(a.root) THEN AsksOf(request, a.root) ELSE {})
             /\ failed' = failed
  BY DEF Return
<1>5. \/ o = Failure
      \/ o = Silence /\ PastEnd(a, seen[a])
      \/ o # Failure /\ o # Silence /\ o.to = a.field
      \/ /\ o # Failure /\ o # Silence /\ o.to = "byAddress" /\ ~o.value.exist
         /\ a.of = "action" /\ a.field = "byBucketIndex"
  <2>1. Outcome(a, seen[a], o)
    BY <1>2, <1>3, <1>4, Outcomes DEF OfViews
  <2>2. ASSUME NEW x, NEW n, n \notin {"nothing", "error"}, o = Write(n, x)
        PROVE  o # Failure /\ o # Silence /\ o.to = n /\ o.value = x
    BY <2>2 DEF Write, Failure, Silence
  <2>3. CASE \E x : o = Write(a.field, x)
    BY <1>2, <2>2, <2>3
  <2>4. CASE ElseWhere(a, o)
    <3>1. PICK x : o = Write("byAddress", x) /\ ~x.exist
      BY <2>4 DEF ElseWhere
    <3>2. o # Failure /\ o # Silence /\ o.to = "byAddress" /\ ~o.value.exist
      BY <2>2, <3>1
    <3> QED  BY <2>4, <3>2 DEF ElseWhere
  <2> QED  BY <1>4, <2>1, <2>3, <2>4 DEF Outcome
<1>6. a # Tip(a.root) /\ \A j : Tip(j) # a
  BY <1>2, TipIs
<1>7. /\ pending' = pending \ {a}
      /\ failed' = IF o = Failure THEN failed \cup {a.root} ELSE failed
  BY <1>4, <1>6
<1>8. /\ ~Waiting(a)' /\ (Has(a) => Overwritten(a))
      /\ \A b : b # a => (Waiting(b)' <=> Waiting(b))
  <2>1. TipFirst(a) /\ AskTold(a) /\ Waiting(a)
    BY DEF RequestFits, Waiting
  <2>2. ~(a.root \in ChainRoots(request) /\ Tip(a.root) \in pending)
    BY <1>6, <2>1 DEF TipFirst
  <2>3. ~Waiting(a)'
    BY <1>1, <1>7, <2>2 DEF Waiting
  <2>4. ASSUME NEW b, b # a  PROVE Waiting(b)' <=> Waiting(b)
    <3>1. Tip(b.root) # a
      BY <1>6
    <3> QED  BY <1>1, <1>7, <2>4, <3>1 DEF Waiting
  <2> QED  BY <2>1, <2>3, <2>4 DEF AskTold
<1>9. PICK x, y : x = <<a.root, o.to>> /\ y = o.value
  OBVIOUS
<1>10. CASE o = Failure \/ o = Silence
  <2>1. response' = response
    BY <1>4, <1>10
  <2>2. \A b : Has(b)' = Has(b) /\ Overwritten(b)' = Overwritten(b) /\ Got(b)' = Got(b)
    BY <1>1, <2>1 DEF Has, Overwritten, Got
  <2>3. \A b : /\ Told(b) => Told(b)'
               /\ Quiet(b) => Quiet(b)'
    BY <1>1, <2>1, <2>2 DEF Told, ListTold, NumberTells, RangeAsked, T, Quiet, PastEnd
  <2>4. ASSUME NEW b \in Asks(request)  PROVE AskTold(b)'
    <3>1. AskTold(b)
      BY DEF RequestFits
    <3>2. CASE b # a
      BY <1>7, <1>8, <2>2, <2>3, <3>1, <3>2 DEF AskTold
    <3>3. CASE b = a /\ o = Failure
      BY <1>7, <1>8, <3>3 DEF AskTold
    <3>4. CASE b = a /\ o # Failure
      <4>1. Quiet(a)'
        BY <1>1, <1>5, <1>10, <1>2, <2>3, <3>4 DEF Quiet, Silence
      <4> QED  BY <1>8, <2>2, <3>4, <4>1 DEF AskTold
    <3> QED  BY <3>2, <3>3, <3>4
  <2>5. ASSUME NEW j \in ChainRoots(request)  PROVE TipTold(j)'
    <3>1. TipTold(j)
      BY DEF RequestFits
    <3> QED  BY <1>1, <1>6, <1>7, <2>1, <3>1 DEF TipTold, TipTells, T
  <2>6. ASSUME NEW b \in pending'  PROVE TipFirst(b)'
    <3>1. TipFirst(b) /\ b \in pending
      BY <1>7, <2>6 DEF RequestFits
    <3> QED  BY <1>1, <1>7, <3>1 DEF TipFirst
  <2>7. \A b \in DOMAIN seen' : OfViews(b) => seen'[b] \in Seq(Answers')
    BY <1>1 DEF RequestFits, Answers
  <2>8. TipsOf(request)' = TipsOf(request) /\ Asks(request)' = Asks(request) /\ ChainRoots(request)' = ChainRoots(request)
    BY <1>1 DEF TipsOf
  <2> QED  BY <1>1, <1>7, <2>4, <2>5, <2>6, <2>7, <2>8 DEF RequestFits
<1>11. CASE o # Failure /\ o # Silence
  <2>1. response' = Updated(response, x, y) /\ failed' = failed
    BY <1>4, <1>9, <1>11
  <2>2. DOMAIN response' = DOMAIN response \cup {x} /\ response'[x] = y
    BY <2>1 DEF Updated
  <2>3. \A z \in DOMAIN response : z # x => response'[z] = response[z]
    BY <2>1 DEF Updated
  <2>4. \A j : <<j, "tip">> # x
    BY <1>2, <1>5, <1>9, <1>11
  <2>5. ASSUME NEW b, <<b.root, b.field>> # x
        PROVE  Has(b) => Got(b)' = Got(b) /\ (Overwritten(b)' <=> Overwritten(b))
    <3>1. Has(b) => Got(b)' = Got(b)
      BY <2>3, <2>5 DEF Got, Has
    <3> QED  BY <1>1, <3>1 DEF Overwritten
  <2>6. ASSUME NEW b  PROVE Quiet(b) => Quiet(b)'
    BY <1>1, <2>2 DEF Quiet, PastEnd, T
  <2>7. ASSUME NEW b \in Asks(request), b # a, <<b.root, b.field>> # x  PROVE AskTold(b)'
    <3>1. AskTold(b) /\ (Waiting(b)' <=> Waiting(b))
      BY <1>8, <2>7 DEF RequestFits
    <3>2. Has(b)' <=> Has(b)
      BY <2>2, <2>7 DEF Has
    <3>3. Has(b) => Got(b)' = Got(b) /\ (Overwritten(b)' <=> Overwritten(b))
      BY <2>5, <2>7
    <3>4. CASE Waiting(b) \/ ~(Has(b) /\ ~Overwritten(b) /\ b.root \notin failed)
      BY <2>1, <2>6, <3>1, <3>2, <3>3, <3>4 DEF AskTold
    <3>5. CASE ~Waiting(b) /\ Has(b) /\ ~Overwritten(b) /\ b.root \notin failed
      <4>1. Told(b) /\ Got(b)' = Got(b)
        BY <3>1, <3>3, <3>5 DEF AskTold
      <4>2. b.of = "chain" => response'[<<b.root, "tip">>] = response[<<b.root, "tip">>]
        <5>1. ASSUME b.of = "chain"  PROVE response'[<<b.root, "tip">>] = response[<<b.root, "tip">>]
          <6>1. b.root \in ChainRoots(request)
            BY <1>1, <5>1, AskFacts DEF ChainRoots
          <6>2. TipTold(b.root) /\ Tip(b.root) \notin pending
            BY <3>5, <6>1 DEF RequestFits, Waiting
          <6>3. <<b.root, "tip">> \in DOMAIN response
            BY <3>5, <6>2 DEF TipTold
          <6> QED  BY <2>3, <2>4, <6>3
        <5> QED  BY <5>1
      <4>3. ListFields(b) \/ IsHolders(b) => ListTold(b, seen[b], Got(b))'
        BY <1>1, <4>1 DEF Told, ListTold, T
      <4>4. b.of = "chain" /\ b.field = "numberOfActions" =>
              NumberTells(seen[b], Got(b), RangeAsked(b, response[<<b.root, "tip">>].epoch))'
        BY <1>1, <4>1, <4>2 DEF Told, NumberTells, RangeAsked, T
      <4>5. Told(b)'
        BY <4>3, <4>4 DEF Told
      <4> QED  BY <3>1, <3>2, <3>3, <3>5, <4>5 DEF AskTold
    <3> QED  BY <3>4, <3>5
  <2>8. ASSUME NEW b \in Asks(request), b # a, <<b.root, b.field>> = x  PROVE AskTold(b)'
    <3>1. b.root = a.root /\ b.field = o.to
      BY <1>9, <2>8
    <3>2. b.field # a.field
      BY <1>1, <2>8, <3>1, AskOnce
    <3>3. b.field = "byAddress" /\ a.of = "action" /\ a.field = "byBucketIndex"
      BY <1>5, <1>11, <3>1, <3>2
    <3>4. b.of = a.of
      BY <1>1, <3>1, AskFacts
    <3>5. Overwritten(b)'
      <4>1. Got(b)' = o.value /\ ~o.value.exist
        BY <1>5, <1>9, <1>11, <2>2, <2>8, <3>1, <3>2 DEF Got
      <4> QED  BY <1>1, <1>2, <3>1, <3>3, <3>4, <4>1 DEF Overwritten
    <3>6. Has(b)'
      BY <2>2, <2>8 DEF Has
    <3> QED  BY <3>5, <3>6 DEF AskTold
  <2>9. AskTold(a)'
    <3>1. CASE o.to = a.field
      <4>1. x = <<a.root, a.field>>
        BY <1>9, <3>1
      <4>2. Has(a)' /\ Got(a)' = o.value
        BY <1>9, <2>2, <4>1 DEF Has, Got
      <4>3. ListFields(a) \/ IsHolders(a) => ListTold(a, seen[a], Got(a))'
        <5>1. ASSUME ListFields(a) \/ IsHolders(a)  PROVE ListTold(a, seen[a], o.value)
          <6>1. OfViews(a)
            BY <5>1 DEF OfViews, ListFields, IsHolders
          <6> QED  BY <1>2, <1>3, <1>4, <3>1, <5>1, <6>1, ResolveTells
        <5> QED  BY <1>1, <4>2, <5>1 DEF ListTold, T
      <4>4. CASE a.of = "chain" /\ a.field = "numberOfActions"
        <5>1. OfViews(a)
          BY <4>4 DEF OfViews
        <5>2. NumberTells(seen[a], o.value, RangeAsked(a, response[<<a.root, "tip">>].epoch))
          BY <1>3, <1>4, <3>1, <4>4, <5>1, NumberWritten
        <5>3. a.root \in ChainRoots(request)
          BY <1>1, <4>4, AskFacts DEF ChainRoots
        <5>4. TipTold(a.root) /\ Tip(a.root) \notin pending
          <6>1. TipFirst(a)
            BY DEF RequestFits
          <6> QED  BY <1>6, <5>3, <6>1 DEF RequestFits, TipFirst
        <5>5. CASE a.root \in failed
          <6>1. a.root \in failed'
            BY <2>1, <5>5
          <6> QED  BY <1>8, <6>1 DEF AskTold
        <5>6. CASE a.root \notin failed
          <6>1. <<a.root, "tip">> \in DOMAIN response
            BY <5>4, <5>6 DEF TipTold
          <6>2. response'[<<a.root, "tip">>] = response[<<a.root, "tip">>]
            BY <2>3, <2>4, <6>1
          <6>3. NumberTells(seen[a], Got(a), RangeAsked(a, response[<<a.root, "tip">>].epoch))'
            BY <1>1, <4>2, <5>2, <6>2 DEF NumberTells, RangeAsked, T
          <6> QED  BY <1>8, <4>2, <4>3, <6>3 DEF AskTold, Told
        <5> QED  BY <5>5, <5>6
      <4>5. CASE ~(a.of = "chain" /\ a.field = "numberOfActions")
        BY <1>8, <4>2, <4>3, <4>5 DEF AskTold, Told
      <4> QED  BY <4>4, <4>5
    <3>2. CASE o.to = "byAddress" /\ a.of = "action" /\ a.field = "byBucketIndex"
      <4>1. x = <<a.root, "byAddress">> /\ x # <<a.root, a.field>>
        BY <1>9, <3>2
      <4>2. ~Overwritten(a)
        BY <3>2 DEF Overwritten
      <4>3. ~Has(a)'
        BY <1>8, <2>2, <4>1, <4>2 DEF Has
      <4>4. Quiet(a)'
        BY <2>2, <3>2, <4>1 DEF Quiet
      <4> QED  BY <1>8, <4>3, <4>4 DEF AskTold
    <3> QED  BY <1>5, <1>11, <3>1, <3>2
  <2>10. ASSUME NEW j \in ChainRoots(request)  PROVE TipTold(j)'
    <3>1. TipTold(j)
      BY DEF RequestFits
    <3> QED  BY <1>1, <1>6, <1>7, <2>1, <2>2, <2>3, <2>4, <3>1 DEF TipTold, TipTells, T
  <2>11. ASSUME NEW b \in pending'  PROVE TipFirst(b)'
    <3>1. TipFirst(b) /\ b \in pending
      BY <1>7, <2>11 DEF RequestFits
    <3> QED  BY <1>1, <1>7, <3>1 DEF TipFirst
  <2>12. \A b \in DOMAIN seen' : OfViews(b) => seen'[b] \in Seq(Answers')
    BY <1>1 DEF RequestFits, Answers
  <2>13. TipsOf(request)' = TipsOf(request) /\ Asks(request)' = Asks(request) /\ ChainRoots(request)' = ChainRoots(request)
    BY <1>1 DEF TipsOf
  <2>14. \A b \in Asks(request) : AskTold(b)'
    BY <2>7, <2>8, <2>9
  <2> QED  BY <1>1, <1>7, <2>10, <2>11, <2>12, <2>13, <2>14 DEF RequestFits
<1> QED  BY <1>10, <1>11

-------------------------------------------------------------------------------
(* The pages a client has turned: each begins where the one before it      *)
(* ended, and is a page of the list as of the block it was answered as of. *)
Turned(a, w) ==
  /\ w.page.skip \in Int /\ w.page.first = Page(a).first
  /\ RowsView(a, w.seen) \in 0 .. height
  /\ w.rows \in Limit(ListOf(a, T(RowsView(a, w.seen))), w.page.skip, w.page.first)

PagesTurned(a, ws) ==
  /\ IsSequence(ws) /\ Len(ws) \in Nat \ {0}
  /\ \A i \in 1 .. Len(ws) : Turned(a, ws[i])
  /\ ws[1].page.skip = 0
  /\ \A i \in 1 .. Len(ws) - 1 : ws[i + 1].page.skip = ws[i].page.skip + Page(a).first
  /\ Page(a).skip = ws[Len(ws)].page.skip + Page(a).first

Walks(a) ==
  /\ Asks(request) = {a} /\ a.of = "action" /\ a.field \in {"byAddress", "byType"}
  /\ PagesTurned(a, walk)

WalkFits == walk # <<>> => request # None /\ \E a \in Asks(request) : Walks(a)

RInv ==
  /\ visible \subseteq 0 .. height
  /\ IF request = None THEN pending = {} ELSE RequestFits
  /\ WalkFits

(* The ask for the next page is about the same rows.                       *)
LEMMA SameList ==
  ASSUME NEW a, Known(a), a.of = "action", a.field \in {"byAddress", "byType"},
         "pagination" \in DOMAIN a.args, {"skip", "first"} \subseteq DOMAIN a.args.pagination,
         a.field = "byType" => "type" \in DOMAIN a.args, a.field = "byAddress" => "address" \in DOMAIN a.args,
         NEW b, b = [a EXCEPT !.args.pagination.skip = @ + Page(a).first]
  PROVE  /\ b.of = a.of /\ b.field = a.field
         /\ \A t : ListOf(b, t) = ListOf(a, t)
         /\ Page(b).first = Page(a).first /\ Page(b).skip = Page(a).skip + Page(a).first
<1> DEFINE F == Page(a).first
           p == a.args.pagination
           q == [p EXCEPT !.skip = @ + F]
           args == [a.args EXCEPT !.pagination = q]
<1>1. Page(a) = [skip |-> p.skip, first |-> p.first]
  BY DEF Page, Child
<1>2. b = [a EXCEPT !.args = args]
  <2> HIDE DEF F
  <2> QED  BY DEF F
<1> HIDE DEF F
<1>3. DOMAIN q = DOMAIN p /\ q.skip = p.skip + F /\ q.first = p.first
  <2> HIDE DEF p
  <2> QED  BY DEF p
<1> HIDE DEF q
<1>4. /\ DOMAIN args = DOMAIN a.args /\ args.pagination = q
      /\ a.field = "byType" => args.type = a.args.type
      /\ a.field = "byAddress" => args.address = a.args.address
  OBVIOUS
<1> HIDE DEF args
<1>5. b.of = a.of /\ b.field = a.field /\ b.args = args
  <2>1. a = [root |-> a.root, of |-> a.of, field |-> a.field, args |-> a.args, sub |-> a.sub]
    BY DEF Known
  <2>2. b = [root |-> a.root, of |-> a.of, field |-> a.field, args |-> args, sub |-> a.sub]
    BY <1>2, <2>1
  <2> QED  BY <2>2
<1>6. Page(b) = [skip |-> q.skip, first |-> q.first]
  BY <1>3, <1>4, <1>5 DEF Page, Child
<1>7. \A t : ListOf(b, t) = ListOf(a, t)
  BY <1>4, <1>5 DEF ListOf, ActionList
<1> QED  BY <1>1, <1>3, <1>5, <1>6, <1>7 DEF F

(* What an ask has got that nobody has written over.                       *)
LEMMA GotTells ==
  ASSUME RequestFits, Answering, NEW a \in Asks(request), a.root \notin failed, Has(a), ~Overwritten(a)
  PROVE  Told(a)
<1>1. ~Waiting(a)
  BY DEF Answering, Waiting
<1> QED  BY <1>1 DEF RequestFits, AskTold

LEMMA LastPage ==
  ASSUME RequestFits, Answering, failed = {}, NEW a, Asks(request) = {a},
         a.of = "action", a.field \in {"byAddress", "byType"}
  PROVE  /\ Page(a).skip \in Int /\ Page(a).first \in Int
         /\ RowsView(a, seen[a]) \in 0 .. height
         /\ Got(a).rows \in Limit(ListOf(a, T(RowsView(a, seen[a]))), Page(a).skip, Page(a).first)
<1>1. request \in Forms /\ AcceptedDocument(request) /\ a \in Asks(request)
  BY DEF RequestFits
<1>2. ~Overwritten(a)
  <2>1. AsksOf(request, a.root) \subseteq Asks(request)
    BY <1>1, RootsOfAsks
  <2> QED  BY <2>1 DEF Overwritten
<1>3. ~Quiet(a)
  BY DEF Quiet, PastEnd
<1>4. ~Waiting(a)
  BY DEF Answering, Waiting
<1>5. Told(a)
  BY <1>1, <1>2, <1>3, <1>4 DEF RequestFits, AskTold
<1>6. ListFields(a)
  BY DEF ListFields, ActionFields
<1>7. ListTold(a, seen[a], Got(a))
  BY <1>5, <1>6 DEF Told
<1>8. Page(a).skip \in Int /\ Page(a).first \in Int
  <2>1. Lists(a)
    BY <1>6, ListsAre
  <2> QED  BY <1>1, <2>1, PagesAreNumbers
<1>9. /\ RowsView(a, seen[a]) \in 0 .. height
      /\ Got(a).rows \in Limit(ListOf(a, T(RowsView(a, seen[a]))), Page(a).skip, Page(a).first)
  <2>1. CASE a.field = "byType"
    BY <1>7, <2>1 DEF ListTold, ListFirst, RowsView, Pages
  <2>2. CASE a.field = "byAddress"
    BY <1>7, <2>2 DEF ListTold, ListFirst, RowsView, Pages
  <2> QED  BY <2>1, <2>2
<1> QED  BY <1>8, <1>9

LEMMA PageTurns ==
  ASSUME RInv, NextPage
  PROVE  RequestFits' /\ WalkFits'
<1>1. PICK a \in Asks(request) : \E doc \in Forms :
        /\ Asks(request) = {a}
        /\ a.of = "action" /\ a.field \in {"byAddress", "byType"} /\ "pagination" \in DOMAIN a.args
        /\ {"skip", "first"} \subseteq DOMAIN a.args.pagination
        /\ walk = <<>> => Page(a).skip = 0
        /\ AcceptedDocument(doc)
        /\ Asks(doc) = {[a EXCEPT !.args.pagination.skip = @ + Page(a).first]}
        /\ Begin(doc)
        /\ walk' = Append(walk, [page |-> Page(a), seen |-> seen[a], rows |-> Got(a).rows])
  BY DEF NextPage
<1>2. PICK doc \in Forms :
        /\ Asks(request) = {a}
        /\ a.of = "action" /\ a.field \in {"byAddress", "byType"} /\ "pagination" \in DOMAIN a.args
        /\ {"skip", "first"} \subseteq DOMAIN a.args.pagination
        /\ walk = <<>> => Page(a).skip = 0
        /\ AcceptedDocument(doc)
        /\ Asks(doc) = {[a EXCEPT !.args.pagination.skip = @ + Page(a).first]}
        /\ Begin(doc)
        /\ walk' = Append(walk, [page |-> Page(a), seen |-> seen[a], rows |-> Got(a).rows])
  BY <1>1
<1>3. RequestFits /\ Answering /\ failed = {} /\ height' = height /\ tables' = tables
  BY DEF NextPage, RInv, Answering, index
<1>4. RequestFits'
  BY <1>2, BeginFits
<1>5. Known(a) /\ (a.field = "byType" => "type" \in DOMAIN a.args) /\ (a.field = "byAddress" => "address" \in DOMAIN a.args)
  <2>1. request \in Forms /\ AcceptedDocument(request)
    BY <1>3 DEF RequestFits
  <2> QED  BY <1>1, <1>2, <2>1, AskFacts, PagesAreNumbers
<1>6. PICK b : b = [a EXCEPT !.args.pagination.skip = @ + Page(a).first]
  OBVIOUS
<1>7. /\ b.of = a.of /\ b.field = a.field
      /\ \A t : ListOf(b, t) = ListOf(a, t)
      /\ Page(b).first = Page(a).first /\ Page(b).skip = Page(a).skip + Page(a).first
  BY <1>2, <1>5, <1>6, SameList
<1>8. PICK w : w = [page |-> Page(a), seen |-> seen[a], rows |-> Got(a).rows]
  OBVIOUS
<1>9. w.page = Page(a) /\ w.seen = seen[a] /\ w.rows = Got(a).rows
  BY <1>8
<1>10. Turned(a, w)
  <2>1. /\ Page(a).skip \in Int
        /\ RowsView(a, seen[a]) \in 0 .. height
        /\ Got(a).rows \in Limit(ListOf(a, T(RowsView(a, seen[a]))), Page(a).skip, Page(a).first)
    BY <1>2, <1>3, LastPage
  <2> QED  BY <1>9, <2>1 DEF Turned
<1>11. \A u : Turned(a, u) => Turned(b, u)'
  BY <1>3, <1>7 DEF Turned, T, RowsView
<1>12. IsSequence(walk) /\ Len(walk) \in Nat /\ walk' = Append(walk, w)
       /\ \A i \in 1 .. Len(walk) : Turned(a, walk[i])
  <2>1. CASE walk = <<>>
    <3>1. IsSequence(<<>>) /\ Len(<<>>) = 0
      BY DEF IsSequence
    <3> QED  BY <1>2, <1>8, <2>1, <3>1
  <2>2. CASE walk # <<>>
    <3>1. Walks(a)
      BY <1>2, <2>2 DEF RInv, WalkFits, Walks
    <3> QED  BY <1>2, <1>8, <3>1 DEF Walks, PagesTurned
  <2> QED  BY <2>1, <2>2
<1>13. PICK n : n = Len(walk)
  OBVIOUS
<1>14. PICK new : new = walk'
  OBVIOUS
<1>15. /\ IsSequence(new) /\ Len(new) = n + 1 /\ n \in Nat
       /\ \A i \in 1 .. n : new[i] = walk[i]
       /\ new[n + 1] = w
  <2>1. PICK s : s = walk
    OBVIOUS
  <2>2. IsSequence(s) /\ n = Len(s) /\ new = Append(s, w)
    BY <1>12, <1>13, <1>14, <2>1
  <2>3. IsSequence(new) /\ Len(new) = n + 1 /\ n \in Nat
    BY <2>2, AppendFacts
  <2>4. \A i \in 1 .. n : new[i] = s[i]
    BY <2>2, AppendFacts
  <2>5. new[n + 1] = w
    BY <2>2, AppendFacts
  <2> QED  BY <2>1, <2>3, <2>4, <2>5
<1>16. \A i \in 1 .. n + 1 : Turned(b, new[i])'
  <2>1. \A i \in 1 .. n + 1 : i \in 1 .. n \/ i = n + 1
    BY <1>15
  <2>2. \A i \in 1 .. n + 1 : Turned(a, new[i])
    BY <1>10, <1>12, <1>13, <1>15, <2>1
  <2> QED  BY <1>11, <2>2
<1>17. /\ new[1].page.skip = 0
       /\ \A i \in 1 .. n : new[i + 1].page.skip = new[i].page.skip + Page(a).first
  <2>1. CASE walk = <<>>
    <3>1. n = 0
      BY <1>13, <2>1
    <3> QED  BY <1>2, <1>9, <1>15, <2>1, <3>1
  <2>2. CASE walk # <<>>
    <3>1. PagesTurned(a, walk)
      BY <1>2, <2>2 DEF RInv, WalkFits, Walks
    <3>2. n \in Nat \ {0} /\ new[1].page.skip = 0
      BY <1>13, <1>15, <3>1 DEF PagesTurned
    <3>3. ASSUME NEW i \in 1 .. n  PROVE new[i + 1].page.skip = new[i].page.skip + Page(a).first
      <4>1. CASE i = n
        BY <1>9, <1>13, <1>15, <3>1, <3>2, <4>1 DEF PagesTurned
      <4>2. CASE i # n
        <5>1. i \in 1 .. n - 1 /\ i + 1 \in 1 .. n
          BY <1>15, <4>2
        <5> QED  BY <1>13, <1>15, <3>1, <5>1 DEF PagesTurned
      <4> QED  BY <4>1, <4>2
    <3> QED  BY <3>2, <3>3
  <2> QED  BY <2>1, <2>2
<1>18. PagesTurned(b, new)'
  <2>1. Len(new) = n + 1 /\ n + 1 \in Nat \ {0} /\ n + 1 - 1 = n
    BY <1>15
  <2>2. Page(b).skip = new[n + 1].page.skip + Page(b).first
    BY <1>7, <1>9, <1>15
  <2> QED  BY <1>7, <1>15, <1>16, <1>17, <2>1, <2>2 DEF PagesTurned
<1>19. request' = doc /\ doc # None /\ Asks(doc) = {b}
  BY <1>2, <1>6, FormsAssumption DEF Begin
<1>20. Walks(b)'
  BY <1>2, <1>7, <1>14, <1>18, <1>19 DEF Walks
<1>21. WalkFits'
  BY <1>19, <1>20 DEF WalkFits
<1> QED  BY <1>4, <1>21

(* Blocks come in.                                                         *)
LEMMA WalkGoesOn ==
  ASSUME WalkFits, UNCHANGED <<request, walk>>,
         height \in Nat, height' \in Nat, height <= height', \A v \in 0 .. height : T(v)' = T(v)
  PROVE  WalkFits'
<1>1. request' = request /\ walk' = walk
  OBVIOUS
<1>2. ASSUME NEW a, NEW w, Turned(a, w)  PROVE Turned(a, w)'
  <2>1. PICK v : v = RowsView(a, w.seen)
    OBVIOUS
  <2>2. v \in 0 .. height /\ w.page.skip \in Int /\ w.page.first = Page(a).first
        /\ w.rows \in Limit(ListOf(a, T(v)), w.page.skip, w.page.first)
    BY <1>2, <2>1 DEF Turned
  <2>3. T(v)' = T(v) /\ v \in 0 .. height'
    BY <2>2
  <2>4. w.rows \in Limit(ListOf(a, T(v)'), w.page.skip, w.page.first)
    BY <2>2, <2>3
  <2> QED  BY <2>1, <2>2, <2>3, <2>4 DEF Turned
<1>3. ASSUME NEW a, Walks(a)  PROVE Walks(a)'
  BY <1>1, <1>2, <1>3 DEF Walks, PagesTurned
<1> QED  BY <1>1, <1>3 DEF WalkFits

LEMMA ViewsAnswer ==
  ASSUME RequestFits, NEW a \in pending, OfViews(a), NEW s
  PROVE  ~AboutVotes(a, s)
<1>1. a.of \in {"action", "xrc20", "chain"} /\ (a.of = "chain" => a.field # "votingResultMeta")
  BY DEF OfViews
<1>2. a.field \notin {"alias", "operatorAddress", "byDelegate"}
  <2>1. CASE a \in Asks(request)
    <3>1. Known(a)
      BY <2>1, AskFacts DEF RequestFits
    <3>2. a.field \in FieldNames(a.of)
      BY <3>1 DEF Known
    <3>3. a.of \notin Direct
      BY <1>1 DEF Direct
    <3>4. CASE a.of = "action"
      BY <3>2, <3>3, <3>4 DEF FieldNames, NamesOf
    <3>5. CASE a.of = "xrc20"
      BY <3>2, <3>3, <3>5 DEF FieldNames, NamesOf
    <3>6. CASE a.of = "chain"
      BY <3>2, <3>3, <3>6 DEF FieldNames, ChainNames
    <3> QED  BY <1>1, <3>4, <3>5, <3>6
  <2>2. CASE a \in TipsOf(request)
    BY <2>2, TipIs DEF TipsOf
  <2> QED  BY <2>1, <2>2 DEF RequestFits
<1>3. a.field # "votingResultMeta"
  <2>1. CASE a.of = "chain"
    BY <1>1, <2>1
  <2>2. CASE a.of \in {"action", "xrc20"}
    <3>1. a \in Asks(request)
      BY <2>2, TipIs DEF TipsOf, RequestFits
    <3>2. a.field \in FieldNames(a.of)
      BY <3>1, AskFacts DEF RequestFits, Known
    <3> QED  BY <2>2, <3>2 DEF FieldNames, NamesOf, Direct
  <2> QED  BY <1>1, <2>1, <2>2
<1> QED  BY <1>1, <1>2, <1>3 DEF AboutVotes, Direct

LEMMA RequestSteps ==
  ASSUME AInv, RInv, Next
  PROVE  RInv'
<1>0. ChainFormed /\ height \in Nat
  BY DEF AInv, TInv, ChainFormed
<1>1. CASE PutBlock
  <2>1. PICK b : Puts(b)
    BY <1>1, PutBlockPuts
  <2>2. PICK n : n = height + 1
    OBVIOUS
  <2>3. height' = n /\ \A v \in 0 .. height : T(v)' = T(v)
    BY <1>0, <2>1, <2>2, PutFacts
  <2>4. height' \in Nat /\ height <= height'
    BY <1>0, <2>2, <2>3
  <2>5. UNCHANGED <<request, pending, seen, response, failed, walk>>
    BY <1>1 DEF PutBlock
  <2>6. visible' \subseteq 0 .. height'
    <3>1. PICK kept \in SUBSET visible : visible' = kept \cup {n} /\ height' = n
      BY <1>1, <2>2 DEF PutBlock, CommitBlock
    <3>2. visible \subseteq 0 .. height
      BY DEF RInv
    <3> QED  BY <1>0, <2>2, <3>1, <3>2
  <2>7. WalkFits'
    BY <1>0, <2>3, <2>4, <2>5, WalkGoesOn DEF RInv
  <2>8. request # None => RequestFits'
    BY <1>0, <2>3, <2>4, <2>5, IndexGoesOn DEF RInv
  <2> QED  BY <2>5, <2>6, <2>7, <2>8 DEF RInv
<1>2. CASE ForgetView
  <2>1. UNCHANGED <<height, tables, request, pending, seen, response, failed, walk>>
    BY <1>2 DEF ForgetView, Forget
  <2>2. \A v \in 0 .. height : T(v)' = T(v)
    BY <2>1 DEF T
  <2>3. visible' \subseteq 0 .. height'
    BY <1>2 DEF ForgetView, Forget, RInv
  <2>4. height' \in Nat /\ height <= height'
    BY <1>0, <2>1
  <2>5. WalkFits'
    BY <1>0, <2>1, <2>2, <2>4, WalkGoesOn DEF RInv
  <2>6. request # None => RequestFits'
    BY <1>0, <2>1, <2>2, <2>4, IndexGoesOn DEF RInv
  <2> QED  BY <2>1, <2>3, <2>5, <2>6 DEF RInv
<1>3. ASSUME NEW doc \in Forms, Query(doc)  PROVE RInv'
  <2>1. request = None /\ AcceptedDocument(doc) /\ Begin(doc) /\ walk' = walk /\ visible' = visible /\ height' = height
    BY <1>3 DEF Query, index
  <2>2. RequestFits'
    BY <2>1, BeginFits
  <2>3. request' = doc /\ doc # None
    BY <2>1, FormsAssumption DEF Begin
  <2>4. walk' = <<>>
    BY <2>1 DEF RInv, WalkFits
  <2> QED  BY <2>1, <2>2, <2>3, <2>4 DEF RInv, WalkFits
<1>4. ASSUME NEW a \in pending, NEW v, OfViews(a) => v \in Answers, seen' = [seen EXCEPT ![a] = Append(@, v)],
             UNCHANGED <<height, visible, tables, request, pending, response, failed, walk>>
      PROVE  RInv'
  <2>1. request # None /\ RequestFits
    BY <1>4 DEF RInv
  <2>2. RequestFits'
    BY <1>4, <2>1, QueryFits
  <2>3. \A u \in 0 .. height : T(u)' = T(u)
    BY <1>4 DEF T
  <2>4. height' \in Nat /\ height <= height'
    BY <1>0, <1>4
  <2>5. WalkFits'
    BY <1>0, <1>4, <2>3, <2>4, WalkGoesOn DEF RInv
  <2> QED  BY <1>4, <2>1, <2>2, <2>5 DEF RInv
<1>5. ASSUME NEW a \in pending, Select(a)  PROVE RInv'
  <2>1. PICK v \in IF AboutVotes(a, seen[a]) THEN {Some, Absent} \cup (IF Decodes(a) THEN {Odd} ELSE {}) ELSE visible :
          seen' = [seen EXCEPT ![a] = Append(@, v)]
    BY <1>5 DEF Select
  <2>2. OfViews(a) => v \in Answers
    <3>1. RequestFits
      BY <1>5 DEF RInv
    <3>2. OfViews(a) => v \in visible
      BY <2>1, <3>1, ViewsAnswer
    <3> QED  BY <3>2 DEF RInv, Answers
  <2>3. UNCHANGED <<height, visible, tables, request, pending, response, failed, walk>>
    BY <1>5 DEF Select, index
  <2> QED  BY <1>4, <2>1, <2>2, <2>3
<1>6. ASSUME NEW a \in pending, FailSelect(a)  PROVE RInv'
  <2>1. seen' = [seen EXCEPT ![a] = Append(@, Broken)] /\ Broken \in Answers
    BY <1>6 DEF FailSelect, Answers
  <2>2. UNCHANGED <<height, visible, tables, request, pending, response, failed, walk>>
    BY <1>6 DEF FailSelect, index
  <2> QED  BY <1>4, <2>1, <2>2
<1>7. ASSUME NEW a \in pending, Return(a)  PROVE RInv'
  <2>1. request # None /\ RequestFits
    BY <1>7 DEF RInv
  <2>2. request' = request /\ walk' = walk /\ height' = height /\ visible' = visible /\ tables' = tables
    BY <1>7 DEF Return, index
  <2>3. RequestFits'
    <3>1. CASE a \in Asks(request)
      BY <1>7, <2>1, <3>1, AskReturns
    <3>2. CASE a \in TipsOf(request)
      <4>1. PICK i \in ChainRoots(request) : a = Tip(i)
        BY <3>2 DEF TipsOf
      <4> QED  BY <1>7, <2>1, <4>1, TipReturns
    <3> QED  BY <1>7, <2>1, <3>1, <3>2 DEF RequestFits
  <2>4. \A u \in 0 .. height : T(u)' = T(u)
    BY <2>2 DEF T
  <2>5. height' \in Nat /\ height <= height'
    BY <1>0, <2>2
  <2>6. WalkFits'
    BY <1>0, <2>2, <2>4, <2>5, WalkGoesOn DEF RInv
  <2> QED  BY <2>1, <2>2, <2>3, <2>6 DEF RInv
<1>8. CASE NextPage
  <2>1. RequestFits' /\ WalkFits'
    BY <1>8, PageTurns
  <2>2. height' = height /\ visible' = visible
    BY <1>8 DEF NextPage, index
  <2>3. request' # None
    BY <1>8, FormsAssumption DEF NextPage, Begin
  <2> QED  BY <2>1, <2>2, <2>3 DEF RInv
<1>9. CASE Leave
  BY <1>9 DEF Leave, Answering, RInv, WalkFits, index
<1> QED  BY <1>1, <1>2, <1>3, <1>5, <1>6, <1>7, <1>8, <1>9 DEF Next

LEMMA InitRequests == Init => RInv
<1> SUFFICES ASSUME Init  PROVE RInv
  OBVIOUS
<1>1. height = 0 /\ visible = {0} /\ request = None /\ pending = {} /\ walk = <<>>
  BY DEF Init, ViewsInit
<1> QED  BY <1>1 DEF RInv, WalkFits

LEMMA IdleRequests == AInv /\ RInv /\ UNCHANGED vars => RInv'
<1> SUFFICES ASSUME AInv, RInv, UNCHANGED vars  PROVE RInv'
  OBVIOUS
<1>1. UNCHANGED <<height, visible, tables, request, pending, seen, response, failed, walk>>
  BY DEF vars
<1>2. height \in Nat /\ height' \in Nat /\ height <= height' /\ \A v \in 0 .. height : T(v)' = T(v)
  BY <1>1 DEF AInv, TInv, ChainFormed, T
<1>3. WalkFits'
  BY <1>1, <1>2, WalkGoesOn DEF RInv
<1>4. request # None => RequestFits'
  BY <1>1, <1>2, IndexGoesOn DEF RInv
<1> QED  BY <1>1, <1>3, <1>4 DEF RInv

(* Whatever blocks come in between Begin, the queries of its goroutines and *)
(* Return, a request's fields tell of blocks that were indexed when they   *)
(* were read, and the pages a client turns follow one another.             *)
THEOREM RequestsInvariant == Spec => [](AInv /\ RInv)
<1>1. AInv /\ RInv /\ [Next]_vars => RInv'
  BY RequestSteps, IdleRequests
<1>2. AInv /\ [Next]_vars => AInv'
  BY PutBlockPuts, PutLists, SameLists, IndexSteps
<1> QED  BY <1>1, <1>2, InitRequests, InitLists, PTL DEF Spec

-------------------------------------------------------------------------------
(* The number of actions up to the last epoch there is, in the rows of the *)
(* blocks.                                                                 *)
LEMMA ActionsOfBlock ==
  ASSUME ChainFormed, NEW v \in 0 .. height, NEW i \in 1 .. v
  PROVE  /\ IsFiniteSet({p \in ChainActions(v) : p[1] = i})
         /\ Cardinality({p \in ChainActions(v) : p[1] = i}) = Cardinality(blocks[i].actions)
<1> DEFINE S == blocks[i].actions
           P == {p \in ChainActions(v) : p[1] = i}
           f == [x \in S |-> <<i, x>>]
<1>1. \A p \in ChainActions(v) : p[2] \in blocks[p[1]].actions /\ p = <<p[1], p[2]>>
  BY ChainFinite
<1>2. \A x \in S : <<i, x>> \in ChainActions(v)
  BY DEF ChainActions
<1>3. IsFiniteSet(S)
  <2>1. i \in 1 .. height
    BY DEF ChainFormed
  <2> QED  BY <2>1, BlockFacts
<1>4. P = {<<i, x>> : x \in S}
  BY <1>1, <1>2
<1>5. {<<i, x>> : x \in S} = {f[x] : x \in S}
  OBVIOUS
<1>6. \A x, y \in S : f[x] = f[y] => x = y
  <2>1. \A x \in S : f[x] = <<i, x>>
    OBVIOUS
  <2> HIDE DEF f
  <2> QED  BY <2>1
<1> HIDE DEF f, S, P
<1>7. IsFiniteSet({f[x] : x \in S}) /\ Cardinality({f[x] : x \in S}) = Cardinality(S)
  BY <1>3, <1>6, CountRows
<1> QED  BY <1>4, <1>5, <1>7 DEF P, S

LEMMA EpochOfLast ==
  ASSUME AInv, NEW v \in 0 .. height, T(v).block_history # {}
  PROVE  CurrentEpoch(T(v)) = GetEpochNumber(v)
<1> DEFINE rows == T(v).block_history
           E == {x.epoch : x \in rows}
           last == GetEpochNumber(v)
<1>1. rows = {BlockRow(h) : h \in 1 .. v} /\ v \in Nat
  BY DEF AInv, TInv, ListsTell, RowsTell, ChainFormed
<1>2. v # 0
  BY <1>1
<1>3. ASSUME NEW h \in 1 .. v  PROVE GetEpochNumber(h) \in Nat \ {0} /\ GetEpochNumber(h) <= last
  <2>1. h \in Nat \ {0} /\ v \in Nat \ {0} /\ h <= v
    BY <1>1, <1>2
  <2> QED  BY <2>1, HeightInEpoch, EpochMonotone, RequestsAssumption
<1>4. \A x \in rows : x.epoch \in Nat \ {0} /\ x.epoch <= last
  <2>1. \A h : BlockRow(h).epoch = GetEpochNumber(h)
    BY DEF BlockRow
  <2> HIDE DEF rows, last
  <2> QED  BY <1>1, <1>3, <2>1
<1>5. last \in E /\ last \in Nat \ {0}
  <2>1. v \in 1 .. v
    BY <1>1, <1>2
  <2>2. BlockRow(v) \in rows /\ BlockRow(v).epoch = last
    BY <1>1, <2>1 DEF BlockRow
  <2> QED  BY <1>3, <2>1, <2>2
<1>6. CurrentEpoch(T(v)) = CHOOSE x \in E : \A y \in E : x >= y
  BY DEF CurrentEpoch, Max
<1>7. \A x \in E : x \in Nat /\ x <= last
  BY <1>4
<1> HIDE DEF E, last
<1>8. last \in E /\ \A y \in E : last >= y
  BY <1>5, <1>7
<1>9. \A x \in E : (\A y \in E : x >= y) => x = last
  BY <1>5, <1>7, <1>8
<1>10. (CHOOSE x \in E : \A y \in E : x >= y) \in E /\ \A y \in E : (CHOOSE x \in E : \A z \in E : x >= z) >= y
  BY <1>8
<1> QED  BY <1>6, <1>9, <1>10 DEF last

(* The number of actions of a range of epochs.                             *)
LEMMA NumberAgrees ==
  ASSUME AInv, NEW v \in 0 .. height, NEW first, NEW last
  PROVE  GetNumberOfActions(T(v), first, last) =
           Cardinality({p \in ChainActions(v) : first <= GetEpochNumber(p[1]) /\ GetEpochNumber(p[1]) <= last})
<1> DEFINE rows == BlocksOfEpochs(T(v), first, last)
           Within(i) == first <= GetEpochNumber(i) /\ GetEpochNumber(i) <= last
           C == {p \in ChainActions(v) : Within(p[1])}
<1>1. ChainFormed /\ T(v).block_history = {BlockRow(i) : i \in 1 .. v} /\ v \in Nat /\ height \in Nat /\ v <= height
  BY DEF AInv, TInv, ListsTell, RowsTell, ChainFormed
<1>2. \A i : BlockRow(i).height = i /\ BlockRow(i).epoch = GetEpochNumber(i)
  BY DEF BlockRow
<1>3. rows = {BlockRow(i) : i \in {j \in 1 .. v : Within(j)}}
  BY <1>1, <1>2 DEF BlocksOfEpochs
<1> HIDE DEF Within
<1> DEFINE h == [x \in rows |-> x.actions]
           f == [p \in C |-> 1]
           g == [p \in C |-> BlockRow(p[1])]
<1>8. GetNumberOfActions(T(v), first, last) = SumFunctionOnSet(h, rows)
  BY DEF GetNumberOfActions, SumFunction
<1>9. IsFiniteSet(C) /\ \A p \in C : p[1] \in 1 .. v /\ Within(p[1])
  <2>1. IsFiniteSet(ChainActions(v)) /\ \A p \in ChainActions(v) : p[1] \in 1 .. v
    BY <1>1, ChainFinite
  <2> QED  BY <2>1, FS_Subset
<1>10. IsFiniteSet(rows)
  <2> DEFINE D == {j \in 1 .. v : Within(j)}
             m == [i \in D |-> BlockRow(i)]
  <2>1. m \in Surjection(D, rows)
    BY <1>3 DEF Surjection
  <2>2. IsFiniteSet(D)
    <3>1. IsFiniteSet(1 .. v)
      BY <1>1, FS_Interval
    <3>2. D \in SUBSET (1 .. v)
      OBVIOUS
    <3> HIDE DEF D
    <3> QED  BY <3>1, <3>2, FS_Subset
  <2> HIDE DEF D, m
  <2> QED  BY <2>1, <2>2, FS_Surjection
<1>11. \A p \in C : f[p] = 1 /\ f[p] \in Int /\ g[p] \in rows
  BY <1>3, <1>9
<1>12. ASSUME NEW k \in rows  PROVE h[k] = SumFunctionOnSet(f, {p \in C : g[p] = k})
  <2>1. PICK i \in 1 .. v : k = BlockRow(i) /\ Within(i)
    BY <1>3
  <2>2. k.height = i /\ k.actions = Cardinality(blocks[i].actions)
    BY <2>1 DEF BlockRow
  <2>3. {p \in C : g[p] = k} = {p \in ChainActions(v) : p[1] = i}
    <3>1. \A p \in C : g[p] = BlockRow(p[1])
      OBVIOUS
    <3>2. \A p : p \in C <=> p \in ChainActions(v) /\ Within(p[1])
      OBVIOUS
    <3> HIDE DEF g, C
    <3> QED  BY <1>2, <2>1, <2>2, <3>1, <3>2
  <2>4. /\ IsFiniteSet({p \in ChainActions(v) : p[1] = i})
        /\ Cardinality({p \in ChainActions(v) : p[1] = i}) = Cardinality(blocks[i].actions)
    BY <1>1, ActionsOfBlock
  <2>5. SumFunctionOnSet(f, {p \in C : g[p] = k}) = Cardinality({p \in C : g[p] = k})
    <3>1. \A p \in {q \in C : g[q] = k} : f[p] = 1
      BY <1>11
    <3> HIDE DEF f, g, C
    <3> QED  BY <2>3, <2>4, <3>1, SumOfOnes
  <2>6. h[k] = k.actions
    OBVIOUS
  <2> QED  BY <2>2, <2>3, <2>4, <2>5, <2>6
<1> HIDE DEF h, f, g, C, rows
<1>13. SumFunctionOnSet(h, rows) = SumFunctionOnSet(f, C)
  <2>1. SumsOfParts(h, f, g, C, rows)
    BY <1>11, <1>12 DEF SumsOfParts
  <2> QED  BY <1>9, <1>10, <2>1, SumOfParts
<1>14. SumFunctionOnSet(f, C) = Cardinality(C)
  BY <1>9, <1>11, SumOfOnes
<1> QED  BY <1>8, <1>13, <1>14 DEF C, Within

-------------------------------------------------------------------------------
(* What the invariants say of the answers.                                 *)
LEMMA FieldsHold == AInv /\ RInv => FieldsWritten
<1> SUFFICES ASSUME AInv, RInv, Answering, NEW i \in DOMAIN request.roots, i \notin failed
             PROVE  LET root == request.roots[i]
                        names == IF root.name \in Direct THEN {root.name} ELSE CollectAllFields(root.sub)
                    IN  \A n \in names :
                          \/ <<i, Written(n)>> \in DOMAIN response
                          \/ n = "byBucketIndex" /\ <<i, "byAddress">> \in DOMAIN response
                          \/ n = "byAddressAndType" /\ NoneBeyond(Ask(request, i, n))
                          \/ n = "totalCirculatingSupplyNoRewardPool" /\ names \cap Supplies = {n}
  BY DEF FieldsWritten
<1> DEFINE root == request.roots[i]
           names == IF root.name \in Direct THEN {root.name} ELSE CollectAllFields(root.sub)
<1>1. RequestFits /\ request \in Forms /\ AcceptedDocument(request)
  BY DEF RInv, Answering, RequestFits
<1>2. root.name \in Inner \cup Direct /\ (root.name \in Inner => CollectAllFields(root.sub) \subseteq NamesOf(root.name))
  <2>1. root.name # "xrc721"
    BY <1>1, FormsAssumption
  <2> QED  BY <1>1, <2>1, NamesFit
<1>3. ASSUME NEW m \in Names(request, i)
      PROVE  \/ <<i, m>> \in DOMAIN response
             \/ m = "byBucketIndex" /\ <<i, "byAddress">> \in DOMAIN response
             \/ m = "byAddressAndType" /\ NoneBeyond(Ask(request, i, m))
  <2>1. PICK a : a = Ask(request, i, m)
    OBVIOUS
  <2>2. a \in Asks(request)
    BY <2>1, AsksAre
  <2>3. a.root = i /\ a.field = m /\ a.of = root.name
    BY <2>1, AskIs
  <2>4. AskTold(a) /\ ~Waiting(a)
    BY <1>1, <2>2 DEF RequestFits, Answering, Waiting
  <2>5. Has(a) \/ Quiet(a)
    BY <2>3, <2>4 DEF AskTold
  <2>6. CASE PastEnd(a, seen[a])
    <3>1. a.of = "action" /\ m = "byAddressAndType" /\ seen[a][1] \in 0 .. height
          /\ Page(a).skip >= CountOf(a, T(seen[a][1]))
      BY <2>3, <2>6 DEF PastEnd
    <3>2. ListFields(a) /\ a.field # "byBucketIndex"
      BY <2>3, <3>1 DEF ListFields, ActionFields
    <3>3. CountOf(a, T(seen[a][1])) = Cardinality(Expected(a, seen[a][1]))
      BY <3>1, <3>2, ListsAgree DEF ListAgrees
    <3> QED  BY <2>1, <3>1, <3>3 DEF NoneBeyond
  <2> QED  BY <2>3, <2>5, <2>6 DEF Has, Quiet
<1>4. CASE root.name \in Direct
  <2>1. names = {root.name} /\ Names(request, i) = {root.name}
    BY <1>4 DEF Names
  <2>2. Written(root.name) = root.name
    BY <1>4 DEF Written, Direct, Supplies, Tips
  <2> QED  BY <1>3, <2>1, <2>2
<1>5. CASE root.name \in Inner
  <2>1. root.name \notin Direct
    BY <1>5, InnerNames
  <2>2. names = CollectAllFields(root.sub) /\ Names(request, i) = Launched(names)
    BY <2>1 DEF Names
  <2> HIDE DEF names
  <2> SUFFICES ASSUME NEW n \in names
               PROVE  \/ <<i, Written(n)>> \in DOMAIN response
                      \/ n = "byBucketIndex" /\ <<i, "byAddress">> \in DOMAIN response
                      \/ n = "byAddressAndType" /\ NoneBeyond(Ask(request, i, n))
                      \/ n = "totalCirculatingSupplyNoRewardPool" /\ names \cap Supplies = {n}
    BY DEF names
  <2>3. CASE n \in Tips
    <3>1. root.name = "chain"
      BY <1>2, <1>5, <2>2, <2>3, InnerNames
    <3>2. i \in ChainRoots(request)
      BY <3>1 DEF ChainRoots
    <3>3. TipTold(i) /\ Tip(i) \notin pending
      BY <1>1, <3>2 DEF RequestFits, Answering
    <3>4. Written(n) = "tip"
      BY <2>3 DEF Written, Tips, Supplies
    <3> QED  BY <3>3, <3>4 DEF TipTold
  <2>4. CASE n \in Supplies
    <3>1. CASE names \cap {"totalSupply", "totalCirculatingSupply"} # {}
      <4>1. "supplies" \in Launched(names)
        BY <3>1 DEF Launched
      <4>2. <<i, "supplies">> \in DOMAIN response
        BY <1>3, <2>2, <4>1
      <4> QED  BY <2>4, <4>2 DEF Written
    <3>2. CASE names \cap {"totalSupply", "totalCirculatingSupply"} = {}
      BY <2>4, <3>2 DEF Supplies
    <3> QED  BY <3>1, <3>2
  <2>5. CASE n \notin Supplies \cup Tips
    <3>1. n \in Launched(names) /\ Written(n) = n
      BY <2>5 DEF Launched, Written
    <3> QED  BY <1>3, <2>2, <3>1
  <2> QED  BY <2>3, <2>4, <2>5
<1> QED  BY <1>2, <1>4, <1>5

(* Which root a field is of.                                               *)
LEMMA FieldIsOf ==
  ASSUME NEW a, Known(a)
  PROVE  /\ a.field = "byType" => a.of = "action"
         /\ a.field = "tokenHolderAddresses" => a.of = "xrc20"
         /\ a.field = "numberOfActions" => a.of = "chain"
<1>1. a.of \in Inner \cup Direct /\ a.field \in FieldNames(a.of)
  BY DEF Known
<1>2. CASE a.of \in Direct
  BY <1>1, <1>2 DEF FieldNames, Direct
<1>3. CASE a.of \in {"account", "delegate", "voting"}
  BY <1>1, <1>3 DEF FieldNames, Direct, NamesOf
<1>4. CASE a.of = "xrc20"
  BY <1>1, <1>4 DEF FieldNames, Direct, NamesOf
<1>5. CASE a.of = "action"
  BY <1>1, <1>5 DEF FieldNames, Direct, NamesOf
<1>6. CASE a.of = "hermes2"
  BY <1>1, <1>6 DEF FieldNames, Direct, NamesOf
<1>7. CASE a.of = "chain"
  BY <1>1, <1>7 DEF FieldNames, Direct, ChainNames
<1> QED  BY <1>1, <1>2, <1>3, <1>4, <1>5, <1>6, <1>7 DEF Inner

(* What a list is read from, with as many rows as are expected.            *)
LEMMA ListRows ==
  ASSUME AInv, NEW v \in 0 .. height, NEW a, ListFields(a),
         a.field = "byBucketIndex" => a.args.bucketIndex # NoBucket
  PROVE  /\ IsFiniteSet(ListOf(a, T(v)))
         /\ Cardinality(ListOf(a, T(v))) = Cardinality(Expected(a, v))
         /\ CountOf(a, T(v)) = Cardinality(Expected(a, v))
         /\ IsFiniteSet(Expected(a, v)) /\ Cardinality(Expected(a, v)) \in Nat
<1> DEFINE E == Expected(a, v)
           f == [p \in E |-> RowOf(a, p)]
<1>1. IsFiniteSet(E) /\ ListOf(a, T(v)) = {RowOf(a, p) : p \in E} /\ CountOf(a, T(v)) = Cardinality(E)
  BY ListsAgree DEF ListAgrees
<1>2. E \subseteq ChainActions(v) /\ ChainFormed
  BY DEF Expected, AInv, TInv, ListFields
<1>3. Cardinality({RowOf(a, p) : p \in E}) = Cardinality(E)
  <2> HIDE DEF E
  <2>1. Cardinality({ActionRow(p) : p \in E}) = Cardinality(E) /\ Cardinality({TokenRow(p) : p \in E}) = Cardinality(E)
    BY <1>2, RowsOf
  <2> QED  BY <2>1 DEF RowOf
<1>4. IsFiniteSet({f[p] : p \in E})
  <2>1. f \in Surjection(E, {f[p] : p \in E})
    <3>1. DOMAIN f = E /\ f = [p \in E |-> f[p]]
      OBVIOUS
    <3> HIDE DEF f, E
    <3> QED  BY <3>1 DEF Surjection
  <2> HIDE DEF f, E
  <2> QED  BY <1>1, <2>1, FS_Surjection
<1>5. {f[p] : p \in E} = {RowOf(a, p) : p \in E}
  OBVIOUS
<1> HIDE DEF E, f
<1> QED  BY <1>1, <1>3, <1>4, <1>5, FS_CardinalityType DEF E

(* What an answer has of its own, and what it is about.                    *)
LEMMA AnsweredFacts ==
  ASSUME RInv, NEW a \in Answered
  PROVE  /\ RequestFits /\ Answering /\ request \in Forms /\ AcceptedDocument(request)
         /\ a \in Asks(request) /\ a.root \notin failed /\ Known(a) /\ Told(a)
         /\ ListFields(a) \/ IsHolders(a) => Page(a).skip \in Int /\ Page(a).first \in Int
         /\ a.field = "byBucketIndex" => a.args.bucketIndex # NoBucket
<1>1. /\ Answering /\ a \in Asks(request) /\ a.root \notin failed /\ <<a.root, a.field>> \in DOMAIN response /\ ~Overwritten(a)
  BY DEF Answered
<1>2. RequestFits /\ request \in Forms /\ AcceptedDocument(request)
  BY <1>1 DEF RInv, Answering, RequestFits
<1>3. Told(a)
  BY <1>1, <1>2, GotTells DEF Has
<1>4. Known(a)
  BY <1>1, <1>2, AskFacts
<1>5. /\ ListFields(a) \/ IsHolders(a) => Page(a).skip \in Int /\ Page(a).first \in Int
      /\ a.field = "byBucketIndex" => a.args.bucketIndex # NoBucket
  <2>1. ListFields(a) => Lists(a)
    BY ListsAre
  <2> QED  BY <1>1, <1>2, <2>1, PagesAreNumbers DEF IsHolders
<1> QED  BY <1>1, <1>2, <1>3, <1>4, <1>5

LEMMA AnswersHold == AInv /\ RInv => AnswersTellOfTheChain
<1> SUFFICES ASSUME AInv, RInv, NEW a \in Answered
             PROVE  /\ Lists(a) =>
                         LET page == Page(a)
                             all == Cardinality(Expected(a, RowsView(a, seen[a])))
                         IN  /\ Got(a).exist => Got(a).count = Cardinality(Expected(a, CountView(a, seen[a])))
                             /\ Cardinality(Got(a).rows) =
                                  IF page.skip >= all THEN 0 ELSE Least(page.first, all - page.skip)
                    /\ a.field = "numberOfActions" /\ Got(a).exist =>
                         LET range == RangeAsked(a, GetEpochNumber(seen[Tip(a.root)][2]))
                             epoch(p) == GetEpochNumber(p[1])
                         IN  Got(a).count =
                               Cardinality({p \in ChainActions(seen[a][3]) :
                                              range.startEpoch <= epoch(p) /\ epoch(p) <= Ending(range)})
  BY DEF AnswersTellOfTheChain
<1>1. /\ RequestFits /\ Answering /\ request \in Forms /\ AcceptedDocument(request)
      /\ a \in Asks(request) /\ a.root \notin failed /\ Known(a) /\ Told(a)
      /\ ListFields(a) \/ IsHolders(a) => Page(a).skip \in Int /\ Page(a).first \in Int
      /\ a.field = "byBucketIndex" => a.args.bucketIndex # NoBucket
  BY AnsweredFacts
<1>2. ASSUME Lists(a)
      PROVE  LET all == Cardinality(Expected(a, RowsView(a, seen[a])))
             IN  /\ Got(a).exist => Got(a).count = Cardinality(Expected(a, CountView(a, seen[a])))
                 /\ Cardinality(Got(a).rows) =
                      IF Page(a).skip >= all THEN 0 ELSE Least(Page(a).first, all - Page(a).skip)
  <2>1. ListFields(a)
    BY <1>2, ListsAre
  <2>2. ListTold(a, seen[a], Got(a))
    BY <1>1, <2>1 DEF Told
  <2>3. ListFirst(a) <=> a.field = "byType"
    BY <2>1 DEF ListFirst, ListFields, ActionFields, TokenFields
  <2>4. PICK v, w : v = RowsView(a, seen[a]) /\ w = CountView(a, seen[a])
    OBVIOUS
  <2> DEFINE rows == ListOf(a, T(v))
  <2>5. /\ v \in 0 .. height /\ Got(a).rows \in Pages(a, rows)
        /\ Got(a).exist => w \in 0 .. height /\ Got(a).count = CountOf(a, T(w))
    <3>1. CASE a.field = "byType"
      BY <2>2, <2>3, <2>4, <3>1 DEF ListTold, RowsView, CountView
    <3>2. CASE a.field # "byType"
      BY <2>2, <2>3, <2>4, <3>2 DEF ListTold, RowsView, CountView
    <3> QED  BY <3>1, <3>2
  <2>6. IsFiniteSet(rows) /\ Cardinality(rows) = Cardinality(Expected(a, v))
    BY <1>1, <2>1, <2>5, ListRows
  <2>7. Got(a).exist => CountOf(a, T(w)) = Cardinality(Expected(a, w))
    BY <1>1, <2>1, <2>5, ListRows
  <2>8. Got(a).rows \in Limit(rows, Page(a).skip, Page(a).first) /\ Page(a).skip \in Int /\ Page(a).first \in Int
    BY <1>1, <2>1, <2>5 DEF Pages
  <2> HIDE DEF rows
  <2>9. Cardinality(Got(a).rows) =
          IF Page(a).skip >= Cardinality(rows) THEN 0 ELSE Least(Page(a).first, Cardinality(rows) - Page(a).skip)
    BY <2>6, <2>8, PageSize
  <2> QED  BY <2>4, <2>5, <2>6, <2>7, <2>9
<1>3. ASSUME a.field = "numberOfActions", Got(a).exist
      PROVE  LET range == RangeAsked(a, GetEpochNumber(seen[Tip(a.root)][2]))
             IN  Got(a).count =
                   Cardinality({p \in ChainActions(seen[a][3]) :
                                  range.startEpoch <= GetEpochNumber(p[1]) /\ GetEpochNumber(p[1]) <= Ending(range)})
  <2>1. a.of = "chain"
    BY <1>1, <1>3, FieldIsOf
  <2>2. a.root \in ChainRoots(request)
    BY <1>1, <2>1, AskFacts DEF ChainRoots
  <2>3. TipTells(seen[Tip(a.root)], response[<<a.root, "tip">>])
    BY <1>1, <2>2 DEF RequestFits, TipTold, Answering
  <2>4. response[<<a.root, "tip">>].epoch = GetEpochNumber(seen[Tip(a.root)][2])
    BY <2>3, EpochOfLast DEF TipTells
  <2>5. PICK range : range = RangeAsked(a, GetEpochNumber(seen[Tip(a.root)][2]))
    OBVIOUS
  <2>6. NumberTells(seen[a], Got(a), range)
    BY <1>1, <1>3, <2>1, <2>4, <2>5 DEF Told
  <2>7. seen[a][3] \in 0 .. height /\ Got(a).count = GetNumberOfActions(T(seen[a][3]), range.startEpoch, Ending(range))
    BY <1>3, <2>6 DEF NumberTells
  <2> QED  BY <2>5, <2>7, NumberAgrees
<1> QED  BY <1>2, <1>3

(* A list that is about actions gets longer as blocks come in.             *)
LEMMA ExpectedGrows ==
  ASSUME NEW a, a.of = "action", a.field \in {"byType", "byAddress"},
         NEW v \in Nat, NEW w \in Nat, v <= w
  PROVE  Expected(a, v) \subseteq Expected(a, w)
<1>1. ChainActions(v) \subseteq ChainActions(w)
  <2>1. 1 .. v \subseteq 1 .. w
    OBVIOUS
  <2> QED  BY <2>1 DEF ChainActions
<1> QED  BY <1>1 DEF Expected, AboutAction

LEMMA CountHolds == AInv /\ RInv => CountCoversPage
<1> SUFFICES ASSUME AInv, RInv, NEW a \in Answered, a.field \in {"byType", "tokenHolderAddresses"}, Got(a).exist,
                    seen[a][1] <= seen[a][2]
             PROVE  Page(a).skip + Cardinality(Got(a).rows) <= Got(a).count
  BY DEF CountCoversPage
<1> DEFINE v == seen[a][1]
           w == seen[a][2]
           rows == ListOf(a, T(v))
<1>1. /\ RequestFits /\ Answering /\ request \in Forms /\ AcceptedDocument(request)
      /\ a \in Asks(request) /\ a.root \notin failed /\ Known(a) /\ Told(a)
      /\ ListFields(a) \/ IsHolders(a) => Page(a).skip \in Int /\ Page(a).first \in Int
      /\ a.field = "byBucketIndex" => a.args.bucketIndex # NoBucket
  BY AnsweredFacts
<1>2. /\ a.field = "byType" => a.of = "action" /\ ListFields(a)
      /\ a.field = "tokenHolderAddresses" => a.of = "xrc20" /\ IsHolders(a)
  BY <1>1, FieldIsOf DEF ListFields, ActionFields, IsHolders
<1>3. ListTold(a, seen[a], Got(a)) /\ ListFirst(a)
  BY <1>1, <1>2 DEF Told, ListFirst
<1>4. /\ v \in 0 .. height /\ w \in 0 .. height
      /\ Got(a).rows \in Limit(rows, Page(a).skip, Page(a).first)
      /\ Got(a).rows # {} /\ Got(a).count = CountOf(a, T(w))
  BY <1>3 DEF ListTold, Pages
<1>5. v <= w /\ height \in Nat
  BY DEF AInv, TInv, ChainFormed
<1>6. IsFiniteSet(rows) /\ Cardinality(rows) \in Nat /\ CountOf(a, T(w)) \in Nat /\ Cardinality(rows) <= CountOf(a, T(w))
  <2>1. CASE a.field = "byType"
    <3> DEFINE E == Expected(a, v)
               F == Expected(a, w)
    <3>1. /\ IsFiniteSet(rows) /\ Cardinality(rows) = Cardinality(E)
          /\ IsFiniteSet(E) /\ Cardinality(E) \in Nat
      BY <1>2, <1>4, <2>1, ListRows
    <3>2. CountOf(a, T(w)) = Cardinality(F) /\ IsFiniteSet(F) /\ Cardinality(F) \in Nat
      BY <1>2, <1>4, <2>1, ListRows
    <3>3. E \subseteq F
      BY <1>2, <1>4, <1>5, <2>1, ExpectedGrows
    <3> HIDE DEF E, F, rows
    <3>4. Cardinality(E) <= Cardinality(F)
      BY <3>2, <3>3, FS_Subset
    <3> QED  BY <3>1, <3>2, <3>4
  <2>2. CASE a.field = "tokenHolderAddresses"
    <3> DEFINE H(t) == {x \in t.xrc_holders : x.contract = a.args.tokenAddress}
    <3>1. rows = H(T(v)) /\ CountOf(a, T(w)) = Cardinality(H(T(w)))
      BY <1>2, <2>2 DEF ListOf, CountOf, TokenList, TokenCount, GetXrc20Holders, GetXrc20HolderCount
    <3>2. IsFiniteSet(T(w).xrc_holders) /\ T(v).xrc_holders \subseteq T(w).xrc_holders
      BY <1>4, <1>5 DEF AInv, ListsTell, HoldersGrow
    <3>3. H(T(v)) \subseteq H(T(w)) /\ IsFiniteSet(H(T(w)))
      <4>1. H(T(w)) \subseteq T(w).xrc_holders /\ H(T(v)) \subseteq H(T(w))
        BY <3>2
      <4> HIDE DEF H
      <4> QED  BY <3>2, <4>1, FS_Subset
    <3> HIDE DEF H, rows
    <3> QED  BY <3>1, <3>3, FS_Subset, FS_CardinalityType
  <2> QED  BY <2>1, <2>2
<1>7. Page(a).skip \in Int /\ Page(a).first \in Int
  BY <1>1, <1>2
<1> HIDE DEF v, w, rows
<1>8. /\ IsFiniteSet(Got(a).rows)
      /\ Cardinality(Got(a).rows) =
           IF Page(a).skip >= Cardinality(rows) THEN 0 ELSE Least(Page(a).first, Cardinality(rows) - Page(a).skip)
  BY <1>4, <1>6, <1>7, PageSize
<1>9. Cardinality(Got(a).rows) # 0
  BY <1>4, <1>8, FS_EmptySet
<1>10. Cardinality(Got(a).rows) <= Cardinality(rows) - Page(a).skip
  BY <1>6, <1>7, <1>8, <1>9 DEF Least
<1>11. Cardinality(Got(a).rows) \in Nat
  BY <1>8, FS_CardinalityType
<1> QED  BY <1>4, <1>6, <1>7, <1>10, <1>11

LEMMA Ordered ==
  ASSUME NEW n \in Nat, NEW f, \A i \in 1 .. n : f[i] \in Nat, \A i \in 1 .. n - 1 : f[i] <= f[i + 1],
         NEW i \in 1 .. n, NEW j \in 1 .. n, i <= j
  PROVE  f[i] <= f[j]
<1> DEFINE Bad == {k \in i .. n : f[k] < f[i]}
<1>1. SUFFICES ASSUME Bad # {}  PROVE FALSE
  <2>1. j \in i .. n /\ f[j] \in Nat /\ f[i] \in Nat
    OBVIOUS
  <2> QED  BY <2>1
<1>2. Bad \subseteq Nat
  OBVIOUS
<1> HIDE DEF Bad
<1>3. PICK k \in Bad : \A m \in Bad : k <= m
  BY <1>1, <1>2, LeastNumber
<1>4. k \in i .. n /\ f[k] < f[i] /\ f[i] \in Nat /\ f[k] \in Nat
  BY <1>3 DEF Bad
<1>5. k # i
  BY <1>4
<1>6. k - 1 \in i .. n /\ k - 1 \in 1 .. n - 1 /\ f[k - 1] <= f[k] /\ f[k - 1] \in Nat
  <2>1. k - 1 \in i .. n /\ k - 1 \in 1 .. n - 1 /\ k - 1 \in 1 .. n /\ k - 1 + 1 = k
    BY <1>4, <1>5
  <2> QED  BY <2>1
<1>7. k - 1 \in Bad
  BY <1>4, <1>6 DEF Bad
<1> QED  BY <1>3, <1>4, <1>7

(* Where a row is that comes before all a client has come to: on one of    *)
(* the pages, if each begins where the one before it ended and no row      *)
(* moves up.                                                               *)
LEMMA OnSomePage ==
  ASSUME NEW n \in Nat, NEW skip, NEW rank, NEW F \in Int,
         \A i \in 1 .. n : skip[i] \in Int /\ rank[i] \in Nat,
         \A i \in 1 .. n - 1 : skip[i + 1] = skip[i] + F /\ rank[i] <= rank[i + 1],
         n # 0, skip[1] = 0, rank[n] < skip[n] + F
  PROVE  \E i \in 1 .. n : skip[i] <= rank[i] /\ rank[i] < skip[i] + F
<1> DEFINE Good == {i \in 1 .. n : rank[i] < skip[i] + F}
<1>1. Good # {} /\ Good \subseteq Nat
  OBVIOUS
<1> HIDE DEF Good
<1>2. PICK i \in Good : \A m \in Good : i <= m
  BY <1>1, LeastNumber
<1>3. i \in 1 .. n /\ rank[i] < skip[i] + F
  BY <1>2 DEF Good
<1>4. CASE i = 1
  BY <1>3, <1>4
<1>5. CASE i # 1
  <2>1. i - 1 \in 1 .. n /\ i - 1 \in 1 .. n - 1 /\ i - 1 + 1 = i
    BY <1>3, <1>5
  <2>2. i - 1 \notin Good
    BY <1>2, <1>3
  <2>3. ~(rank[i - 1] < skip[i - 1] + F)
    BY <2>1, <2>2 DEF Good
  <2>4. skip[i] = skip[i - 1] + F /\ rank[i - 1] <= rank[i]
    BY <2>1
  <2>5. rank[i - 1] \in Nat /\ skip[i - 1] \in Int /\ rank[i] \in Nat
    BY <1>3, <2>1
  <2>6. skip[i] <= rank[i]
    BY <2>3, <2>4, <2>5
  <2> QED  BY <1>3, <2>6
<1> QED  BY <1>4, <1>5

(* The rows of a list as of a block, and where a row of them is.           *)
LEMMA RankGrows ==
  ASSUME NEW R, NEW S, IsFiniteSet(S), R \subseteq S, NEW x
  PROVE  Cardinality(Before(R, x)) <= Cardinality(Before(S, x))
<1>1. Before(R, x) \subseteq Before(S, x) /\ Before(S, x) \subseteq S
  BY DEF Before
<1> QED  BY <1>1, FS_Subset

LEMMA RankOfLater ==
  ASSUME NEW R, IsFiniteSet(R), NEW x, NEW y, \A z \in R : z.height \in Nat,
         x.height \in Nat, y.height \in Nat, x.height <= y.height
  PROVE  Cardinality(Before(R, y)) <= Cardinality(Before(R, x))
<1>1. Before(R, y) \subseteq Before(R, x) /\ Before(R, x) \subseteq R
  BY DEF Before
<1> QED  BY <1>1, FS_Subset

(* The list of actions as of a block, if no two are of one block.          *)
LEMMA ListByHeight ==
  ASSUME AInv, NEW a, a.of = "action", a.field \in {"byType", "byAddress"},
         NEW v \in 0 .. height, NEW w \in 0 .. height, v <= w,
         \A p, q \in Expected(a, w) : p[1] = q[1] => p = q
  PROVE  LET R == ListOf(a, T(v))
         IN  /\ R = {ActionRow(p) : p \in Expected(a, v)} /\ IsFiniteSet(R)
             /\ \A x \in R : x.height \in Nat
             /\ \A x, y \in R : x.height = y.height => x = y
<1> DEFINE E == Expected(a, v)
           R == ListOf(a, T(v))
<1>1. ListFields(a) /\ ListAgrees(a, v) /\ IsFiniteSet(R)
  <2>1. ListFields(a) /\ a.field # "byBucketIndex"
    BY DEF ListFields, ActionFields
  <2> QED  BY <2>1, ListsAgree, ListRows
<1>2. R = {ActionRow(p) : p \in E}
  BY <1>1 DEF ListAgrees, RowOf
<1>3. E \subseteq Expected(a, w)
  <2>1. v \in Nat /\ w \in Nat
    BY DEF AInv, TInv, ChainFormed
  <2> QED  BY <2>1, ExpectedGrows
<1>4. \A p \in E : p[1] \in Nat
  <2>1. E \subseteq ChainActions(v) /\ ChainFormed /\ v \in Nat
    BY DEF Expected, AInv, TInv, ChainFormed
  <2>2. \A p \in E : p[1] \in 1 .. v
    BY <2>1, ChainFinite
  <2> QED  BY <2>1, <2>2
<1>5. \A p : ActionRow(p).height = p[1]
  BY DEF ActionRow
<1> HIDE DEF E, R
<1>6. \A x \in R : x.height \in Nat
  BY <1>2, <1>4, <1>5
<1>7. \A x, y \in R : x.height = y.height => x = y
  BY <1>2, <1>3, <1>5
<1> QED  BY <1>1, <1>2, <1>6, <1>7 DEF R, E

(* All the pages a client has got, the last among them.                    *)
LastTurn(a) == Len(walk) + 1
TurnView(a, i) == RowsView(a, IF i = LastTurn(a) THEN seen[a] ELSE walk[i].seen)
TurnRows(a, i) == IF i = LastTurn(a) THEN Got(a).rows ELSE walk[i].rows
TurnSkip(a, i) == IF i = LastTurn(a) THEN Page(a).skip ELSE walk[i].page.skip

LEMMA TurnFacts ==
  ASSUME AInv, RInv, NEW a \in Answered, walk # <<>>
  PROVE  /\ a.of = "action" /\ a.field \in {"byType", "byAddress"}
         /\ LastTurn(a) \in Nat \ {0} /\ Page(a).first \in Int
         /\ \A i \in 1 .. LastTurn(a) :
              /\ TurnView(a, i) \in 0 .. height /\ TurnSkip(a, i) \in Int
              /\ TurnRows(a, i) \in Limit(ListOf(a, T(TurnView(a, i))), TurnSkip(a, i), Page(a).first)
         /\ TurnSkip(a, 1) = 0
         /\ \A i \in 1 .. LastTurn(a) - 1 : TurnSkip(a, i + 1) = TurnSkip(a, i) + Page(a).first
<1> DEFINE n == Len(walk)
<1>1. /\ a \in Asks(request) /\ Told(a)
      /\ ListFields(a) \/ IsHolders(a) => Page(a).skip \in Int /\ Page(a).first \in Int
  BY AnsweredFacts
<1>2. Walks(a)
  <2>1. PICK b \in Asks(request) : Walks(b)
    BY DEF RInv, WalkFits
  <2>2. a = b
    BY <1>1, <2>1 DEF Walks
  <2> QED  BY <2>1, <2>2
<1>3. a.of = "action" /\ a.field \in {"byType", "byAddress"} /\ PagesTurned(a, walk)
  BY <1>2 DEF Walks
<1>4. ListFields(a)
  BY <1>3 DEF ListFields, ActionFields
<1>5. n \in Nat \ {0} /\ LastTurn(a) = n + 1
  BY <1>3 DEF PagesTurned, LastTurn
<1> HIDE DEF n
<1>6. ASSUME NEW i \in 1 .. n
      PROVE  /\ i # LastTurn(a) /\ TurnView(a, i) = RowsView(a, walk[i].seen)
             /\ TurnRows(a, i) = walk[i].rows /\ TurnSkip(a, i) = walk[i].page.skip
             /\ Turned(a, walk[i])
  <2>1. i # LastTurn(a)
    BY <1>5
  <2>2. Turned(a, walk[i])
    BY <1>3 DEF PagesTurned, n
  <2> QED  BY <2>1, <2>2 DEF TurnView, TurnRows, TurnSkip
<1>7. /\ TurnView(a, n + 1) \in 0 .. height /\ TurnSkip(a, n + 1) = Page(a).skip
      /\ TurnRows(a, n + 1) \in Limit(ListOf(a, T(TurnView(a, n + 1))), TurnSkip(a, n + 1), Page(a).first)
  <2>1. ListTold(a, seen[a], Got(a))
    BY <1>1, <1>4 DEF Told
  <2>2. /\ RowsView(a, seen[a]) \in 0 .. height
        /\ Got(a).rows \in Limit(ListOf(a, T(RowsView(a, seen[a]))), Page(a).skip, Page(a).first)
    <3>1. CASE a.field = "byType"
      BY <2>1, <3>1 DEF ListTold, ListFirst, RowsView, Pages
    <3>2. CASE a.field = "byAddress"
      BY <2>1, <3>2 DEF ListTold, ListFirst, RowsView, Pages
    <3> QED  BY <1>3, <3>1, <3>2
  <2>3. /\ TurnView(a, n + 1) = RowsView(a, seen[a]) /\ TurnRows(a, n + 1) = Got(a).rows
        /\ TurnSkip(a, n + 1) = Page(a).skip
    BY <1>5 DEF TurnView, TurnRows, TurnSkip
  <2> QED  BY <2>2, <2>3
<1>8. Page(a).skip \in Int /\ Page(a).first \in Int
  BY <1>1, <1>4
<1>9. ASSUME NEW i \in 1 .. n + 1
      PROVE  /\ TurnView(a, i) \in 0 .. height /\ TurnSkip(a, i) \in Int
             /\ TurnRows(a, i) \in Limit(ListOf(a, T(TurnView(a, i))), TurnSkip(a, i), Page(a).first)
  <2>1. CASE i = n + 1
    BY <1>7, <1>8, <2>1
  <2>2. CASE i # n + 1
    <3>1. i \in 1 .. n
      BY <1>5, <2>2
    <3>2. /\ walk[i].page.skip \in Int /\ RowsView(a, walk[i].seen) \in 0 .. height
          /\ walk[i].rows \in Limit(ListOf(a, T(RowsView(a, walk[i].seen))), walk[i].page.skip, Page(a).first)
      BY <1>6, <3>1 DEF Turned
    <3> QED  BY <1>6, <3>1, <3>2
  <2> QED  BY <2>1, <2>2
<1>10. TurnSkip(a, 1) = 0
  <2>1. walk[1].page.skip = 0 /\ 1 \in 1 .. n
    BY <1>3, <1>5 DEF PagesTurned
  <2> QED  BY <1>6, <2>1
<1>11. ASSUME NEW i \in 1 .. n  PROVE TurnSkip(a, i + 1) = TurnSkip(a, i) + Page(a).first
  <2>1. CASE i = n
    <3>1. Page(a).skip = walk[n].page.skip + Page(a).first
      BY <1>3 DEF PagesTurned, n
    <3> QED  BY <1>6, <1>7, <2>1, <3>1
  <2>2. CASE i # n
    <3>1. i \in 1 .. n - 1 /\ i + 1 \in 1 .. n
      BY <1>5, <2>2
    <3>2. walk[i + 1].page.skip = walk[i].page.skip + Page(a).first
      BY <1>3, <3>1 DEF PagesTurned, n
    <3> QED  BY <1>6, <3>1, <3>2
  <2> QED  BY <2>1, <2>2
<1>12. 1 .. LastTurn(a) - 1 = 1 .. n /\ LastTurn(a) \in Nat \ {0}
  BY <1>5
<1> QED  BY <1>3, <1>5, <1>8, <1>9, <1>10, <1>11, <1>12

LEMMA PagesHold == AInv /\ RInv => PagesLeaveNoGap
<1> SUFFICES ASSUME AInv, RInv, NEW a \in Answered, walk # <<>>,
                    \A i \in 1 .. LastTurn(a) - 1 : TurnView(a, i) <= TurnView(a, i + 1),
                    \A p, q \in Expected(a, TurnView(a, LastTurn(a))) : p[1] = q[1] => p = q,
                    NEW p \in Expected(a, TurnView(a, 1)),
                    NEW x \in TurnRows(a, LastTurn(a)), x.height <= p[1]
             PROVE  p \in {y.hash : y \in UNION {TurnRows(a, i) : i \in 1 .. LastTurn(a)}}
  BY DEF PagesLeaveNoGap, LastTurn, TurnView, TurnRows
<1>1. PICK n : n = LastTurn(a)
  OBVIOUS
<1>2. PICK F : F = Page(a).first
  OBVIOUS
<1>3. /\ a.of = "action" /\ a.field \in {"byType", "byAddress"} /\ n \in Nat \ {0} /\ F \in Int
      /\ \A i \in 1 .. n :
           /\ TurnView(a, i) \in 0 .. height /\ TurnSkip(a, i) \in Int
           /\ TurnRows(a, i) \in Limit(ListOf(a, T(TurnView(a, i))), TurnSkip(a, i), F)
      /\ TurnSkip(a, 1) = 0
      /\ \A i \in 1 .. n - 1 : TurnSkip(a, i + 1) = TurnSkip(a, i) + F
  BY <1>1, <1>2, TurnFacts
<1> DEFINE R(i) == ListOf(a, T(TurnView(a, i)))
           X == ActionRow(p)
           at == [i \in 1 .. n |-> TurnView(a, i)]
           skip == [i \in 1 .. n |-> TurnSkip(a, i)]
           rank == [i \in 1 .. n |-> Cardinality(Before(R(i), X))]
<1>4. height \in Nat /\ ChainFormed
  BY DEF AInv, TInv, ChainFormed
<1>5. ASSUME NEW i \in 1 .. n, NEW j \in 1 .. n, i <= j  PROVE TurnView(a, i) <= TurnView(a, j)
  <2>1. \A k \in 1 .. n : at[k] = TurnView(a, k) /\ at[k] \in Nat
    BY <1>3, <1>4
  <2>2. \A k \in 1 .. n - 1 : at[k] <= at[k + 1]
    BY <1>1, <1>3, <2>1
  <2> HIDE DEF at
  <2>3. at[i] <= at[j]
    BY <1>3, <1>5, <2>1, <2>2, Ordered
  <2> QED  BY <2>1, <2>3
<1>6. ASSUME NEW i \in 1 .. n
      PROVE  /\ R(i) = {ActionRow(q) : q \in Expected(a, TurnView(a, i))} /\ IsFiniteSet(R(i))
             /\ \A y \in R(i) : y.height \in Nat
             /\ \A y, z \in R(i) : y.height = z.height => y = z
  <2>1. n \in 1 .. n /\ i <= n
    BY <1>3
  <2>2. TurnView(a, i) <= TurnView(a, n) /\ TurnView(a, i) \in 0 .. height /\ TurnView(a, n) \in 0 .. height
    BY <1>3, <1>5, <2>1
  <2>3. PICK v, w : v = TurnView(a, i) /\ w = TurnView(a, n)
    OBVIOUS
  <2>4. v \in 0 .. height /\ w \in 0 .. height /\ v <= w
        /\ \A q, r \in Expected(a, w) : q[1] = r[1] => q = r
    BY <1>1, <2>2, <2>3
  <2>5. LET S == ListOf(a, T(v))
        IN  /\ S = {ActionRow(q) : q \in Expected(a, v)} /\ IsFiniteSet(S)
            /\ \A y \in S : y.height \in Nat
            /\ \A y, z \in S : y.height = z.height => y = z
    BY <1>3, <2>4, ListByHeight
  <2> QED  BY <2>3, <2>5
<1>7. ASSUME NEW i \in 1 .. n, NEW j \in 1 .. n, i <= j
      PROVE  Expected(a, TurnView(a, i)) \subseteq Expected(a, TurnView(a, j))
  <2>1. TurnView(a, i) \in Nat /\ TurnView(a, j) \in Nat /\ TurnView(a, i) <= TurnView(a, j)
    BY <1>3, <1>4, <1>5, <1>7
  <2> QED  BY <1>3, <2>1, ExpectedGrows
<1>8. ASSUME NEW i \in 1 .. n  PROVE X \in R(i)
  <2>1. 1 \in 1 .. n /\ 1 <= i
    BY <1>3
  <2>2. p \in Expected(a, TurnView(a, i))
    BY <1>7, <2>1
  <2> QED  BY <1>6, <2>2
<1>9. X.hash = p /\ X.height = p[1]
  <2>1. X.hash = <<p[1], p[2]>> /\ X.height = p[1]
    BY DEF ActionRow
  <2>2. p \in ChainActions(TurnView(a, 1)) /\ TurnView(a, 1) \in 0 .. height
    <3>1. 1 \in 1 .. n
      BY <1>3
    <3> QED  BY <1>3, <3>1 DEF Expected
  <2>3. p = <<p[1], p[2]>>
    BY <1>4, <2>2, ChainFinite
  <2> QED  BY <2>1, <2>3
<1>10. ASSUME NEW i \in 1 .. n
       PROVE  /\ Cardinality(Before(R(i), X)) \in Nat
              /\ X \in TurnRows(a, i) <=>
                   TurnSkip(a, i) <= Cardinality(Before(R(i), X)) /\ Cardinality(Before(R(i), X)) < TurnSkip(a, i) + F
  <2>1. X \in R(i)
    BY <1>8
  <2>2. TurnSkip(a, i) \in Int /\ TurnRows(a, i) \in Limit(R(i), TurnSkip(a, i), F)
    BY <1>3
  <2>3. /\ IsFiniteSet(R(i)) /\ \A y \in R(i) : y.height \in Nat
        /\ \A y, z \in R(i) : y.height = z.height => y = z
    BY <1>6
  <2> HIDE DEF R, X
  <2> QED  BY <1>3, <2>1, <2>2, <2>3, PageByRank
<1>11. ASSUME NEW i \in 1 .. n - 1  PROVE Cardinality(Before(R(i), X)) <= Cardinality(Before(R(i + 1), X))
  <2>1. i \in 1 .. n /\ i + 1 \in 1 .. n /\ i <= i + 1
    BY <1>3
  <2>2. R(i) \subseteq R(i + 1) /\ IsFiniteSet(R(i + 1))
    <3>1. Expected(a, TurnView(a, i)) \subseteq Expected(a, TurnView(a, i + 1))
      BY <1>7, <2>1
    <3>2. /\ R(i) = {ActionRow(q) : q \in Expected(a, TurnView(a, i))}
          /\ R(i + 1) = {ActionRow(q) : q \in Expected(a, TurnView(a, i + 1))}
          /\ IsFiniteSet(R(i + 1))
      BY <1>6, <2>1
    <3> HIDE DEF R
    <3> QED  BY <3>1, <3>2
  <2> HIDE DEF R, X
  <2> QED  BY <2>2, RankGrows
<1>12. Cardinality(Before(R(n), X)) < TurnSkip(a, n) + F
  <2>1. n \in 1 .. n
    BY <1>3
  <2>2. /\ IsFiniteSet(R(n)) /\ \A y \in R(n) : y.height \in Nat
        /\ \A y, z \in R(n) : y.height = z.height => y = z
    BY <1>6, <2>1
  <2>3. x \in TurnRows(a, n) /\ TurnSkip(a, n) \in Int /\ TurnRows(a, n) \in Limit(R(n), TurnSkip(a, n), F)
    BY <1>1, <1>3, <2>1
  <2>4. X \in R(n) /\ x.height <= X.height
    BY <1>8, <1>9, <2>1
  <2> HIDE DEF R, X
  <2>5. x \in R(n)
    <3>1. TurnRows(a, n) \subseteq R(n)
      BY <1>3, <2>2, <2>3, PageSize
    <3> QED  BY <2>3, <3>1
  <2>6. Cardinality(Before(R(n), x)) \in Nat /\ Cardinality(Before(R(n), x)) < TurnSkip(a, n) + F
    BY <1>3, <2>2, <2>3, <2>5, PageByRank
  <2>7. Cardinality(Before(R(n), X)) <= Cardinality(Before(R(n), x))
    BY <2>2, <2>4, <2>5, RankOfLater
  <2>8. Cardinality(Before(R(n), X)) \in Nat
    BY <1>10, <2>1
  <2> QED  BY <1>3, <2>3, <2>6, <2>7, <2>8
<1>13. PICK i \in 1 .. n : X \in TurnRows(a, i)
  <2>1. \A j \in 1 .. n : skip[j] = TurnSkip(a, j) /\ rank[j] = Cardinality(Before(R(j), X))
    OBVIOUS
  <2>2. 1 \in 1 .. n /\ n \in 1 .. n /\ \A j \in 1 .. n - 1 : j \in 1 .. n /\ j + 1 \in 1 .. n
    BY <1>3
  <2> HIDE DEF skip, rank, R, X
  <2>3. \A j \in 1 .. n : skip[j] \in Int /\ rank[j] \in Nat
    BY <1>3, <1>10, <2>1
  <2>4. \A j \in 1 .. n - 1 : skip[j + 1] = skip[j] + F /\ rank[j] <= rank[j + 1]
    BY <1>3, <1>11, <2>1, <2>2
  <2>5. skip[1] = 0 /\ rank[n] < skip[n] + F
    BY <1>3, <1>12, <2>1, <2>2
  <2>6. PICK i \in 1 .. n : skip[i] <= rank[i] /\ rank[i] < skip[i] + F
    BY <1>3, <2>3, <2>4, <2>5, OnSomePage
  <2> QED  BY <1>10, <2>1, <2>6
<1> QED  BY <1>1, <1>9, <1>13

-------------------------------------------------------------------------------
(* What the resolvers find is what the document means.                     *)
LEMMA HeededIs ==
  ASSUME NEW args, NEW sel
  PROVE  Heeded(args, sel) <=> ReadFrom(request.variables, args, sel)
BY DEF Heeded, ReadFrom, Lost

LEMMA ArgumentsRead == RInv => ArgumentsHeeded
<1> SUFFICES ASSUME RInv, request # None, NEW a \in Asks(request), a.of # "chain",
                    NEW root, root = request.roots[a.root],
                    NEW i \in Once(root.sub, a.field), NEW field, field = root.sub[i]
             PROVE  /\ Heeded(a.args, field)
                    /\ a.of # "xrc20" \/ a.field = "tokenHolderAddresses" =>
                         \A j \in DOMAIN field.sub :
                           j \in Once(field.sub, field.sub[j].name) => Heeded(a.args, field.sub[j])
  BY DEF ArgumentsHeeded
<1>1. request \in Forms /\ AcceptedDocument(request)
  BY DEF RInv, RequestFits
<1>2. /\ a.root \in DOMAIN request.roots /\ a.of = root.name
      /\ a.field \in Names(request, a.root) /\ a.of \in Inner \cup Direct
  BY <1>1, AskFacts DEF Known
<1>3. i \in DOMAIN root.sub /\ root.sub[i].name = a.field
  BY DEF Once, Named
<1>4. a.of \notin Direct
  <2>1. SUFFICES ASSUME a.of \in Direct  PROVE FALSE
    OBVIOUS
  <2>2. a.field = a.of
    BY <1>2, <2>1 DEF Names
  <2>3. Fits(TypeOf(root), root.sub[i])
    BY <1>1, <1>2, <1>3, FieldsFit
  <2>4. a.of \in DOMAIN FieldsOf[FieldsOf["Query"][a.of].type]
    BY <1>2, <1>3, <2>2, <2>3 DEF Fits, TypeOf
  <2> QED  BY <2>1, <2>4, NoneOfItsName
<1> DEFINE vs == request.variables
           read == parseFieldArguments(vs, root, a.field)
<1>5. /\ root.name \in Inner \ {"chain"} /\ a.field \in NamesOf(root.name)
      /\ a.args = Joined(read, MeantArgs(vs, root))
  BY <1>1, <1>2, <1>4, FieldAsked
<1>6. /\ ReadFrom(vs, read, field)
      /\ root.name # "xrc20" \/ a.field = "tokenHolderAddresses" =>
           \A j \in DOMAIN field.sub :
             j \in Once(field.sub, field.sub[j].name) => ReadFrom(vs, read, field.sub[j])
  BY <1>1, <1>2, <1>5, FieldHeeded
<1> HIDE DEF read
<1>7. \A sel : ReadFrom(vs, read, sel) => Heeded(a.args, sel)
  BY <1>5, HeededJoined, HeededIs
<1> QED  BY <1>2, <1>6, <1>7

-------------------------------------------------------------------------------
(* What a client gets.                                                     *)

(* A root that nothing was wrong with has every field it was asked for.    *)
THEOREM FieldsAlwaysWritten == Spec => []FieldsWritten
BY RequestsInvariant, FieldsHold, PTL

(* An answer from one block tells of just the chain up to there.           *)
THEOREM AnswersAlwaysTell == Spec => []AnswersTellOfTheChain
BY RequestsInvariant, AnswersHold, PTL

(* A count that follows its list covers the page.                          *)
THEOREM CountAlwaysCoversPage == Spec => []CountCoversPage
BY RequestsInvariant, CountHolds, PTL

(* A client that turns pages while blocks come in misses no row.           *)
THEOREM PagesNeverLeaveGap == Spec => []PagesLeaveNoGap
BY RequestsInvariant, PagesHold, PTL

(* Arguments mean to the resolvers what they mean in the document.         *)
THEOREM ArgumentsAlwaysHeeded == Spec => []ArgumentsHeeded
BY RequestsInvariant, ArgumentsRead, PTL

===============================================================================
