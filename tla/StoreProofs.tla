------------------------------ MODULE StoreProofs ------------------------------
(***************************************************************************)
(* Proofs about Store, for any connections and readers, any number of lost *)
(* connections, and every geometry of epochs with a safe fork.             *)
(***************************************************************************)
EXTENDS Store, ArithmeticProofs, FiniteSetTheorems

-------------------------------------------------------------------------------
(* The invariant.                                                          *)

(* A query of the handlers has an open transaction around it and something *)
(* to ask for; it is over when there is an error; and a block that is      *)
(* being indexed is one of the chain.                                      *)
HandlersInTransaction ==
  /\ tx = None => inner = None /\ got = <<>>
  /\ phase = "down" => tx = None
  /\ got = Error => inner = None
  /\ inner # None => Pending # {}
  /\ phase = "index" /\ tx # None => height < MaxHeight

(* A read view is of a committed block, whoever reads has one, and so were *)
(* the answers the handlers got; the productivity they found is of blocks  *)
(* of the epoch that closes.                                               *)
ViewsCommitted ==
  /\ \A c \in Conns : view[c] # None => view[c] <= height
  /\ inner \in Conns => view[inner] # None
  /\ got # Error =>
       \A q \in DOMAIN got :
         /\ got[q] <= height
         /\ q = "productivity" => GetEpochHeight(Closing) <= got[q]

IInv ==
  /\ TypeOK
  /\ NothingLeaks
  /\ HandlersInTransaction
  /\ ViewsCommitted
  /\ ClosedEpochsCounted

-------------------------------------------------------------------------------
(* Epochs.                                                                 *)

LEMMA EpochOfHeight ==
  ASSUME NEW h \in Nat
  PROVE  /\ GetEpochNumber(h) \in Nat
         /\ h # 0 => GetEpochNumber(h) \in Nat \ {0}
<1>1. CASE h = 0
  BY <1>1 DEF GetEpochNumber
<1>2. CASE h # 0
  BY <1>2, HeightInEpoch, StoreAssumption
<1> QED  BY <1>1, <1>2

(* The epochs that are closed are the ones a report is kept for.           *)
LEMMA ClosedInEpochs ==
  ASSUME NEW h \in Heights
  PROVE  1 .. GetEpochNumber(h) - 1 \subseteq Epochs
<1>1. h \in Nat /\ MaxHeight \in Nat /\ h <= MaxHeight
  BY StoreAssumption DEF Heights
<1>2. CASE h = 0
  <2>1. GetEpochNumber(h) = 0
    BY <1>2 DEF GetEpochNumber
  <2> QED  BY <2>1
<1>3. CASE h # 0
  <2>1. GetEpochNumber(h) <= GetEpochNumber(MaxHeight)
    BY <1>1, <1>3, EpochMonotone, StoreAssumption
  <2> QED  BY <1>1, <2>1, EpochOfHeight DEF Epochs
<1> QED  BY <1>2, <1>3

(* The blocks of an epoch up to a height, and how many they are.           *)
UpTo(k, e) == {b \in 1 .. k : GetEpochNumber(b) = e}

LEMMA CountOfBlocks ==
  ASSUME NEW h \in Nat, NEW g \in Nat, h <= g, NEW e \in Nat
  PROVE  /\ Cardinality(UpTo(h, e)) \in 0 .. Cardinality(UpTo(g, e))
         /\ Cardinality(UpTo(g, e)) \in 0 .. g
         /\ UpTo(h, e) # {} => Cardinality(UpTo(h, e)) # 0
<1>1. IsFiniteSet(1 .. g) /\ Cardinality(1 .. g) = g
  BY FS_Interval
<1>2. UpTo(h, e) \in SUBSET UpTo(g, e) /\ UpTo(g, e) \in SUBSET (1 .. g)
  BY DEF UpTo
<1>3. IsFiniteSet(UpTo(g, e)) /\ Cardinality(UpTo(g, e)) <= g
  BY <1>1, <1>2, FS_Subset
<1>4. IsFiniteSet(UpTo(h, e)) /\ Cardinality(UpTo(h, e)) <= Cardinality(UpTo(g, e))
  BY <1>2, <1>3, FS_Subset
<1>5. Cardinality(UpTo(h, e)) \in Nat /\ Cardinality(UpTo(g, e)) \in Nat
  BY <1>3, <1>4, FS_CardinalityType
<1>6. UpTo(h, e) # {} => Cardinality(UpTo(h, e)) # 0
  BY <1>4, FS_EmptySet
<1> QED  BY <1>3, <1>4, <1>5, <1>6

-------------------------------------------------------------------------------
(* The initial states.                                                     *)
LEMMA InitInv == Init => IInv
<1> SUFFICES ASSUME Init PROVE IInv
  OBVIOUS
<1> USE StoreAssumption DEF Init
<1>1. GetEpochNumber(0) = 0
  BY DEF GetEpochNumber
<1>2. TypeOK
  <2>1. 0 \in Heights /\ 0 \in 0 .. MaxFaults
    BY DEF Heights
  <2> QED  BY <2>1 DEF TypeOK
<1>3. NothingLeaks
  BY DEF NothingLeaks
<1>4. HandlersInTransaction /\ ViewsCommitted
  BY DEF HandlersInTransaction, ViewsCommitted
<1>5. ClosedEpochsCounted
  BY <1>1 DEF ClosedEpochsCounted, Closed
<1> QED  BY <1>2, <1>3, <1>4, <1>5 DEF IInv

-------------------------------------------------------------------------------
(* The steps of requests and of connections that leave the indexer alone.  *)

PoolTypes ==
  /\ reader \in [Readers -> Conns \cup {"idle", "waiting"}]
  /\ pool \in [Conns -> {"closed", "free", "busy", "lost"}]
  /\ view \in [Conns -> Heights \cup {None}]

ViewsInPool ==
  /\ \A c \in Conns : view[c] # None => view[c] <= height
  /\ inner \in Conns => view[inner] # None

LEMMA PoolStep ==
  ASSUME IInv, UNCHANGED <<tables, faults, indexer>>,
         PoolTypes', NothingLeaks', ViewsInPool'
  PROVE  IInv'
<1> USE DEF tables, indexer
<1>1. Queries' = Queries /\ Closing' = Closing
  BY DEF Queries, Closing
<1>2. TypeOK'
  BY <1>1 DEF IInv, TypeOK, PoolTypes
<1>3. HandlersInTransaction'
  BY <1>1 DEF IInv, HandlersInTransaction, Pending
<1>4. ViewsCommitted'
  BY <1>1 DEF IInv, ViewsCommitted, ViewsInPool
<1>5. ClosedEpochsCounted'
  BY DEF IInv, ClosedEpochsCounted, Closed, BlocksOf
<1> QED  BY <1>2, <1>3, <1>4, <1>5 DEF IInv

(* A connection somebody can have is nobody's.                             *)
LEMMA AvailableUnused ==
  ASSUME IInv, NEW c \in Conns, pool[c] # "busy"
  PROVE  c # tx /\ c # inner /\ \A r \in Readers : reader[r] # c
BY DEF IInv, NothingLeaks

LEMMA HeightVisible == IInv => height \in Heights /\ height \in Nat /\ height # None
BY StoreAssumption DEF IInv, TypeOK, Heights

(* Whose connection is given back or lost has it no longer, and it is      *)
(* nobody else's.                                                          *)
LEMMA OneUser ==
  ASSUME IInv, NEW c \in Conns
  PROVE  /\ c = tx => c # inner /\ \A r \in Readers : reader[r] # c
         /\ c = inner => c # tx /\ \A r \in Readers : reader[r] # c
         /\ \A r \in Readers : reader[r] = c =>
              c # tx /\ c # inner /\ \A s \in Readers : reader[s] = c => s = r
BY StoreAssumption DEF IInv, NothingLeaks

LEMMA AskInv ==
  ASSUME IInv, NEW r \in Readers, Ask(r)
  PROVE  IInv'
<1> USE StoreAssumption DEF Ask, indexer
<1>1. PoolTypes'
  BY DEF IInv, TypeOK, PoolTypes
<1>2. NothingLeaks'
  BY DEF IInv, TypeOK, NothingLeaks
<1>3. ViewsInPool'
  BY DEF IInv, ViewsCommitted, ViewsInPool, tables
<1> QED  BY <1>1, <1>2, <1>3, PoolStep

LEMMA ReadInv ==
  ASSUME IInv, NEW r \in Readers, Read(r)
  PROVE  IInv'
<1> USE StoreAssumption DEF indexer
<1>1. PICK c \in Conns : Query(c) /\ reader' = [reader EXCEPT ![r] = c]
  BY DEF Read
<1>2. /\ pool[c] # "busy" /\ pool' = [pool EXCEPT ![c] = "busy"]
      /\ view' = [view EXCEPT ![c] = IF @ = None THEN height ELSE @]
      /\ UNCHANGED <<tables, faults, indexer>>
  BY <1>1 DEF Query, Available, Read
<1>3. PoolTypes'
  BY <1>1, <1>2, HeightVisible DEF IInv, TypeOK, PoolTypes
<1>4. c # tx /\ c # inner /\ \A s \in Readers : reader[s] # c
  BY <1>2, AvailableUnused
<1>5. NothingLeaks'
  BY <1>1, <1>2, <1>4 DEF IInv, TypeOK, NothingLeaks, Read
<1>6. ViewsInPool'
  BY <1>2, <1>4, HeightVisible DEF IInv, TypeOK, ViewsCommitted, ViewsInPool, tables
<1> QED  BY <1>2, <1>3, <1>5, <1>6, PoolStep

LEMMA AnswerInv ==
  ASSUME IInv, NEW r \in Readers, Answer(r)
  PROVE  IInv'
<1> USE StoreAssumption DEF indexer
<1> DEFINE c == reader[r]
<1>1. /\ c \in Conns /\ reader' = [reader EXCEPT ![r] = "idle"]
      /\ \E left \in {"free", "lost"} : pool' = [pool EXCEPT ![c] = left]
      /\ UNCHANGED <<tables, faults, indexer, view>>
  BY DEF Answer, ParseSQLRows, CloseRows, FailedScan
<1>2. PoolTypes'
  BY <1>1 DEF IInv, TypeOK, PoolTypes
<1>3. c # tx /\ c # inner /\ \A s \in Readers : reader[s] = c => s = r
  BY <1>1, OneUser
<1>4. NothingLeaks'
  BY <1>1, <1>3 DEF IInv, TypeOK, NothingLeaks
<1>5. ViewsInPool'
  BY <1>1 DEF IInv, ViewsCommitted, ViewsInPool, tables
<1> QED  BY <1>1, <1>2, <1>4, <1>5, PoolStep

LEMMA ExpireInv ==
  ASSUME IInv, NEW c \in Conns, Expire(c)
  PROVE  IInv'
<1> USE StoreAssumption DEF Expire, indexer
<1>1. PoolTypes'
  BY DEF IInv, TypeOK, PoolTypes
<1>2. c # tx /\ c # inner /\ \A r \in Readers : reader[r] # c
  BY AvailableUnused
<1>3. NothingLeaks'
  BY <1>2 DEF IInv, TypeOK, NothingLeaks
<1>4. ViewsInPool'
  BY <1>2 DEF IInv, TypeOK, ViewsCommitted, ViewsInPool, tables
<1> QED  BY <1>1, <1>3, <1>4, PoolStep

-------------------------------------------------------------------------------
(* The steps of the indexer that commit nothing.                           *)

LEMMA StartInv == IInv /\ Start => IInv'
<1> SUFFICES ASSUME IInv, Start PROVE IInv'
  OBVIOUS
<1> USE StoreAssumption DEF Start, tables
<1>1. tx = None /\ inner = None /\ got = <<>>
  BY DEF IInv, HandlersInTransaction
<1>2. TypeOK'
  BY <1>1 DEF IInv, TypeOK
<1>3. NothingLeaks'
  BY DEF IInv, NothingLeaks
<1>4. HandlersInTransaction'
  BY <1>1 DEF HandlersInTransaction
<1>5. ViewsCommitted'
  BY <1>1 DEF IInv, ViewsCommitted
<1>6. ClosedEpochsCounted'
  BY DEF IInv, ClosedEpochsCounted, Closed, BlocksOf
<1> QED  BY <1>2, <1>3, <1>4, <1>5, <1>6 DEF IInv

LEMMA RestartInv == IInv /\ Restart => IInv'
<1> SUFFICES ASSUME IInv, Restart PROVE IInv'
  OBVIOUS
<1> USE StoreAssumption DEF Restart, tables
<1>1. TypeOK'
  BY DEF IInv, TypeOK
<1>2. NothingLeaks'
  BY DEF NothingLeaks
<1>3. HandlersInTransaction' /\ ViewsCommitted'
  BY DEF HandlersInTransaction, ViewsCommitted
<1>4. ClosedEpochsCounted'
  BY DEF IInv, ClosedEpochsCounted, Closed, BlocksOf
<1> QED  BY <1>1, <1>2, <1>3, <1>4 DEF IInv

LEMMA TransactInv == IInv /\ Transact => IInv'
<1> SUFFICES ASSUME IInv, Transact PROVE IInv'
  OBVIOUS
<1> USE StoreAssumption DEF tables
<1>1. PICK c \in Conns : Begin(c) /\ tx' = c
  BY DEF Transact
<1>2. /\ pool[c] # "busy" /\ pool' = [pool EXCEPT ![c] = "busy"]
      /\ view' = [view EXCEPT ![c] = None]
      /\ tx = None /\ tx' = c
      /\ UNCHANGED <<tables, faults, phase, inner, got, reader>>
      /\ phase # "down" /\ (phase = "index" => height < MaxHeight)
  BY <1>1 DEF Begin, Available, Transact
<1>3. inner = None /\ got = <<>>
  BY <1>2 DEF IInv, HandlersInTransaction
<1>4. \A r \in Readers : reader[r] # c
  BY <1>2, AvailableUnused
<1>5. TypeOK'
  BY <1>2, <1>3 DEF IInv, TypeOK
<1>6. NothingLeaks'
  BY <1>2, <1>3, <1>4 DEF IInv, TypeOK, NothingLeaks
<1>7. HandlersInTransaction'
  BY <1>2, <1>3 DEF HandlersInTransaction
<1>8. ViewsCommitted'
  BY <1>2, <1>3 DEF IInv, TypeOK, ViewsCommitted
<1>9. ClosedEpochsCounted'
  BY <1>2 DEF IInv, ClosedEpochsCounted, Closed, BlocksOf
<1> QED  BY <1>5, <1>6, <1>7, <1>8, <1>9 DEF IInv

LEMMA HandlerAsksInv == IInv /\ HandlerAsks => IInv'
<1> SUFFICES ASSUME IInv, HandlerAsks PROVE IInv'
  OBVIOUS
<1> USE StoreAssumption DEF HandlerAsks, tables
<1>1. Queries' = Queries /\ Closing' = Closing /\ Pending' = Pending
  BY DEF Queries, Closing, Pending
<1>2. TypeOK'
  BY <1>1 DEF IInv, TypeOK
<1>3. NothingLeaks'
  BY DEF IInv, TypeOK, NothingLeaks
<1>4. HandlersInTransaction'
  BY <1>1 DEF IInv, HandlersInTransaction, Pending
<1>5. ViewsCommitted'
  BY <1>1 DEF IInv, ViewsCommitted
<1>6. ClosedEpochsCounted'
  BY DEF IInv, ClosedEpochsCounted, Closed, BlocksOf
<1> QED  BY <1>2, <1>3, <1>4, <1>5, <1>6 DEF IInv

LEMMA HandlerQueriesInv == IInv /\ HandlerQueries => IInv'
<1> SUFFICES ASSUME IInv, HandlerQueries PROVE IInv'
  OBVIOUS
<1> USE StoreAssumption DEF tables
<1>1. PICK c \in Conns : Query(c) /\ inner' = c
  BY DEF HandlerQueries
<1>2. /\ pool[c] # "busy" /\ pool' = [pool EXCEPT ![c] = "busy"]
      /\ view' = [view EXCEPT ![c] = IF @ = None THEN height ELSE @]
      /\ inner = "waiting" /\ inner' = c
      /\ UNCHANGED <<tables, faults, phase, tx, got, reader>>
  BY <1>1 DEF Query, Available, HandlerQueries
<1>3. Queries' = Queries /\ Closing' = Closing /\ Pending' = Pending
  BY <1>2 DEF Queries, Closing, Pending
<1>4. c # tx /\ \A r \in Readers : reader[r] # c
  BY <1>2, AvailableUnused
<1>5. TypeOK'
  BY <1>2, <1>3, HeightVisible DEF IInv, TypeOK
<1>6. NothingLeaks'
  BY <1>2, <1>4 DEF IInv, TypeOK, NothingLeaks
<1>7. HandlersInTransaction'
  BY <1>2, <1>3 DEF IInv, HandlersInTransaction
<1>8. ViewsCommitted'
  BY <1>2, <1>3, HeightVisible DEF IInv, TypeOK, ViewsCommitted
<1>9. ClosedEpochsCounted'
  BY <1>2 DEF IInv, ClosedEpochsCounted, Closed, BlocksOf
<1> QED  BY <1>5, <1>6, <1>7, <1>8, <1>9 DEF IInv

LEMMA NodeFailsInv == IInv /\ NodeFails => IInv'
<1> SUFFICES ASSUME IInv, NodeFails PROVE IInv'
  OBVIOUS
<1> USE StoreAssumption DEF NodeFails, tables
<1>1. TypeOK'
  BY DEF IInv, TypeOK
<1>2. NothingLeaks'
  BY DEF IInv, NothingLeaks
<1>3. HandlersInTransaction'
  BY DEF IInv, HandlersInTransaction
<1>4. ViewsCommitted'
  BY DEF IInv, ViewsCommitted
<1>5. ClosedEpochsCounted'
  BY DEF IInv, ClosedEpochsCounted, Closed, BlocksOf
<1> QED  BY <1>1, <1>2, <1>3, <1>4, <1>5 DEF IInv

LEMMA HandlerGetsInv == IInv /\ HandlerGets => IInv'
<1> SUFFICES ASSUME IInv, HandlerGets PROVE IInv'
  OBVIOUS
<1> USE StoreAssumption DEF tables
<1> DEFINE q == First(Pending)
           h == view[inner]
<1>1. /\ inner \in Conns /\ inner' = None
      /\ \E left \in {"free", "lost"} : pool' = [pool EXCEPT ![inner] = left]
      /\ \/ got' = Error
         \/ got' = [p \in {q} \cup DOMAIN got |-> IF p = q THEN h ELSE got[p]] /\ Found(q, h)
      /\ UNCHANGED <<tables, faults, phase, tx, reader, view>>
  BY DEF HandlerGets, CloseRows, FailedScan
<1>2. tx # None /\ got # Error /\ Pending # {} /\ Pending = Queries \ DOMAIN got
  <2>1. inner # None
    BY <1>1
  <2> QED  BY <2>1 DEF IInv, HandlersInTransaction, Pending
<1>3. q \in Queries /\ (q = "productivity" \/ "productivity" \notin Pending)
  BY <1>2 DEF First
<1>4. h \in Heights /\ h <= height
  BY <1>1 DEF IInv, TypeOK, ViewsCommitted
<1>5. inner # tx /\ \A r \in Readers : reader[r] # inner
  BY <1>1, OneUser
<1>6. Queries' = Queries /\ Closing' = Closing
  BY <1>1 DEF Queries, Closing
<1>7. ASSUME got' # Error
      PROVE  /\ DOMAIN got' = DOMAIN got \cup {q}
             /\ \A p \in DOMAIN got' : got'[p] = IF p = q THEN h ELSE got[p]
  BY <1>1, <1>7
<1>8. TypeOK'
  BY <1>1, <1>2, <1>3, <1>4, <1>6, <1>7 DEF IInv, TypeOK
<1>9. NothingLeaks'
  BY <1>1, <1>2, <1>5 DEF IInv, TypeOK, NothingLeaks
<1>10. HandlersInTransaction'
  BY <1>1, <1>2 DEF IInv, HandlersInTransaction
<1>11. ViewsCommitted'
  <2>1. got' # Error /\ q = "productivity" => GetEpochHeight(Closing) <= h
    BY <1>1 DEF Found
  <2> QED  BY <1>1, <1>2, <1>4, <1>6, <1>7, <2>1 DEF IInv, ViewsCommitted
<1>12. ClosedEpochsCounted'
  BY <1>1 DEF IInv, ClosedEpochsCounted, Closed, BlocksOf
<1> QED  BY <1>8, <1>9, <1>10, <1>11, <1>12 DEF IInv

LEMMA RollbackInv == IInv /\ Rollback => IInv'
<1> SUFFICES ASSUME IInv, Rollback PROVE IInv'
  OBVIOUS
<1> USE StoreAssumption DEF Rollback, EndTx, tables
<1>1. tx \in Conns /\ inner = None
  BY DEF IInv, TypeOK, HandlersInTransaction
<1>2. \A r \in Readers : reader[r] # tx
  BY <1>1, OneUser
<1>3. TypeOK'
  BY <1>1 DEF IInv, TypeOK
<1>4. NothingLeaks'
  BY <1>1, <1>2 DEF IInv, TypeOK, NothingLeaks
<1>5. HandlersInTransaction'
  BY <1>1 DEF HandlersInTransaction
<1>6. ViewsCommitted'
  BY <1>1 DEF IInv, TypeOK, ViewsCommitted
<1>7. ClosedEpochsCounted'
  BY DEF IInv, ClosedEpochsCounted, Closed, BlocksOf
<1> QED  BY <1>3, <1>4, <1>5, <1>6, <1>7 DEF IInv

-------------------------------------------------------------------------------
(* A commit.                                                               *)

(* The first block of an epoch is the only one that closes one.            *)
LEMMA CommittedEpochs ==
  ASSUME height \in Nat, phase = "index"
  PROVE  /\ Closing \in Nat
         /\ Closing = GetEpochNumber(height + 1) - 1
         /\ Queries = {} => GetEpochNumber(height + 1) - 1 \in {0, GetEpochNumber(height) - 1}
         /\ Queries # {} =>
              /\ Closing \in Nat \ {0}
              /\ GetEpochNumber(height) = Closing
              /\ height \in Nat \ {0}
              /\ "productivity" \in Queries
<1> DEFINE e == GetEpochNumber(height + 1)
<1>1. height + 1 \in Nat \ {0} /\ e \in Nat \ {0} /\ GetEpochNumber(height) \in Nat
  BY EpochOfHeight
<1>2. Closing = e - 1 /\ Closing \in Nat
  BY <1>1 DEF Closing
<1>3. CASE height = 0
  <2>1. e = 1
    BY <1>3, FirstEpoch, StoreAssumption
  <2>2. Queries = {}
    BY <2>1 DEF Queries
  <2> QED  BY <1>2, <2>1, <2>2
<1>4. CASE height # 0
  <2>1. \/ e = GetEpochNumber(height) /\ ~ IsEpochStart(height + 1)
        \/ e = GetEpochNumber(height) + 1 /\ IsEpochStart(height + 1)
    BY <1>4, EpochStep, StoreAssumption
  <2>2. Queries = IF IsEpochStart(height + 1) /\ e > 1 THEN {"productivity", "portions"} ELSE {}
    BY DEF Queries
  <2> QED  BY <1>1, <1>2, <1>4, <2>1, <2>2
<1> QED  BY <1>3, <1>4, <1>2

(* The blocks of an epoch that is over are counted as they were.           *)
LEMMA CountsKept ==
  ASSUME IInv, height' = height + 1, NEW e \in Closed
  PROVE  /\ account_reward[e] \in 1 .. Cardinality(UpTo(height + 1, e))
         /\ e \in Nat
<1>1. height \in Nat /\ height + 1 \in Nat /\ height <= height + 1
  BY HeightVisible
<1>2. e \in Nat
  BY <1>1, EpochOfHeight DEF Closed
<1>3. account_reward[e] \in 1 .. Cardinality(UpTo(height, e))
  BY DEF IInv, ClosedEpochsCounted, BlocksOf, UpTo
<1>4. /\ Cardinality(UpTo(height, e)) \in 0 .. Cardinality(UpTo(height + 1, e))
      /\ Cardinality(UpTo(height + 1, e)) \in 0 .. height + 1
  BY <1>1, <1>2, CountOfBlocks
<1> QED  BY <1>2, <1>3, <1>4

LEMMA CommitInv == IInv /\ Commit => IInv'
<1> SUFFICES ASSUME IInv, Commit PROVE IInv'
  OBVIOUS
<1> USE StoreAssumption
<1>1. tx \in Conns /\ inner = None /\ got # Error /\ Pending = {}
  BY DEF Commit, IInv, TypeOK
<1>2. /\ tx' = None /\ got' = <<>> /\ phase' = "index"
      /\ pool' = [pool EXCEPT ![tx] = "free"] /\ view' = [view EXCEPT ![tx] = None]
      /\ UNCHANGED <<faults, inner, reader>>
  BY DEF Commit, EndTx
<1>3. height \in Heights /\ height \in Nat
  BY HeightVisible
<1>4. CASE phase = "initialize"
  <2>1. UNCHANGED tables
    BY <1>4 DEF Commit
  <2>2. TypeOK'
    BY <1>1, <1>2, <2>1 DEF IInv, TypeOK, tables
  <2>3. ClosedEpochsCounted'
    BY <2>1 DEF IInv, ClosedEpochsCounted, Closed, BlocksOf, tables
  <2>4. ViewsCommitted'
    BY <1>1, <1>2, <2>1 DEF IInv, TypeOK, ViewsCommitted, tables
  <2>5. NothingLeaks'
    <3>1. \A r \in Readers : reader[r] # tx
      BY <1>1, OneUser
    <3> QED  BY <1>1, <1>2, <3>1 DEF IInv, TypeOK, NothingLeaks
  <2>6. HandlersInTransaction'
    BY <1>1, <1>2 DEF HandlersInTransaction
  <2> QED  BY <2>2, <2>3, <2>4, <2>5, <2>6 DEF IInv
<1>5. CASE phase # "initialize"
  <2>1. phase = "index" /\ height < MaxHeight
    BY <1>1, <1>5 DEF IInv, TypeOK, HandlersInTransaction
  <2>2. /\ height' = height + 1
        /\ height + 1 \in Heights
        /\ height + 1 \in Nat \ {0}
    BY <1>3, <1>5, <2>1 DEF Commit, Heights
  <2>3. Closing \in Nat /\ Closing = GetEpochNumber(height + 1) - 1
    BY <1>3, <2>1, CommittedEpochs
  <2>4. \A e \in Closed : account_reward[e] \in 1 .. Cardinality(UpTo(height + 1, e))
    BY <2>2, CountsKept
  <2>5. /\ account_reward' \in [Epochs -> Heights]
        /\ \A e \in 1 .. Closing : account_reward'[e] \in 1 .. Cardinality(UpTo(height + 1, e))
    <3>1. CASE Queries = {}
      <4>1. account_reward' = account_reward
        BY <1>5, <3>1 DEF Commit
      <4>2. 1 .. Closing \subseteq Closed
        BY <1>3, <2>1, <2>3, <3>1, CommittedEpochs DEF Closed
      <4> QED  BY <2>4, <4>1, <4>2 DEF IInv, TypeOK
    <3>2. CASE Queries # {}
      <4> DEFINE h == got["productivity"]
      <4>1. account_reward' = [account_reward EXCEPT ![Closing] = Cardinality(BlocksSeen(h))]
        BY <1>5, <3>2 DEF Commit
      <4>2. /\ Closing \in Nat \ {0} /\ GetEpochNumber(height) = Closing
            /\ "productivity" \in Queries
        BY <1>3, <2>1, <3>2, CommittedEpochs
      <4>3. "productivity" \in DOMAIN got
        BY <1>1, <4>2 DEF Pending
      <4>4. h \in Nat /\ h <= height /\ GetEpochHeight(Closing) <= h
        BY <1>1, <4>3 DEF IInv, TypeOK, ViewsCommitted, Heights
      <4>5. GetEpochHeight(Closing) \in Nat \ {0} /\ GetEpochNumber(GetEpochHeight(Closing)) = Closing
        <5>1. Closing + 1 \in Nat \ {0} /\ Closing < Closing + 1
          BY <4>2
        <5>2. GetEpochHeight(Closing) \in Nat \ {0}
          BY <4>2, <5>1, EpochHeightIncreasing
        <5> QED  BY <4>2, <5>2, EpochRoundTrip
      <4>6. BlocksSeen(h) # {}
        BY <4>4, <4>5 DEF BlocksSeen
      <4>7. /\ Cardinality(BlocksSeen(h)) \in 0 .. Cardinality(UpTo(height + 1, Closing))
            /\ Cardinality(UpTo(height + 1, Closing)) \in 0 .. height + 1
            /\ Cardinality(BlocksSeen(h)) # 0
        <5>1. h \in Nat /\ height + 1 \in Nat /\ h <= height + 1
          BY <1>3, <4>4
        <5>2. BlocksSeen(h) = UpTo(h, Closing)
          BY DEF BlocksSeen, UpTo
        <5> QED  BY <5>1, <5>2, <2>3, <4>6, CountOfBlocks
      <4>8. Cardinality(BlocksSeen(h)) \in 1 .. Cardinality(UpTo(height + 1, Closing))
        BY <4>7
      <4>9. Cardinality(BlocksSeen(h)) \in Heights
        BY <1>3, <2>2, <4>7 DEF Heights
      <4>10. account_reward' \in [Epochs -> Heights]
        BY <4>1, <4>9 DEF IInv, TypeOK
      <4>11. Closing \in Epochs
        <5>1. 1 .. GetEpochNumber(height + 1) - 1 \subseteq Epochs
          BY <2>2, ClosedInEpochs
        <5>2. 1 .. Closing \subseteq Epochs
          BY <5>1, <2>3
        <5> QED  BY <5>2, <4>2
      <4>12. ASSUME NEW e \in 1 .. Closing
             PROVE  account_reward'[e] \in 1 .. Cardinality(UpTo(height + 1, e))
        <5>1. CASE e = Closing
          BY <4>1, <4>8, <4>11, <5>1 DEF IInv, TypeOK
        <5>2. CASE e # Closing
          <6>1. e \in Closed
            BY <4>2, <5>2 DEF Closed
          <6> QED  BY <2>4, <4>1, <5>2, <6>1 DEF IInv, TypeOK
        <5> QED  BY <5>1, <5>2
      <4> QED  BY <4>10, <4>12
    <3> QED  BY <3>1, <3>2
  <2>6. TypeOK'
    BY <1>1, <1>2, <2>2, <2>5 DEF IInv, TypeOK
  <2>7. NothingLeaks'
    <3>1. \A r \in Readers : reader[r] # tx
      BY <1>1, OneUser
    <3> QED  BY <1>1, <1>2, <3>1 DEF IInv, TypeOK, NothingLeaks
  <2>8. HandlersInTransaction'
    BY <1>1, <1>2 DEF HandlersInTransaction
  <2>9. ViewsCommitted'
    <3>1. \A c \in Conns : view[c] # None => view[c] \in Nat
      BY DEF IInv, TypeOK, Heights
    <3> QED  BY <1>1, <1>2, <1>3, <2>2, <3>1 DEF IInv, TypeOK, ViewsCommitted
  <2>10. ClosedEpochsCounted'
    BY <2>2, <2>3, <2>5 DEF ClosedEpochsCounted, Closed, BlocksOf, UpTo
  <2> QED  BY <2>6, <2>7, <2>8, <2>9, <2>10 DEF IInv
<1> QED  BY <1>4, <1>5

LEMMA StutterInv == IInv /\ UNCHANGED vars => IInv'
<1> SUFFICES ASSUME IInv, UNCHANGED vars PROVE IInv'
  OBVIOUS
<1> USE DEF vars, indexer
<1>1. PoolTypes' /\ NothingLeaks' /\ ViewsInPool'
  BY DEF IInv, TypeOK, PoolTypes, NothingLeaks, ViewsCommitted, ViewsInPool, tables
<1> QED  BY <1>1, PoolStep

-------------------------------------------------------------------------------
(* The invariant holds in every behaviour.                                 *)
THEOREM StoreInvariant == Spec => []IInv
<1>1. IInv /\ [Next]_vars => IInv'
  BY StartInv, TransactInv, HandlerAsksInv, HandlerQueriesInv, HandlerGetsInv,
     NodeFailsInv, CommitInv, RollbackInv, AskInv, ReadInv, AnswerInv,
     ExpireInv, RestartInv, StutterInv DEF Next
<1> QED  BY InitInv, <1>1, PTL DEF Spec

(* No path through Transact, GetDB and ParseSQLRows forgets a connection,  *)
(* but for rows left open, or gives one to two users.                      *)
THEOREM ConnectionsAreGivenBack == Spec => []NothingLeaks
<1>1. IInv => NothingLeaks
  BY DEF IInv
<1> QED  BY StoreInvariant, <1>1, PTL

(* Rewards of an epoch are split by some of its blocks and no others,      *)
(* however old the read view is that its productivity was read from.       *)
THEOREM ClosedEpochsAreCounted == Spec => []ClosedEpochsCounted
<1>1. IInv => ClosedEpochsCounted
  BY DEF IInv
<1> QED  BY StoreInvariant, <1>1, PTL

-------------------------------------------------------------------------------
(* The last connection.                                                    *)

Hangs == Conns \ Lost = {tx} /\ inner = "waiting" => inner' = "waiting" \/ phase' = "down"

(* The only connection that is not lost is busy with the transaction.      *)
LEMMA NoneAvailable ==
  ASSUME IInv, Conns \ Lost = {tx}, NEW c \in Conns
  PROVE  ~ Available(c)
<1>1. tx \in Conns /\ pool[tx] = "busy"
  BY DEF IInv, NothingLeaks
<1>2. c # tx => pool[c] = "lost"
  BY DEF Lost
<1> QED  BY <1>1, <1>2 DEF Available

LEMMA HangsStep == IInv /\ [Next]_vars => [Hangs]_vars
<1> SUFFICES ASSUME IInv, Next, Conns \ Lost = {tx}, inner = "waiting"
             PROVE  inner' = "waiting" \/ phase' = "down"
  BY DEF Hangs
<1> USE StoreAssumption
<1>1. inner # None /\ inner \notin Conns /\ tx # None /\ phase # "down" /\ got # Error
  BY DEF IInv, HandlersInTransaction
<1>2. ~ HandlerQueries
  BY NoneAvailable DEF HandlerQueries, Query
<1>3. ~ (Start \/ Transact \/ HandlerAsks \/ HandlerGets \/ NodeFails \/ Commit \/ Rollback)
  BY <1>1 DEF Start, Transact, HandlerAsks, HandlerGets, NodeFails, Commit, Rollback
<1>4. ASSUME NEW r \in Readers, Ask(r) \/ Read(r) \/ Answer(r)
      PROVE  inner' = inner
  BY <1>4 DEF Ask, Read, Answer, indexer
<1>5. ASSUME NEW c \in Conns, Expire(c)
      PROVE  inner' = inner
  BY <1>5 DEF Expire, indexer
<1>6. Restart => phase' = "down"
  BY DEF Restart
<1> QED  BY <1>2, <1>3, <1>4, <1>5, <1>6 DEF Next

(* A handler that waits for a connection while its transaction has the     *)
(* last one goes on waiting until the process ends.                        *)
THEOREM TheLastConnectionHangs == Spec => LastConnectionHangs
<1>1. Hangs <=> (Conns \ Lost = {tx} /\ inner = "waiting" => inner' = "waiting" \/ phase' = "down")
  BY DEF Hangs
<1> QED  BY StoreInvariant, HangsStep, <1>1, PTL DEF Spec, LastConnectionHangs

-------------------------------------------------------------------------------
(* Every step is one of Views or leaves its state alone.                   *)

(* What a connection shows: nothing if it is lost or has no read view.     *)
Shows(c) == pool[c] # "lost" /\ view[c] # None

LEMMA VisibleViews == \A h : h \in Visible <=> h = height \/ \E c \in Conns : Shows(c) /\ view[c] = h
BY DEF Visible, Shows

(* A step that commits no block and opens views of the present only.       *)
LEMMA ForgetStep ==
  ASSUME height' = height,
         \A c \in Conns : Shows(c)' => view'[c] = height \/ (Shows(c) /\ view'[c] = view[c])
  PROVE  [V!ViewsNext]_(V!views)
<1>1. \A h : h \in Visible' <=> h = height' \/ \E c \in Conns : Shows(c)' /\ view'[c] = h
  BY DEF Visible, Shows
<1>2. Visible' \subseteq Visible /\ height \in Visible' /\ height \in Visible
  BY <1>1, VisibleViews
<1>3. CASE Visible' = Visible
  BY <1>3 DEF V!views
<1>4. CASE Visible' # Visible
  <2>1. Visible' \in (SUBSET Visible) \ {Visible} /\ Visible # {height}
    BY <1>2, <1>4
  <2> QED  BY <1>2, <2>1 DEF V!ViewsNext, V!Forget
<1> QED  BY <1>3, <1>4

LEMMA CommitStep ==
  ASSUME IInv, Commit
  PROVE  [V!ViewsNext]_(V!views)
<1>1. tx \in Conns /\ view' = [view EXCEPT ![tx] = None] /\ pool' = [pool EXCEPT ![tx] = "free"]
  BY DEF Commit, EndTx, IInv, TypeOK
<1>2. \A c \in Conns : Shows(c)' => Shows(c) /\ view'[c] = view[c]
  BY <1>1 DEF Shows, IInv, TypeOK
<1>3. CASE phase = "initialize"
  BY <1>2, <1>3, ForgetStep DEF Commit, tables
<1>4. CASE phase # "initialize"
  <2>1. phase = "index" /\ height < MaxHeight
    BY <1>1, <1>4, StoreAssumption DEF Commit, IInv, TypeOK, HandlersInTransaction
  <2>2. height' = height + 1
    BY <1>4 DEF Commit
  <2> DEFINE kept == {h \in Visible : h \in Visible'}
  <2>3. \A h : h \in Visible' <=> h = height' \/ \E c \in Conns : Shows(c)' /\ view'[c] = h
    BY DEF Visible, Shows
  <2>4. Visible' = kept \cup {height + 1} /\ kept \in SUBSET Visible
    BY <1>2, <2>2, <2>3, VisibleViews
  <2> QED  BY <2>1, <2>2, <2>4 DEF V!ViewsNext, V!CommitBlock
<1> QED  BY <1>3, <1>4

LEMMA ViewsStep == IInv /\ [Next]_vars => [V!ViewsNext]_(V!views)
<1> SUFFICES ASSUME IInv, [Next]_vars PROVE [V!ViewsNext]_(V!views)
  OBVIOUS
<1> USE DEF IInv, TypeOK, Shows, tables
<1>1. ASSUME height' = height, UNCHANGED view, \A c \in Conns : pool'[c] # "lost" => pool[c] # "lost"
      PROVE  [V!ViewsNext]_(V!views)
  BY <1>1, ForgetStep
<1>2. ASSUME height' = height, NEW c \in Conns, Begin(c) \/ Query(c)
      PROVE  [V!ViewsNext]_(V!views)
  BY <1>2, ForgetStep DEF Begin, Query, Available
<1>3. CASE Start \/ HandlerAsks \/ NodeFails \/ UNCHANGED vars \/ \E r \in Readers : Ask(r)
  BY <1>1, <1>3 DEF Start, HandlerAsks, NodeFails, vars, Ask
<1>4. CASE Transact \/ HandlerQueries \/ \E r \in Readers : Read(r)
  BY <1>2, <1>4 DEF Transact, HandlerQueries, Read
<1>5. CASE HandlerGets \/ \E r \in Readers : Answer(r)
  <2>1. \E c \in Conns : pool[c] = "busy" /\ (CloseRows(c) \/ FailedScan(c))
    BY <1>5 DEF HandlerGets, Answer, ParseSQLRows, NothingLeaks
  <2>2. height' = height /\ UNCHANGED view
    BY <1>5 DEF HandlerGets, Answer
  <2> QED  BY <1>1, <2>1, <2>2 DEF CloseRows, FailedScan
<1>6. CASE Rollback
  <2>1. tx \in Conns
    BY <1>6, StoreAssumption DEF Rollback, HandlersInTransaction
  <2> QED  BY <1>6, <2>1, ForgetStep DEF Rollback, EndTx
<1>7. CASE \E c \in Conns : Expire(c)
  BY <1>7, ForgetStep DEF Expire
<1>8. CASE Restart
  BY <1>8, ForgetStep DEF Restart
<1>9. CASE Commit
  BY <1>9, CommitStep
<1> QED  BY <1>3, <1>4, <1>5, <1>6, <1>7, <1>8, <1>9 DEF Next

(* Whatever happens to the pool, an answer is of a committed block, and a  *)
(* view that was given up does not come back.                              *)
THEOREM RefinesViews == Spec => V!ViewsInit /\ [][V!ViewsNext]_(V!views)
<1>1. Init => V!ViewsInit
  <2> SUFFICES ASSUME Init PROVE V!ViewsInit
    OBVIOUS
  <2>1. Visible = {0}
    BY DEF Init, Visible
  <2> QED  BY <2>1 DEF Init, V!ViewsInit
<1> QED  BY StoreInvariant, ViewsStep, <1>1, PTL DEF Spec

===============================================================================
