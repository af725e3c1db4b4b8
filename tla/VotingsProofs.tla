---------------------------- MODULE VotingsProofs ----------------------------
(***************************************************************************)
(* Proofs about StakingVotes and Votings, whatever the buckets, the        *)
(* candidates and the number of epochs.  First: the archive of versions    *)
(* returns for every epoch what was put for it.  Then, with what the node  *)
(* and the tables are like: the votes of the tables agree, and a new       *)
(* version is listed.  Then the queries of both eras, and the votes of the *)
(* era before Fairbank.                                                    *)
(***************************************************************************)
EXTENDS Votings, ArithmeticProofs, SequenceTheorems, TLAPS

-------------------------------------------------------------------------------
(* The operators of the archive, for rows of any kind.                     *)

IsRows(rows) == rows \in Seq(Range(rows))

LEMMA RowsRange ==
  ASSUME NEW rows, IsRows(rows)
  PROVE  /\ Len(rows) \in Nat
         /\ DOMAIN rows = 1 .. Len(rows)
         /\ Range(rows) = {rows[id] : id \in 1 .. Len(rows)}
<1>1. Len(rows) \in Nat /\ DOMAIN rows = 1 .. Len(rows)
  BY LenProperties DEF IsRows
<1> QED  BY <1>1 DEF Range

(* A finite set is listed without repetition by SetToSeq.                  *)
LEMMA SetToSeqLists ==
  ASSUME NEW S, IsFiniteSet(S)
  PROVE  SetToSeq(S) \in Seq(S) /\ Range(SetToSeq(S)) = S
<1> DEFINE n == Cardinality(S)
           Lists == {f \in [1 .. n -> S] : IsInjective(f)}
<1>1. n \in Nat /\ ExistsBijection(1 .. n, S)
  BY FS_CardinalityType
<1>2. PICK g \in Bijection(1 .. n, S) : TRUE
  BY <1>1 DEF ExistsBijection
<1>3. g \in [1 .. n -> S] /\ IsInjective(g)
  BY <1>2 DEF Bijection, Injection, IsInjective
<1>4. SetToSeq(S) \in [1 .. n -> S] /\ IsInjective(SetToSeq(S))
  BY <1>3 DEF SetToSeq
<1>5. SetToSeq(S) \in Injection(1 .. n, S)
  BY <1>4 DEF Injection, IsInjective
<1>6. SetToSeq(S) \in Surjection(1 .. n, S)
  <2>1. IsFiniteSet(1 .. n) /\ Cardinality(1 .. n) = n
    BY <1>1, FS_Interval
  <2> QED  BY <2>1, <1>5, FS_Injection
<1>7. Range(SetToSeq(S)) = S
  BY <1>6 DEF Surjection, Range
<1>8. SetToSeq(S) \in Seq(S)
  BY <1>1, <1>4, SeqDef
<1> QED  BY <1>7, <1>8

(* Putting a set of versions appends rows, of versions of the set: those   *)
(* there keep their ids, and every version of the set has one.             *)
LEMMA PutAppends ==
  ASSUME NEW rows, IsRows(rows), NEW S, IsFiniteSet(S),
         NEW new, new = PutVersion(rows, S)
  PROVE  /\ IsRows(new)
         /\ \A id \in 1 .. Len(rows) : id \in 1 .. Len(new) /\ new[id] = rows[id]
         /\ S \subseteq Range(new)
         /\ \A id \in 1 .. Len(new) : id <= Len(rows) \/ new[id] \in S
<1> DEFINE T == S \ Range(rows)
           added == SetToSeq(T)
           All == Range(rows) \cup T
<1>1. IsFiniteSet(T)
  BY FS_Difference
<1>2. added \in Seq(T) /\ Range(added) = T
  BY <1>1, SetToSeqLists
<1>3. rows \in Seq(All) /\ added \in Seq(All)
  <2>1. Range(rows) \subseteq All /\ T \subseteq All
    OBVIOUS
  <2> HIDE DEF All, added, T
  <2> QED  BY <1>2, <2>1, SeqMonotonic DEF IsRows
<1>4. new = rows \o added
  BY DEF PutVersion
<1>5. /\ new \in Seq(All)
      /\ Len(new) = Len(rows) + Len(added)
      /\ \A i \in 1 .. Len(rows) + Len(added) :
           new[i] = IF i <= Len(rows) THEN rows[i] ELSE added[i - Len(rows)]
  <2> HIDE DEF All, added
  <2> QED  BY <1>3, <1>4, ConcatProperties
<1>6. /\ Len(rows) \in Nat /\ Len(added) \in Nat
      /\ DOMAIN rows = 1 .. Len(rows) /\ DOMAIN added = 1 .. Len(added)
      /\ DOMAIN new = 1 .. Len(new) /\ Len(new) \in Nat
  <2> HIDE DEF All, added
  <2> QED  BY <1>3, <1>5, LenProperties
<1> HIDE DEF added
<1>7. \A id \in 1 .. Len(rows) : id \in 1 .. Len(new) /\ new[id] = rows[id]
  BY <1>5, <1>6
<1>8. ASSUME NEW x \in S
      PROVE  x \in Range(new)
  <2>1. CASE x \in Range(rows)
    <3>1. PICK i \in 1 .. Len(rows) : rows[i] = x
      BY <2>1, <1>6 DEF Range
    <3> QED  BY <3>1, <1>6, <1>7 DEF Range
  <2>2. CASE x \notin Range(rows)
    <3>1. x \in Range(added)
      BY <2>2, <1>2
    <3>2. PICK j \in 1 .. Len(added) : added[j] = x
      BY <3>1, <1>6 DEF Range
    <3>3. PICK i \in 1 .. Len(new) : i = Len(rows) + j
      BY <1>5, <1>6
    <3>4. ~(i <= Len(rows)) /\ i - Len(rows) = j /\ i \in 1 .. Len(rows) + Len(added)
      BY <3>3, <1>5, <1>6
    <3>5. new[i] = x
      BY <3>2, <3>4, <1>5
    <3> QED  BY <3>5, <1>6 DEF Range
  <2> QED  BY <2>1, <2>2
<1>9. new \in Seq(Range(new))
  <2>1. new \in [1 .. Len(new) -> Range(new)]
    <3>1. new \in [1 .. Len(new) -> All]
      <4> HIDE DEF All
      <4> QED  BY <1>5, LenProperties
    <3> QED  BY <3>1, <1>6 DEF Range
  <2> QED  BY <2>1, <1>6, SeqDef
<1>10. ASSUME NEW id \in 1 .. Len(new), ~(id <= Len(rows))
       PROVE  new[id] \in S
  <2>1. PICK j \in 1 .. Len(added) : j = id - Len(rows)
    BY <1>5, <1>6, <1>10
  <2>2. new[id] = added[j]
    BY <2>1, <1>5, <1>6, <1>10
  <2>3. added[j] \in T
    BY <1>2, <1>6 DEF Range
  <2> QED  BY <2>2, <2>3
<1> QED  BY <1>7, <1>8, <1>9, <1>10 DEF IsRows

(* The ids of versions that all have rows are the ids of these versions.   *)
LEMMA IdsExact ==
  ASSUME NEW rows, NEW S, S \subseteq Range(rows)
  PROVE  Ids(rows, S) \subseteq DOMAIN rows /\ GetVersions(rows, Ids(rows, S)) = S
BY DEF Ids, GetVersions, Range

(* What an epoch's ids stand for does not change when rows are appended.   *)
LEMMA GetKeeps ==
  ASSUME NEW rows, NEW new, NEW ids, ids \subseteq 1 .. Len(rows),
         \A id \in 1 .. Len(rows) : id \in 1 .. Len(new) /\ new[id] = rows[id]
  PROVE  ids \subseteq 1 .. Len(new) /\ GetVersions(new, ids) = GetVersions(rows, ids)
BY DEF GetVersions

-------------------------------------------------------------------------------
(* The invariant.                                                          *)

(* The node's lists are finite.                                            *)
Finite ==
  /\ IsFiniteSet(buckets)
  /\ history \in Seq(Range(history))
  /\ \A e \in 1 .. Len(history) :
       IsFiniteSet(history[e].buckets) /\ IsFiniteSet(history[e].candidates)

(* The indexer is within the epochs of the chain, and these are bounded.   *)
Positions ==
  /\ indexed \in Nat /\ indexed >= 1
  /\ Len(history) \in Nat /\ indexed <= Len(history) /\ Len(history) <= MaxEpoch

(* The tables of the archive are well formed.                              *)
ArchiveFormed ==
  /\ IsRows(staking_bucket) /\ IsRows(staking_candidate)
  /\ DOMAIN height_to_bucket = Epochs /\ DOMAIN height_to_candidate = Epochs
  /\ height_to_bucket = [e \in Epochs |-> height_to_bucket[e]]
  /\ height_to_candidate = [e \in Epochs |-> height_to_candidate[e]]
  /\ \A e \in Epochs : /\ height_to_bucket[e] \subseteq 1 .. Len(staking_bucket)
                        /\ height_to_candidate[e] \subseteq 1 .. Len(staking_candidate)

IInv == Finite /\ Positions /\ ArchiveFormed /\ ArchiveExact

LEMMA EmptyRows == IsRows(<<>>) /\ Len(<<>>) = 0
<1>1. <<>> \in Seq({}) /\ Len(<<>>) = 0 /\ DOMAIN <<>> = 1 .. 0
  BY EmptySeq, LenProperties
<1>2. Range(<<>>) = {}
  BY <1>1 DEF Range
<1> QED  BY <1>1, <1>2 DEF IsRows

LEMMA InitInv == Init => IInv
<1> SUFFICES ASSUME Init  PROVE IInv
  OBVIOUS
<1> DEFINE first == [buckets |-> {}, candidates |-> {}]
<1>1. Len(history) = 1 /\ history[1] = first /\ history \in Seq({first})
  BY DEF Init
<1>2. Range(history) = {first}
  <2>1. DOMAIN history = 1 .. 1 /\ 1 .. 1 = {1}
    BY <1>1, LenProperties
  <2>2. Range(history) = {history[1]}
    BY <2>1 DEF Range
  <2> QED  BY <1>1, <2>2
<1>3. Finite
  <2>1. first.buckets = {} /\ first.candidates = {}
    OBVIOUS
  <2>2. \A e \in 1 .. Len(history) : history[e] = first
    <3> HIDE DEF first
    <3> QED  BY <1>1
  <2>3. history \in Seq(Range(history)) /\ buckets = {}
    BY <1>1, <1>2 DEF Init
  <2> HIDE DEF first
  <2> QED  BY <2>1, <2>2, <2>3, FS_EmptySet DEF Finite
<1> USE DEF Init
<1>4. Positions
  BY <1>1, StakingVotesAssumption DEF Positions
<1>5. ArchiveFormed
  BY EmptyRows DEF ArchiveFormed
<1>6. ArchiveExact
  BY DEF ArchiveExact, IndexedEpochs
<1> QED  BY <1>3, <1>4, <1>5, <1>6 DEF IInv

(* Operations of the staking protocol do not touch what is indexed.        *)
LEMMA OperationInv ==
  ASSUME IInv, UNCHANGED <<history, tables>>, IsFiniteSet(buckets')
  PROVE  IInv'
<1>1. Finite'
  BY DEF IInv, Finite
<1>2. Positions' /\ ArchiveFormed' /\ ArchiveExact'
  BY DEF IInv, Positions, ArchiveFormed, ArchiveExact, IndexedEpochs, QueryVoteBuckets,
         QueryCandidates, GetAllStakingBuckets, GetAllStakingCandidates, tables, archive
<1> QED  BY <1>1, <1>2 DEF IInv

(* The candidates of the node are finitely many.                           *)
LEMMA NodeStateFinite ==
  ASSUME IsFiniteSet(buckets)
  PROVE  IsFiniteSet(NodeState.buckets) /\ IsFiniteSet(NodeState.candidates)
<1> DEFINE entry(c) == [owner |-> c, operator |-> operator[c], votes |-> TotalWeightedVotes(c),
                        selfStakeBucketIdx |-> selfBucket[c], selfStaked |-> c \in SelfStaked]
           f == [c \in Registered |-> entry(c)]
           T == {entry(c) : c \in Registered}
<1>1. IsFiniteSet(Registered)
  BY FS_Subset, StakingVotesAssumption DEF Registered
<1>2. f \in Surjection(Registered, T)
  BY DEF Surjection
<1>3. IsFiniteSet(T)
  <2> HIDE DEF f, T
  <2> QED  BY <1>1, <1>2, FS_Surjection
<1> QED  BY <1>3 DEF NodeState

(* The snapshots of the chain only become more.                            *)
LEMMA NewEpochInv ==
  ASSUME IInv, NewEpoch
  PROVE  IInv'
<1> DEFINE n == Len(history)
<1>1. /\ history \in Seq(Range(history)) /\ n \in Nat /\ DOMAIN history = 1 .. n
      /\ Range(history) = {history[e] : e \in 1 .. n}
  <2>1. IsRows(history)
    BY DEF IInv, Finite, IsRows
  <2> QED  BY <2>1, RowsRange DEF IsRows
<1>2. /\ Len(history') = n + 1
      /\ \A e \in 1 .. n : history'[e] = history[e]
      /\ history'[n + 1] = NodeState
  BY <1>1 DEF NewEpoch
<1>3. history' \in Seq(Range(history) \cup {NodeState})
  <2>1. history \in Seq(Range(history) \cup {NodeState})
    BY <1>1, SeqMonotonic
  <2> QED  BY <2>1 DEF NewEpoch
<1>4. history' \in Seq(Range(history'))
  <2>1. history' \in [1 .. Len(history') -> Range(history) \cup {NodeState}] /\ Len(history') \in Nat
    BY <1>3, LenProperties
  <2>2. history' \in [1 .. Len(history') -> Range(history')]
    BY <2>1 DEF Range
  <2> QED  BY <2>1, <2>2, SeqDef
<1>5. Finite'
  <2>1. IsFiniteSet(buckets')
    BY DEF IInv, Finite, NewEpoch
  <2>2. ASSUME NEW e \in 1 .. Len(history')
        PROVE  IsFiniteSet(history'[e].buckets) /\ IsFiniteSet(history'[e].candidates)
    <3>1. CASE e \in 1 .. n
      BY <3>1, <1>2 DEF IInv, Finite
    <3>2. CASE e = n + 1
      BY <3>2, <1>2, NodeStateFinite DEF IInv, Finite
    <3> QED  BY <3>1, <3>2, <1>1, <1>2
  <2> QED  BY <2>1, <2>2, <1>4 DEF Finite
<1>6. Positions'
  BY <1>1, <1>2, StakingVotesAssumption DEF IInv, Positions, NewEpoch, tables
<1>7. ArchiveFormed'
  BY DEF IInv, ArchiveFormed, NewEpoch, tables, archive
<1>8. ArchiveExact'
  <2> SUFFICES ASSUME NEW e \in IndexedEpochs
               PROVE  /\ QueryVoteBuckets(e)' = GetAllStakingBuckets(e - 1)'
                      /\ QueryCandidates(e)' = GetAllStakingCandidates(e - 1)'
    BY DEF ArchiveExact, IndexedEpochs, NewEpoch, tables
  <2>1. e - 1 \in 1 .. n
    BY DEF IInv, Positions, IndexedEpochs
  <2>2. history'[e - 1] = history[e - 1]
    BY <2>1, <1>2
  <2>3. /\ GetAllStakingBuckets(e - 1)' = GetAllStakingBuckets(e - 1)
        /\ GetAllStakingCandidates(e - 1)' = GetAllStakingCandidates(e - 1)
    BY <2>2 DEF GetAllStakingBuckets, GetAllStakingCandidates
  <2>4. QueryVoteBuckets(e)' = QueryVoteBuckets(e) /\ QueryCandidates(e)' = QueryCandidates(e)
    BY DEF QueryVoteBuckets, QueryCandidates, NewEpoch, tables, archive
  <2> QED  BY <2>3, <2>4 DEF IInv, ArchiveExact
<1> QED  BY <1>5, <1>6, <1>7, <1>8 DEF IInv

(* processStaking: the new epoch's ids stand for what was put, and those   *)
(* of the epochs before for what they stood for.                           *)
LEMMA HandleEpochInv ==
  ASSUME IInv, NEW list, HandleEpoch(list)
  PROVE  IInv'
<1>1. PICK n \in Nat : n = indexed + 1
  BY DEF IInv, Positions
<1>2. n \in Epochs /\ n - 1 \in 1 .. Len(history) /\ n <= Len(history) /\ indexed' = n /\ n - 1 = indexed
  BY <1>1, StakingVotesAssumption DEF IInv, Positions, HandleEpoch, Epochs
<1> DEFINE bs == GetAllStakingBuckets(n - 1)
           cs == GetAllStakingCandidates(n - 1)
<1>3. /\ staking_bucket' = PutVersion(staking_bucket, bs)
      /\ height_to_bucket' = [height_to_bucket EXCEPT ![n] = Ids(staking_bucket', bs)]
      /\ staking_candidate' = PutVersion(staking_candidate, cs)
      /\ height_to_candidate' = [height_to_candidate EXCEPT ![n] = Ids(staking_candidate', cs)]
      /\ UNCHANGED chain
  BY <1>1 DEF HandleEpoch, InsertVoteBuckets, InsertCandidates
<1>4. IsFiniteSet(bs) /\ IsFiniteSet(cs)
  <2>1. IsFiniteSet(history[n - 1].buckets) /\ IsFiniteSet(history[n - 1].candidates)
    BY <1>2 DEF IInv, Finite
  <2> QED  BY <2>1, FS_Subset DEF GetAllStakingBuckets, GetAllStakingCandidates
<1>5. bs' = bs /\ cs' = cs
  BY <1>3 DEF GetAllStakingBuckets, GetAllStakingCandidates, chain
<1> HIDE DEF bs, cs
<1>6. IsRows(staking_bucket) /\ IsRows(staking_candidate)
  BY DEF IInv, ArchiveFormed
<1>7. /\ IsRows(staking_bucket')
      /\ \A id \in 1 .. Len(staking_bucket) :
           id \in 1 .. Len(staking_bucket') /\ staking_bucket'[id] = staking_bucket[id]
      /\ bs \subseteq Range(staking_bucket')
  <2>1. IsRows(staking_bucket) /\ IsFiniteSet(bs) /\ staking_bucket' = PutVersion(staking_bucket, bs)
    BY <1>3, <1>4, <1>6
  <2> QED  BY ONLY <2>1, PutAppends
<1>8. /\ IsRows(staking_candidate')
      /\ \A id \in 1 .. Len(staking_candidate) :
           id \in 1 .. Len(staking_candidate') /\ staking_candidate'[id] = staking_candidate[id]
      /\ cs \subseteq Range(staking_candidate')
  <2>1. IsRows(staking_candidate) /\ IsFiniteSet(cs) /\ staking_candidate' = PutVersion(staking_candidate, cs)
    BY <1>3, <1>4, <1>6
  <2> QED  BY ONLY <2>1, PutAppends
<1>9. /\ height_to_bucket'[n] \subseteq 1 .. Len(staking_bucket')
      /\ GetVersions(staking_bucket', height_to_bucket'[n]) = bs
      /\ height_to_candidate'[n] \subseteq 1 .. Len(staking_candidate')
      /\ GetVersions(staking_candidate', height_to_candidate'[n]) = cs
  <2>1. height_to_bucket'[n] = Ids(staking_bucket', bs) /\ height_to_candidate'[n] = Ids(staking_candidate', cs)
    BY <1>2, <1>3 DEF IInv, ArchiveFormed
  <2>2. DOMAIN staking_bucket' = 1 .. Len(staking_bucket') /\ DOMAIN staking_candidate' = 1 .. Len(staking_candidate')
    BY <1>7, <1>8, RowsRange
  <2> QED  BY <2>1, <2>2, <1>7, <1>8, IdsExact
<1>10. ASSUME NEW f \in Epochs, f # n
       PROVE  /\ height_to_bucket'[f] = height_to_bucket[f]
              /\ height_to_candidate'[f] = height_to_candidate[f]
              /\ height_to_bucket'[f] \subseteq 1 .. Len(staking_bucket')
              /\ height_to_candidate'[f] \subseteq 1 .. Len(staking_candidate')
              /\ QueryVoteBuckets(f)' = QueryVoteBuckets(f)
              /\ QueryCandidates(f)' = QueryCandidates(f)
  <2>1. height_to_bucket'[f] = height_to_bucket[f] /\ height_to_candidate'[f] = height_to_candidate[f]
    BY <1>2, <1>3, <1>10 DEF IInv, ArchiveFormed
  <2>2. height_to_bucket[f] \subseteq 1 .. Len(staking_bucket) /\ height_to_candidate[f] \subseteq 1 .. Len(staking_candidate)
    BY <1>10 DEF IInv, ArchiveFormed
  <2>3. /\ height_to_bucket[f] \subseteq 1 .. Len(staking_bucket')
        /\ GetVersions(staking_bucket', height_to_bucket[f]) = GetVersions(staking_bucket, height_to_bucket[f])
    BY <2>2, <1>7, GetKeeps
  <2>4. /\ height_to_candidate[f] \subseteq 1 .. Len(staking_candidate')
        /\ GetVersions(staking_candidate', height_to_candidate[f]) = GetVersions(staking_candidate, height_to_candidate[f])
    BY <2>2, <1>8, GetKeeps
  <2> QED  BY <2>1, <2>3, <2>4 DEF QueryVoteBuckets, QueryCandidates
<1>11. Finite' /\ Positions'
  BY <1>2, <1>3 DEF IInv, Finite, Positions, chain
<1>12. ArchiveFormed'
  <2>1. \A f \in Epochs : /\ height_to_bucket'[f] \subseteq 1 .. Len(staking_bucket')
                          /\ height_to_candidate'[f] \subseteq 1 .. Len(staking_candidate')
    BY <1>9, <1>10
  <2>2. /\ DOMAIN height_to_bucket' = Epochs /\ DOMAIN height_to_candidate' = Epochs
        /\ height_to_bucket' = [e \in Epochs |-> height_to_bucket'[e]]
        /\ height_to_candidate' = [e \in Epochs |-> height_to_candidate'[e]]
    BY <1>3 DEF IInv, ArchiveFormed
  <2> QED  BY <2>1, <2>2, <1>7, <1>8 DEF ArchiveFormed, Epochs
<1>13. ArchiveExact'
  <2> SUFFICES ASSUME NEW f \in IndexedEpochs'
               PROVE  /\ QueryVoteBuckets(f)' = GetAllStakingBuckets(f - 1)'
                      /\ QueryCandidates(f)' = GetAllStakingCandidates(f - 1)'
    BY DEF ArchiveExact
  <2>1. CASE f = n
    BY <2>1, <1>5, <1>9 DEF QueryVoteBuckets, QueryCandidates, bs, cs
  <2>2. CASE f # n
    <3>1. f \in IndexedEpochs /\ f \in Epochs
      BY <2>2, <1>1, <1>2, StakingVotesAssumption DEF IndexedEpochs, IInv, Positions, Epochs
    <3>2. QueryVoteBuckets(f) = GetAllStakingBuckets(f - 1) /\ QueryCandidates(f) = GetAllStakingCandidates(f - 1)
      BY <3>1 DEF IInv, ArchiveExact
    <3>3. /\ GetAllStakingBuckets(f - 1)' = GetAllStakingBuckets(f - 1)
          /\ GetAllStakingCandidates(f - 1)' = GetAllStakingCandidates(f - 1)
      BY <1>3 DEF GetAllStakingBuckets, GetAllStakingCandidates, chain
    <3> QED  BY <3>1, <3>2, <3>3, <2>2, <1>10
  <2> QED  BY <2>1, <2>2
<1> QED  BY <1>11, <1>12, <1>13 DEF IInv

LEMMA NextInv == IInv /\ [Next]_vars => IInv'
<1> SUFFICES ASSUME IInv, [Next]_vars  PROVE IInv'
  OBVIOUS
<1>1. IsFiniteSet(buckets)
  BY DEF IInv, Finite
<1>2. ASSUME NEW c, NEW v, NEW a, NewBucket(c, v, a)
      PROVE  IsFiniteSet(buckets')
  BY <1>1, <1>2, FS_AddElement DEF NewBucket
<1>3. CASE \E c \in Candidates, a \in Amounts : \E v \in Voters : Stake(c, v, a)
  BY <1>2, <1>3, OperationInv DEF Stake, Operation
<1>4. CASE \E c \in Candidates, a \in Amounts : \E o \in Operators : Register(c, o, a)
  BY <1>2, <1>4, OperationInv DEF Register, Operation
<1>5. ASSUME NEW b, NEW x, Replace(b, x)
      PROVE  IInv'
  <2>1. IsFiniteSet(buckets \ {b})
    BY <1>1, FS_RemoveElement
  <2>2. IsFiniteSet(buckets')
    BY <1>5, <2>1, FS_AddElement DEF Replace
  <2> QED  BY <1>5, <2>2, OperationInv DEF Replace, Operation
<1>6. CASE \E c \in Candidates, a \in Amounts : \E b \in buckets, v \in Voters : Amend(b, c, v, a)
  BY <1>5, <1>6 DEF Amend
<1>7. CASE \E b \in buckets : Unstake(b)
  BY <1>5, <1>7 DEF Unstake
<1>8. CASE \E b \in buckets : Withdraw(b)
  BY <1>1, <1>8, FS_RemoveElement, OperationInv DEF Withdraw, Operation
<1>9. CASE \E c \in Candidates, o \in Operators : ChangeOperator(c, o)
  BY <1>1, <1>9, OperationInv DEF ChangeOperator, Operation
<1>10. CASE NewEpoch
  BY <1>10, NewEpochInv
<1>11. CASE \E list \in fetchProbationList : HandleEpoch(list)
  BY <1>11, HandleEpochInv
<1>12. CASE UNCHANGED vars
  BY <1>1, <1>12, OperationInv DEF vars, chain
<1> QED  BY <1>3, <1>4, <1>6, <1>7, <1>8, <1>9, <1>10, <1>11, <1>12 DEF Next

(* The invariant holds of the specification, for every set of candidates   *)
(* and voters, any weights, and any number of buckets and epochs           *)
(* (processStaking and the two table operators).                           *)
THEOREM ArchiveInvariant == Spec => []IInv
BY InitInv, NextInv, PTL DEF Spec

(* What was put for an epoch is what is read for it ever after             *)
(* (QueryVoteBuckets and QueryCandidates after InsertVoteBuckets and       *)
(* InsertCandidates).                                                      *)
THEOREM ArchiveIsExact == Spec => []ArchiveExact
<1>1. IInv => ArchiveExact
  BY DEF IInv
<1> QED  BY <1>1, ArchiveInvariant, PTL

-------------------------------------------------------------------------------
(* What the node, its snapshots and the tables are like, in all of which   *)
(* the votes rest.                                                         *)

(* A bucket has the index it was created with, which only a candidate's    *)
(* own bucket may share with a self-stake; a candidate that registered has *)
(* an operator.                                                            *)
NodeFormed ==
  /\ buckets \in SUBSET Versions
  /\ created \in 0 .. MaxBuckets
  /\ operator \in [Candidates -> Operators \cup {Nobody}]
  /\ selfBucket \in [Candidates -> 0 .. created]
  /\ ops \in 0 .. MaxOps
  /\ \A b \in buckets : b.index <= created
  /\ \A c \in Registered : operator[c] \in Operators
  /\ \A c \in Candidates : \A b \in buckets : b.index = selfBucket[c] => b.candidate = c

(* The buckets that vote for a candidate in a snapshot, and the indices of *)
(* the self-stakes.                                                        *)
VotesFor(s, c) == {b \in s.buckets : b.staked /\ b.candidate = c}

SelfStakesOf(s) == selfStakeIndexMap({c \in s.candidates : c.selfStaked})

(* In a snapshot, candidates have one entry each, with the weight of the   *)
(* buckets that vote for them; with self-stake, there are some.            *)
StateFormed(s) ==
  /\ s \in NodeStates
  /\ \A x, y \in s.candidates : x.owner = y.owner => x = y
  /\ \A x \in s.candidates : x.votes \in Nat /\ x.votes = Weigh(VotesFor(s, x.owner), SelfStakesOf(s))
  /\ \A x \in s.candidates : x.selfStaked => VotesFor(s, x.owner) # {}

HistoryFormed == \A e \in 1 .. Len(history) : StateFormed(history[e])

(* The votes in the tables are those of the snapshot of the epoch before   *)
(* and the probation list.                                                 *)
FilteredOf(e) == filterStakingCandidates(GetAllStakingCandidates(e - 1), probation_list[e])

TablesExact ==
  /\ probation_list \in [Epochs -> SUBSET Operators]
  /\ DOMAIN voting_result = Epochs /\ DOMAIN aggregate_voting = Epochs /\ DOMAIN voting_meta = Epochs
  /\ \A e \in IndexedEpochs :
       /\ voting_result[e] = StakingResult(FilteredOf(e))
       /\ aggregate_voting[e]
            = AggregateStaking(GetAllStakingBuckets(e - 1), FilteredOf(e), probation_list[e])
       /\ voting_meta[e] = VotingMeta(GetAllStakingBuckets(e - 1), FilteredOf(e))

(* Rows are in the order in which the epochs needed them first, and nobody *)
(* needs one before its epoch; those of candidates are of candidates.      *)
RowsOrdered ==
  /\ \A i, j \in 1 .. Len(staking_bucket) : i <= j =>
       \E f, g \in IndexedEpochs :
         f <= g /\ i \in height_to_bucket[f] /\ j \in height_to_bucket[g]
  /\ \A e \in Epochs \ IndexedEpochs : height_to_bucket[e] = {}
  /\ \A id \in 1 .. Len(staking_candidate) : staking_candidate[id] \in CandidateVersions

VInv == IInv /\ NodeFormed /\ HistoryFormed /\ TablesExact /\ RowsOrdered

-------------------------------------------------------------------------------
(* Weights are sums of natural numbers.                                    *)
Weights(bs, selfStakeIndex) == [b \in bs |-> CalculateVoteWeight(b, selfStakeIndex)]

LEMMA WeightType ==
  ASSUME NEW b, b.amount \in Amounts, NEW I
  PROVE  CalculateVoteWeight(b, I) \in Nat
<1>1. b.amount \in Nat /\ BonusNum \in Nat
  BY StakingVotesAssumption
<1>3. b.amount * BonusNum \in Nat
  BY <1>1
<1>2. (b.amount * BonusNum) \div BonusDen \in Nat
  BY <1>3, StakingVotesAssumption, Quotient
<1> QED  BY <1>1, <1>2 DEF CalculateVoteWeight

LEMMA WeighType ==
  ASSUME NEW bs, IsFiniteSet(bs), \A b \in bs : b.amount \in Amounts, NEW I
  PROVE  /\ Weigh(bs, I) = SumFunctionOnSet(Weights(bs, I), bs)
         /\ \A b \in bs : Weights(bs, I)[b] \in Nat
         /\ Weigh(bs, I) \in Nat
<1>1. \A b \in bs : Weights(bs, I)[b] \in Nat
  BY WeightType DEF Weights
<1>2. Weigh(bs, I) = SumFunctionOnSet(Weights(bs, I), bs)
  BY DEF Weigh, Weights, SumFunction
<1> QED  BY <1>1, <1>2, SumOfNats

LEMMA NothingWeighsNothing ==
  ASSUME NEW I
  PROVE  Weigh({}, I) = 0
<1>1. Weigh({}, I) = SumFunctionOnSet(Weights({}, I), {})
  BY DEF Weigh, Weights, SumFunction
<1> QED  BY <1>1, SumEmpty

(* A snapshot of the node is well formed.                                  *)
LEMMA NodeStateFormed ==
  ASSUME NodeFormed, IsFiniteSet(buckets)
  PROVE  StateFormed(NodeState)
<1> DEFINE entry(c) == [owner |-> c, operator |-> operator[c], votes |-> TotalWeightedVotes(c),
                        selfStakeBucketIdx |-> selfBucket[c], selfStaked |-> c \in SelfStaked]
           s == NodeState
<1>1. s.buckets = buckets /\ s.candidates = {entry(c) : c \in Registered}
  BY DEF NodeState
<1>2. SelfStaked \subseteq Registered
  BY DEF SelfStaked, Registered, Staked, NodeFormed, Versions
<1>10. ASSUME NEW c
       PROVE  /\ entry(c).owner = c /\ entry(c).selfStakeBucketIdx = selfBucket[c]
              /\ entry(c).votes = TotalWeightedVotes(c) /\ entry(c).operator = operator[c]
              /\ entry(c).selfStaked <=> c \in SelfStaked
  OBVIOUS
<1>3. SelfStakesOf(s) = {selfBucket[d] : d \in SelfStaked}
  <2> HIDE DEF s, entry
  <2>1. {c \in s.candidates : c.selfStaked} = {entry(c) : c \in SelfStaked}
    BY <1>1, <1>2, <1>10
  <2> QED  BY <2>1, <1>10 DEF SelfStakesOf, selfStakeIndexMap
<1>4. ASSUME NEW c \in Registered
      PROVE  /\ entry(c) \in CandidateVersions
             /\ entry(c).votes \in Nat
             /\ entry(c).votes = Weigh(VotesFor(s, c), SelfStakesOf(s))
             /\ entry(c).selfStaked => VotesFor(s, c) # {}
  <2>1. VotesFor(s, c) = {b \in Staked : b.candidate = c}
    <3> HIDE DEF s
    <3> QED  BY <1>1 DEF VotesFor, Staked
  <2>2. TotalWeightedVotes(c) = Weigh(VotesFor(s, c), SelfStakesOf(s))
    <3> HIDE DEF s
    <3> QED  BY <1>3, <2>1 DEF TotalWeightedVotes
  <2>3. TotalWeightedVotes(c) \in Nat
    <3>1. IsFiniteSet(VotesFor(s, c)) /\ \A b \in VotesFor(s, c) : b.amount \in Amounts
      <4>1. VotesFor(s, c) \in SUBSET buckets
        BY <2>1 DEF Staked
      <4> HIDE DEF s
      <4> QED  BY <4>1, FS_Subset DEF NodeFormed, Versions
    <3> HIDE DEF s
    <3> QED  BY <2>2, <3>1, WeighType
  <2>4. c \in Candidates /\ selfBucket[c] \in 1 .. MaxBuckets /\ operator[c] \in Operators
    <3>1. c \in Candidates /\ selfBucket[c] \in 0 .. created /\ selfBucket[c] # 0
      BY DEF Registered, NodeFormed
    <3>2. created \in 0 .. MaxBuckets /\ MaxBuckets \in Nat /\ operator[c] \in Operators
      BY StakingVotesAssumption DEF NodeFormed
    <3> QED  BY <3>1, <3>2
  <2>5. c \in SelfStaked => VotesFor(s, c) # {}
    <3>1. ASSUME NEW b \in Staked, b.index = selfBucket[c]
          PROVE  b.candidate = c
      BY <2>4, <3>1 DEF NodeFormed, Staked
    <3> HIDE DEF s
    <3> QED  BY <2>1, <3>1 DEF SelfStaked
  <2>6. entry(c) \in CandidateVersions
    <3>1. TotalWeightedVotes(c) \in Int /\ (c \in SelfStaked) \in BOOLEAN
      BY <2>3
    <3> QED  BY <2>4, <3>1 DEF CandidateVersions
  <2> HIDE DEF s, entry
  <2> QED  BY <2>2, <2>3, <2>5, <2>6, <1>10
<1> HIDE DEF s
<1>5. s \in NodeStates
  <2>1. buckets \in SUBSET Versions /\ s.candidates \in SUBSET CandidateVersions
    BY <1>1, <1>4 DEF NodeFormed
  <2>2. s = [buckets |-> buckets, candidates |-> s.candidates]
    BY DEF s, NodeState
  <2> QED  BY <2>1, <2>2 DEF NodeStates
<1>6. ASSUME NEW x \in s.candidates
      PROVE  \E c \in Registered : x = entry(c) /\ x.owner = c
  BY <1>1
<1> HIDE DEF entry
<1>7. \A x, y \in s.candidates : x.owner = y.owner => x = y
  BY <1>6
<1>8. \A x \in s.candidates : /\ x.votes \in Nat /\ x.votes = Weigh(VotesFor(s, x.owner), SelfStakesOf(s))
                              /\ x.selfStaked => VotesFor(s, x.owner) # {}
  BY <1>4, <1>6
<1>9. StateFormed(s)
  BY <1>5, <1>7, <1>8 DEF StateFormed
<1> QED  BY <1>9 DEF s

-------------------------------------------------------------------------------
LEMMA InitVotes == Init => NodeFormed /\ HistoryFormed /\ TablesExact /\ RowsOrdered
<1> SUFFICES ASSUME Init  PROVE NodeFormed /\ HistoryFormed /\ TablesExact /\ RowsOrdered
  OBVIOUS
<1> DEFINE first == [buckets |-> {}, candidates |-> {}]
<1>1. NodeFormed
  BY StakingVotesAssumption DEF Init, NodeFormed, Registered
<1>2. HistoryFormed
  <2>1. Len(history) = 1 /\ history[1] = first
    BY DEF Init
  <2>2. first.buckets = {} /\ first.candidates = {} /\ first \in NodeStates
    BY DEF NodeStates
  <2> HIDE DEF first
  <2>3. StateFormed(first)
    BY <2>2 DEF StateFormed
  <2> QED  BY <2>1, <2>3 DEF HistoryFormed
<1>3. TablesExact
  BY DEF Init, TablesExact, IndexedEpochs
<1>4. RowsOrdered
  BY EmptyRows DEF Init, RowsOrdered
<1> QED  BY <1>1, <1>2, <1>3, <1>4

(* Operations of the staking protocol leave the snapshots and the tables.  *)
LEMMA OperationVotes ==
  ASSUME VInv, UNCHANGED <<history, tables>>
  PROVE  HistoryFormed' /\ TablesExact' /\ RowsOrdered'
<1>1. HistoryFormed'
  BY DEF VInv, HistoryFormed
<1>2. UNCHANGED <<indexed, staking_bucket, height_to_bucket, staking_candidate, probation_list,
                  voting_result, aggregate_voting, voting_meta>>
  BY DEF tables, archive
<1>3. RowsOrdered'
  BY <1>2 DEF VInv, RowsOrdered, IndexedEpochs
<1>4. \A e : /\ FilteredOf(e)' = FilteredOf(e)
            /\ GetAllStakingBuckets(e - 1)' = GetAllStakingBuckets(e - 1)
  BY <1>2 DEF FilteredOf, GetAllStakingBuckets, GetAllStakingCandidates
<1>5. TablesExact'
  BY <1>2, <1>4 DEF VInv, TablesExact, IndexedEpochs
<1> QED  BY <1>1, <1>3, <1>5

(* A new bucket has a new index, and is of a registered candidate.         *)
LEMMA NewBucketNode ==
  ASSUME NodeFormed, NEW c \in Candidates, NEW v \in Addresses, NEW a \in Amounts,
         NewBucket(c, v, a), selfBucket' \in [Candidates -> 0 .. created'],
         \A d \in Candidates : selfBucket'[d] = selfBucket[d]
                                 \/ (d = c /\ selfBucket[d] = 0 /\ selfBucket'[d] = created')
  PROVE  /\ buckets' \in SUBSET Versions
         /\ created' \in 0 .. MaxBuckets
         /\ \A b \in buckets' : b.index <= created'
         /\ \A d \in Candidates : \A b \in buckets' : b.index = selfBucket'[d] => b.candidate = d
<1> DEFINE new == [index |-> created', candidate |-> c, owner |-> v, amount |-> a, staked |-> TRUE]
<1>1. created \in Nat /\ created' = created + 1 /\ created' \in 1 .. MaxBuckets
  <2>1. created \in 0 .. MaxBuckets /\ MaxBuckets \in Nat
    BY StakingVotesAssumption DEF NodeFormed
  <2> QED  BY <2>1 DEF NewBucket
<1>2. new \in Versions /\ new.index = created' /\ new.candidate = c
  BY <1>1 DEF Versions
<1> HIDE DEF new
<1>3. buckets' = buckets \cup {new}
  BY DEF NewBucket, new
<1>4. \A b \in buckets : b.index \in Nat /\ b.index <= created /\ b \in Versions
  BY DEF NodeFormed, Versions
<1>5. ASSUME NEW d \in Candidates, NEW b \in buckets', b.index = selfBucket'[d]
      PROVE  b.candidate = d
  <2>1. selfBucket[d] \in Nat /\ selfBucket[d] <= created
    BY <1>1 DEF NodeFormed
  <2>2. CASE b = new
    BY <1>1, <1>2, <1>5, <2>1, <2>2
  <2>3. CASE b \in buckets
    <3>1. b.index # created'
      BY <1>1, <1>4, <2>3
    <3>2. b.index = selfBucket[d]
      BY <3>1, <1>5
    <3> QED  BY <3>2, <2>3 DEF NodeFormed
  <2> QED  BY <1>3, <2>2, <2>3
<1>6. \A b \in buckets' : b \in Versions /\ b.index <= created'
  BY <1>1, <1>2, <1>3, <1>4
<1> QED  BY <1>1, <1>5, <1>6

LEMMA StakeNode ==
  ASSUME NodeFormed, NEW c \in Candidates, NEW v \in Voters, NEW a \in Amounts, Stake(c, v, a)
  PROVE  NodeFormed'
<1>1. /\ NewBucket(c, v, a) /\ v \in Addresses
      /\ operator' = operator /\ selfBucket' = selfBucket /\ ops' \in 0 .. MaxOps
  <2>1. ops \in 0 .. MaxOps /\ MaxOps \in Nat
    BY StakingVotesAssumption DEF NodeFormed
  <2> QED  BY <2>1 DEF Stake, Operation, Addresses
<1>2. selfBucket' \in [Candidates -> 0 .. created']
  <2>1. created \in Nat /\ created' = created + 1
    BY <1>1, StakingVotesAssumption DEF NodeFormed, NewBucket
  <2>2. \A d \in Candidates : selfBucket[d] \in 0 .. created + 1
    BY <2>1 DEF NodeFormed
  <2> QED  BY <1>1, <2>1, <2>2 DEF NodeFormed
<1>3. /\ buckets' \in SUBSET Versions
      /\ created' \in 0 .. MaxBuckets
      /\ \A b \in buckets' : b.index <= created'
      /\ \A d \in Candidates : \A b \in buckets' : b.index = selfBucket'[d] => b.candidate = d
  BY <1>1, <1>2, NewBucketNode
<1>4. Registered' = Registered
  BY <1>1 DEF Registered
<1> QED  BY <1>1, <1>2, <1>3, <1>4 DEF NodeFormed

LEMMA RegisterNode ==
  ASSUME NodeFormed, NEW c \in Candidates, NEW o \in Operators, NEW a \in Amounts,
         Register(c, o, a)
  PROVE  NodeFormed'
<1>1. /\ NewBucket(c, c, a) /\ c \in Addresses /\ c \notin Registered
      /\ operator' = [operator EXCEPT ![c] = o]
      /\ selfBucket' = [selfBucket EXCEPT ![c] = created'] /\ ops' \in 0 .. MaxOps
  <2>1. ops \in 0 .. MaxOps /\ MaxOps \in Nat
    BY StakingVotesAssumption DEF NodeFormed
  <2> QED  BY <2>1 DEF Register, Operation, Addresses
<1>2. created \in Nat /\ created' = created + 1
  BY <1>1, StakingVotesAssumption DEF NodeFormed, NewBucket
<1>3. \A d \in Candidates : selfBucket'[d] = IF d = c THEN created' ELSE selfBucket[d]
  BY <1>1 DEF NodeFormed
<1>4. selfBucket' \in [Candidates -> 0 .. created']
  <2>1. \A d \in Candidates : selfBucket'[d] \in 0 .. created'
    BY <1>2, <1>3 DEF NodeFormed
  <2>2. DOMAIN selfBucket' = Candidates /\ selfBucket' = [d \in Candidates |-> selfBucket'[d]]
    BY <1>1 DEF NodeFormed
  <2> QED  BY <2>1, <2>2
<1>5. selfBucket[c] = 0
  BY <1>1 DEF Registered
<1>6. /\ buckets' \in SUBSET Versions
      /\ created' \in 0 .. MaxBuckets
      /\ \A b \in buckets' : b.index <= created'
      /\ \A d \in Candidates : \A b \in buckets' : b.index = selfBucket'[d] => b.candidate = d
  BY <1>1, <1>3, <1>4, <1>5, NewBucketNode
<1>7. operator' \in [Candidates -> Operators \cup {Nobody}]
  BY <1>1 DEF NodeFormed
<1>8. ASSUME NEW d \in Registered'
      PROVE  operator'[d] \in Operators
  BY <1>1, <1>3 DEF Registered, NodeFormed
<1> QED  BY <1>1, <1>4, <1>6, <1>7, <1>8 DEF NodeFormed

(* A bucket that is replaced keeps its index, and its candidate if it is a *)
(* self-stake.                                                             *)
LEMMA ReplaceNode ==
  ASSUME NodeFormed, NEW b \in buckets, NEW x \in Versions, x.index = b.index,
         x.candidate = b.candidate \/ \A d \in Candidates : selfBucket[d] # b.index,
         Replace(b, x)
  PROVE  NodeFormed'
<1>1. /\ buckets' = (buckets \ {b}) \cup {x}
      /\ created' = created /\ operator' = operator /\ selfBucket' = selfBucket
      /\ ops' \in 0 .. MaxOps
  <2>1. ops \in 0 .. MaxOps /\ MaxOps \in Nat
    BY StakingVotesAssumption DEF NodeFormed
  <2> QED  BY <2>1 DEF Replace, Operation
<1>2. Registered' = Registered
  BY <1>1 DEF Registered
<1>3. \A y \in buckets' : y \in Versions /\ y.index <= created'
  BY <1>1 DEF NodeFormed
<1>4. ASSUME NEW d \in Candidates, NEW y \in buckets', y.index = selfBucket'[d]
      PROVE  y.candidate = d
  BY <1>1, <1>4 DEF NodeFormed
<1>5. buckets' \in SUBSET Versions
  BY <1>3
<1> QED  BY <1>1, <1>2, <1>3, <1>4, <1>5 DEF NodeFormed

LEMMA NextNode ==
  ASSUME NodeFormed, [Next]_vars
  PROVE  NodeFormed'
<1>1. ASSUME NEW c \in Candidates, NEW a \in Amounts, NEW v \in Voters, Stake(c, v, a)
      PROVE  NodeFormed'
  BY <1>1, StakeNode
<1>2. ASSUME NEW c \in Candidates, NEW a \in Amounts, NEW o \in Operators, Register(c, o, a)
      PROVE  NodeFormed'
  BY <1>2, RegisterNode
<1>3. ASSUME NEW c \in Candidates, NEW a \in Amounts, NEW b \in buckets, NEW v \in Voters,
             Amend(b, c, v, a)
      PROVE  NodeFormed'
  <2> DEFINE x == [b EXCEPT !.candidate = c, !.owner = v, !.amount = a]
  <2>1. b \in Versions /\ v \in Addresses
    BY DEF NodeFormed, Addresses
  <2>2. x \in Versions /\ x.index = b.index
    BY <2>1 DEF Versions
  <2>3. Replace(b, x) /\ \A d \in Candidates : selfBucket[d] # b.index
    BY <1>3 DEF Amend
  <2> HIDE DEF x
  <2> QED  BY <2>2, <2>3, ReplaceNode
<1>4. ASSUME NEW b \in buckets, Unstake(b)
      PROVE  NodeFormed'
  <2> DEFINE x == [b EXCEPT !.staked = FALSE]
  <2>1. b \in Versions
    BY DEF NodeFormed
  <2>2. x \in Versions /\ x.index = b.index /\ x.candidate = b.candidate
    BY <2>1 DEF Versions
  <2>3. Replace(b, x)
    BY <1>4 DEF Unstake
  <2> HIDE DEF x
  <2> QED  BY <2>2, <2>3, ReplaceNode
<1>5. ASSUME NEW b \in buckets, Withdraw(b)
      PROVE  NodeFormed'
  <2>1. /\ buckets' = buckets \ {b}
        /\ created' = created /\ operator' = operator /\ selfBucket' = selfBucket
        /\ ops' \in 0 .. MaxOps
    <3>1. ops \in 0 .. MaxOps /\ MaxOps \in Nat
      BY StakingVotesAssumption DEF NodeFormed
    <3> QED  BY <1>5, <3>1 DEF Withdraw, Operation
  <2>2. Registered' = Registered
    BY <2>1 DEF Registered
  <2> QED  BY <2>1, <2>2 DEF NodeFormed
<1>6. ASSUME NEW c \in Candidates, NEW o \in Operators, ChangeOperator(c, o)
      PROVE  NodeFormed'
  <2>1. /\ buckets' = buckets /\ created' = created /\ selfBucket' = selfBucket
        /\ operator' = [operator EXCEPT ![c] = o] /\ ops' \in 0 .. MaxOps
    <3>1. ops \in 0 .. MaxOps /\ MaxOps \in Nat
      BY StakingVotesAssumption DEF NodeFormed
    <3> QED  BY <1>6, <3>1 DEF ChangeOperator, Operation
  <2>2. Registered' = Registered
    BY <2>1 DEF Registered
  <2>3. operator' \in [Candidates -> Operators \cup {Nobody}]
    BY <2>1 DEF NodeFormed
  <2>4. \A d \in Registered : operator'[d] \in Operators
    BY <2>1 DEF NodeFormed, Registered
  <2> QED  BY <2>1, <2>2, <2>3, <2>4 DEF NodeFormed
<1>7. ASSUME UNCHANGED chain
      PROVE  NodeFormed'
  <2>1. UNCHANGED <<buckets, created, operator, selfBucket, ops>>
    BY <1>7 DEF chain
  <2>2. Registered' = Registered
    BY <2>1 DEF Registered
  <2> QED  BY <2>1, <2>2 DEF NodeFormed
<1>8. CASE NewEpoch
  <2>1. UNCHANGED <<buckets, created, operator, selfBucket, ops>>
    BY <1>8 DEF NewEpoch
  <2>2. Registered' = Registered
    BY <2>1 DEF Registered
  <2> QED  BY <2>1, <2>2 DEF NodeFormed
<1>9. CASE \E list \in fetchProbationList : HandleEpoch(list)
  BY <1>7, <1>9 DEF HandleEpoch
<1>10. CASE UNCHANGED vars
  BY <1>7, <1>10 DEF vars
<1> QED  BY <1>1, <1>2, <1>3, <1>4, <1>5, <1>6, <1>8, <1>9, <1>10 DEF Next

(* A new snapshot is well formed, and those before stay as they are.       *)
LEMMA NewEpochVotes ==
  ASSUME VInv, NewEpoch
  PROVE  HistoryFormed' /\ TablesExact' /\ RowsOrdered'
<1> DEFINE n == Len(history)
<1>1. /\ n \in Nat
      /\ Len(history') = n + 1
      /\ \A e \in 1 .. n : history'[e] = history[e]
      /\ history'[n + 1] = NodeState
  <2>1. IsRows(history)
    BY DEF VInv, IInv, Finite, IsRows
  <2>2. history \in Seq(Range(history)) /\ n \in Nat
    BY <2>1, RowsRange DEF IsRows
  <2> QED  BY <2>2 DEF NewEpoch
<1>2. HistoryFormed'
  <2>1. StateFormed(NodeState)
    BY NodeStateFormed DEF VInv, IInv, Finite
  <2>2. \A e \in 1 .. n : StateFormed(history[e])
    BY DEF VInv, HistoryFormed
  <2> SUFFICES ASSUME NEW e \in 1 .. n + 1
               PROVE  StateFormed(history'[e])
    BY <1>1 DEF HistoryFormed
  <2>3. CASE e \in 1 .. n
    BY <1>1, <2>2, <2>3
  <2>4. CASE e = n + 1
    BY <1>1, <2>1, <2>4
  <2> QED  BY <1>1, <2>3, <2>4
<1>3. UNCHANGED <<indexed, staking_bucket, height_to_bucket, staking_candidate, probation_list,
                  voting_result, aggregate_voting, voting_meta>>
  BY DEF NewEpoch, tables, archive
<1>4. RowsOrdered'
  BY <1>3 DEF VInv, RowsOrdered, IndexedEpochs
<1>5. ASSUME NEW e \in IndexedEpochs
      PROVE  /\ FilteredOf(e)' = FilteredOf(e)
             /\ GetAllStakingBuckets(e - 1)' = GetAllStakingBuckets(e - 1)
  <2>1. e - 1 \in 1 .. n
    BY DEF VInv, IInv, Positions, IndexedEpochs
  <2>2. history'[e - 1] = history[e - 1]
    BY <2>1, <1>1
  <2> QED  BY <2>2, <1>3 DEF FilteredOf, GetAllStakingBuckets, GetAllStakingCandidates
<1>6. TablesExact'
  BY <1>3, <1>5 DEF VInv, TablesExact, IndexedEpochs
<1> QED  BY <1>2, <1>4, <1>6

(* processStaking adds an epoch to the tables, and its rows after all      *)
(* others.                                                                 *)
LEMMA HandleEpochVotes ==
  ASSUME VInv, IInv', NEW list \in SUBSET Operators, HandleEpoch(list)
  PROVE  HistoryFormed' /\ TablesExact' /\ RowsOrdered'
<1>1. PICK n \in Nat : n = indexed + 1
  BY DEF VInv, IInv, Positions
<1>2. n \in Epochs /\ n - 1 \in 1 .. Len(history) /\ indexed' = n /\ n - 1 = indexed
  BY <1>1, StakingVotesAssumption DEF VInv, IInv, Positions, HandleEpoch, Epochs
<1> DEFINE bs == GetAllStakingBuckets(n - 1)
           cs == GetAllStakingCandidates(n - 1)
           filtered == filterStakingCandidates(cs, list)
<1>3. /\ probation_list' = [probation_list EXCEPT ![n] = list]
      /\ staking_bucket' = PutVersion(staking_bucket, bs)
      /\ height_to_bucket' = [height_to_bucket EXCEPT ![n] = Ids(staking_bucket', bs)]
      /\ voting_result' = [voting_result EXCEPT ![n] = StakingResult(filtered)]
      /\ aggregate_voting' = [aggregate_voting EXCEPT ![n] = AggregateStaking(bs, filtered, list)]
      /\ voting_meta' = [voting_meta EXCEPT ![n] = VotingMeta(bs, filtered)]
      /\ history' = history
  BY <1>1 DEF HandleEpoch, InsertVoteBuckets, chain
<1>4. HistoryFormed'
  BY <1>3 DEF VInv, HistoryFormed
<1>5. IndexedEpochs' = IndexedEpochs \cup {n} /\ n \notin IndexedEpochs /\ IndexedEpochs \subseteq Epochs
  BY <1>1, <1>2, StakingVotesAssumption DEF IndexedEpochs, Epochs, VInv, IInv, Positions
<1>6. TablesExact'
  <2>1. probation_list' \in [Epochs -> SUBSET Operators]
    BY <1>3 DEF VInv, TablesExact
  <2>2. /\ DOMAIN voting_result' = Epochs /\ DOMAIN aggregate_voting' = Epochs
        /\ DOMAIN voting_meta' = Epochs
    BY <1>3 DEF VInv, TablesExact
  <2>3. ASSUME NEW e \in IndexedEpochs'
        PROVE  /\ voting_result'[e] = StakingResult(FilteredOf(e)')
               /\ aggregate_voting'[e]
                    = AggregateStaking(GetAllStakingBuckets(e - 1)', FilteredOf(e)', probation_list'[e])
               /\ voting_meta'[e] = VotingMeta(GetAllStakingBuckets(e - 1)', FilteredOf(e)')
    <3>1. /\ GetAllStakingBuckets(e - 1)' = GetAllStakingBuckets(e - 1)
          /\ GetAllStakingCandidates(e - 1)' = GetAllStakingCandidates(e - 1)
      BY <1>3 DEF GetAllStakingBuckets, GetAllStakingCandidates
    <3>2. CASE e = n
      <4>1. /\ probation_list'[e] = list /\ voting_result'[e] = StakingResult(filtered)
            /\ aggregate_voting'[e] = AggregateStaking(bs, filtered, list)
            /\ voting_meta'[e] = VotingMeta(bs, filtered)
        BY <1>2, <1>3, <3>2 DEF VInv, TablesExact
      <4>2. FilteredOf(e)' = filtered
        BY <3>1, <3>2, <4>1 DEF FilteredOf
      <4> QED  BY <3>1, <3>2, <4>1, <4>2
    <3>3. CASE e # n
      <4>1. e \in IndexedEpochs /\ e \in Epochs
        BY <1>5, <3>3
      <4>2. /\ probation_list'[e] = probation_list[e] /\ voting_result'[e] = voting_result[e]
            /\ aggregate_voting'[e] = aggregate_voting[e] /\ voting_meta'[e] = voting_meta[e]
        BY <1>3, <3>3, <4>1 DEF VInv, TablesExact
      <4>3. FilteredOf(e)' = FilteredOf(e)
        BY <3>1, <4>2 DEF FilteredOf
      <4> QED  BY <3>1, <4>1, <4>2, <4>3 DEF VInv, TablesExact
    <3> QED  BY <3>2, <3>3
  <2> HIDE DEF filtered, bs
  <2> QED  BY <2>1, <2>2, <2>3 DEF TablesExact
<1>7. IsRows(staking_bucket) /\ IsFiniteSet(bs)
  <2>1. IsFiniteSet(history[n - 1].buckets)
    BY <1>2 DEF VInv, IInv, Finite
  <2> QED  BY <2>1, FS_Subset DEF GetAllStakingBuckets, VInv, IInv, ArchiveFormed
<1>8. /\ IsRows(staking_bucket')
      /\ \A id \in 1 .. Len(staking_bucket) :
           id \in 1 .. Len(staking_bucket') /\ staking_bucket'[id] = staking_bucket[id]
      /\ \A id \in 1 .. Len(staking_bucket') : id <= Len(staking_bucket) \/ staking_bucket'[id] \in bs
  <2> HIDE DEF bs
  <2> QED  BY <1>3, <1>7, PutAppends
<1>9. Len(staking_bucket) \in Nat /\ DOMAIN staking_bucket' = 1 .. Len(staking_bucket')
  BY <1>7, <1>8, RowsRange
<1>10. height_to_bucket'[n] = Ids(staking_bucket', bs)
  BY <1>2, <1>3 DEF VInv, IInv, ArchiveFormed
<1>11. ASSUME NEW e \in Epochs, e # n
       PROVE  height_to_bucket'[e] = height_to_bucket[e]
  BY <1>2, <1>3, <1>11 DEF VInv, IInv, ArchiveFormed
<1> HIDE DEF bs, cs, filtered
<1>12. ASSUME NEW i \in 1 .. Len(staking_bucket'), NEW j \in 1 .. Len(staking_bucket'), i <= j
       PROVE  \E f, g \in IndexedEpochs' :
                f <= g /\ i \in height_to_bucket'[f] /\ j \in height_to_bucket'[g]
  <2>1. CASE j <= Len(staking_bucket)
    <3>1. i \in 1 .. Len(staking_bucket) /\ j \in 1 .. Len(staking_bucket)
      BY <1>9, <1>12, <2>1
    <3>2. PICK f, g \in IndexedEpochs : f <= g /\ i \in height_to_bucket[f] /\ j \in height_to_bucket[g]
      BY <1>12, <3>1 DEF VInv, RowsOrdered
    <3> QED  BY <3>2, <1>5, <1>11
  <2>2. CASE ~(j <= Len(staking_bucket))
    <3>1. j \in height_to_bucket'[n]
      BY <1>8, <1>9, <1>10, <2>2 DEF Ids
    <3>2. CASE i <= Len(staking_bucket)
      <4>1. i \in 1 .. Len(staking_bucket)
        BY <1>9, <1>12, <3>2
      <4>2. PICK f, g \in IndexedEpochs : f <= g /\ i \in height_to_bucket[f] /\ i \in height_to_bucket[g]
        BY <4>1 DEF VInv, RowsOrdered
      <4>3. f <= n /\ i \in height_to_bucket'[f]
        BY <1>1, <1>5, <1>11, <4>2 DEF IndexedEpochs, VInv, IInv, Positions
      <4> QED  BY <1>5, <3>1, <4>3
    <3>3. CASE ~(i <= Len(staking_bucket))
      <4>1. i \in height_to_bucket'[n]
        BY <1>8, <1>9, <1>10, <3>3 DEF Ids
      <4> QED  BY <1>1, <1>5, <3>1, <4>1
    <3> QED  BY <3>2, <3>3
  <2> QED  BY <2>1, <2>2
<1>13. \A e \in Epochs \ IndexedEpochs' : height_to_bucket'[e] = {}
  BY <1>5, <1>11 DEF VInv, RowsOrdered
<1>14. ASSUME NEW id \in 1 .. Len(staking_candidate')
       PROVE  staking_candidate'[id] \in CandidateVersions
  <2>1. staking_candidate' = PutVersion(staking_candidate, cs)
    BY <1>1 DEF HandleEpoch, InsertCandidates, cs
  <2>2. IsRows(staking_candidate) /\ IsFiniteSet(cs) /\ cs \subseteq CandidateVersions
    <3>1. IsFiniteSet(history[n - 1].candidates) /\ history[n - 1] \in NodeStates
      BY <1>2 DEF VInv, IInv, Finite, HistoryFormed, StateFormed
    <3>2. cs \subseteq history[n - 1].candidates
      BY DEF cs, GetAllStakingCandidates
    <3>3. history[n - 1].candidates \subseteq CandidateVersions
      BY <3>1 DEF NodeStates
    <3> QED  BY <3>1, <3>2, <3>3, FS_Subset DEF VInv, IInv, ArchiveFormed
  <2>3. /\ \A i \in 1 .. Len(staking_candidate) : staking_candidate'[i] = staking_candidate[i]
        /\ \A i \in 1 .. Len(staking_candidate') :
             i <= Len(staking_candidate) \/ staking_candidate'[i] \in cs
        /\ Len(staking_candidate) \in Nat
    BY <2>1, <2>2, PutAppends, RowsRange
  <2>4. CASE id <= Len(staking_candidate)
    <3>1. id \in 1 .. Len(staking_candidate)
      BY <2>3, <2>4
    <3> QED  BY <2>3, <3>1 DEF VInv, RowsOrdered
  <2>5. CASE ~(id <= Len(staking_candidate))
    BY <2>2, <2>3, <2>5
  <2> QED  BY <2>4, <2>5
<1>15. RowsOrdered'
  BY <1>12, <1>13, <1>14 DEF RowsOrdered, Epochs
<1> QED  BY <1>4, <1>6, <1>15

LEMMA NextVotes == VInv /\ [Next]_vars => VInv'
<1> SUFFICES ASSUME VInv, [Next]_vars  PROVE VInv'
  OBVIOUS
<1>1. IInv' /\ NodeFormed'
  BY NextInv, NextNode DEF VInv
<1>2. HistoryFormed' /\ TablesExact' /\ RowsOrdered'
  <2>1. CASE NewEpoch
    BY <2>1, NewEpochVotes
  <2>2. CASE \E list \in fetchProbationList : HandleEpoch(list)
    BY <1>1, <2>2, HandleEpochVotes DEF fetchProbationList
  <2>3. CASE UNCHANGED <<history, tables>>
    BY <2>3, OperationVotes
  <2>4. CASE \E c \in Candidates, a \in Amounts :
               \/ \E v \in Voters : Stake(c, v, a)
               \/ \E o \in Operators : Register(c, o, a)
               \/ \E b \in buckets, v \in Voters : Amend(b, c, v, a)
    BY <2>3, <2>4 DEF Stake, Register, Amend, Replace, Operation
  <2>5. CASE \E b \in buckets : Unstake(b) \/ Withdraw(b)
    BY <2>3, <2>5 DEF Unstake, Withdraw, Replace, Operation
  <2>6. CASE \E c \in Candidates, o \in Operators : ChangeOperator(c, o)
    BY <2>3, <2>6 DEF ChangeOperator, Operation
  <2>7. CASE UNCHANGED vars
    BY <2>3, <2>7 DEF vars, chain
  <2> QED  BY <2>1, <2>2, <2>4, <2>5, <2>6, <2>7 DEF Next
<1> QED  BY <1>1, <1>2 DEF VInv

(* What the node, its snapshots and the tables are like holds throughout,  *)
(* for any constants (the staking protocol's operations, NodeState and     *)
(* processStaking).                                                        *)
THEOREM VotesInvariant == Spec => []VInv
<1>1. Init => VInv
  BY InitInv, InitVotes DEF VInv
<1> QED  BY <1>1, NextVotes, PTL DEF Spec

-------------------------------------------------------------------------------
(* The bucket queries.                                                     *)

LEMMA GreatestIsMax ==
  ASSUME NEW S, IsFiniteSet(S), S \subseteq Int, S # {}
  PROVE  Max(S) \in S /\ \A y \in S : Max(S) >= y
<1>1. \E x \in S : \A y \in S : x >= y
  BY GreatestExists
<1> QED  BY <1>1 DEF Max

(* The buckets archived for an epoch are staked ones with an index.        *)
LEMMA ArchivedBuckets ==
  ASSUME VInv, NEW e \in IndexedEpochs, NEW b \in QueryVoteBuckets(e)
  PROVE  b \in Versions /\ b.staked
<1>1. b \in GetAllStakingBuckets(e - 1)
  BY DEF VInv, IInv, ArchiveExact
<1>2. e - 1 \in 1 .. Len(history)
  BY DEF IndexedEpochs, VInv, IInv, Positions
<1>3. history[e - 1].buckets \subseteq Versions
  <2>1. history[e - 1] \in NodeStates
    BY <1>2 DEF VInv, HistoryFormed, StateFormed
  <2> QED  BY <2>1 DEF NodeStates
<1> QED  BY <1>1, <1>3 DEF GetAllStakingBuckets

(* With rows in the order of the epochs, the last row of a bucket that has *)
(* not returned is the one of its last epoch.                              *)
LEMMA NewVersions == VInv => NewVersionListed
<1> SUFFICES ASSUME VInv, NEW b \in QueryVoteBuckets(indexed), NeverReturned(b, indexed)
             PROVE  b \in BucketsByVoter(b.owner) /\ b \in BucketsByCandidate(b.candidate)
  BY DEF NewVersionListed
<1> DEFINE rowsOf(i) == {id \in DOMAIN staking_bucket : staking_bucket[id].index = i}
           R == rowsOf(b.index)
<1>1. Len(staking_bucket) \in Nat /\ DOMAIN staking_bucket = 1 .. Len(staking_bucket)
  BY RowsRange DEF VInv, IInv, ArchiveFormed
<1>2. indexed \in Epochs /\ indexed \in Nat
  BY StakingVotesAssumption DEF VInv, IInv, Positions, Epochs
<1>3. PICK i \in height_to_bucket[indexed] : b = staking_bucket[i]
  BY DEF QueryVoteBuckets, GetVersions
<1>4. indexed \in IndexedEpochs
  BY <1>2, <1>3 DEF VInv, RowsOrdered
<1>5. i \in 1 .. Len(staking_bucket)
  BY <1>2, <1>3 DEF VInv, IInv, ArchiveFormed
<1>6. i \in R
  BY <1>1, <1>3, <1>5
<1>7. Max(R) \in R /\ Max(R) >= i
  <2>1. IsFiniteSet(DOMAIN staking_bucket)
    BY <1>1, FS_Interval
  <2>2. IsFiniteSet(R) /\ R \subseteq Int /\ R # {}
    BY <1>1, <1>6, <2>1, FS_Subset
  <2> HIDE DEF R
  <2> QED  BY <1>6, <2>2, GreatestIsMax
<1> DEFINE m == Max(R)
<1>8. m \in 1 .. Len(staking_bucket) /\ i <= m /\ staking_bucket[m].index = b.index
  <2>1. Max(R) \in 1 .. Len(staking_bucket) /\ staking_bucket[Max(R)].index = b.index
    BY <1>1, <1>7
  <2> HIDE DEF R
  <2> QED  BY <1>5, <1>7, <2>1
<1> HIDE DEF m
<1>9. PICK f, g \in IndexedEpochs : f <= g /\ i \in height_to_bucket[f] /\ m \in height_to_bucket[g]
  BY <1>5, <1>8 DEF VInv, RowsOrdered
<1>10. b \in QueryVoteBuckets(f) /\ staking_bucket[m] \in QueryVoteBuckets(g)
  BY <1>3, <1>9 DEF QueryVoteBuckets, GetVersions
<1>11. f <= indexed /\ g \in f .. indexed
  BY <1>2, <1>9 DEF IndexedEpochs
<1>12. staking_bucket[m] = b
  BY <1>8, <1>10, <1>11 DEF NeverReturned
<1>13. b \in Versions /\ b.staked
  BY <1>4, ArchivedBuckets
<1>14. b \in selectBuckets
  <2>1. b.index \in {j \in 1 .. MaxBuckets : rowsOf(j) # {}}
    BY <1>6, <1>13 DEF Versions
  <2>2. staking_bucket[Max(rowsOf(b.index))] = b
    BY <1>12 DEF m
  <2> HIDE DEF R
  <2> QED  BY <2>1, <2>2 DEF selectBuckets
<1> QED  BY <1>13, <1>14 DEF BucketsByVoter, BucketsByCandidate

(* A bucket of the last epoch that has not returned to an earlier version  *)
(* is listed as it is (selectBuckets, which goes by ids, over rows that    *)
(* InsertVoteBuckets only ever appends).                                   *)
THEOREM NewVersionsAreListed == Spec => []NewVersionListed
BY NewVersions, VotesInvariant, PTL

-------------------------------------------------------------------------------
(* The votes in the tables.                                                *)

(* Probation lowers the votes of an entry and leaves the rest.             *)
Lowered(x, list) == IF x.operator \in list THEN Scaled(x.votes) ELSE x.votes

LEMMA FilterKeeps ==
  ASSUME NEW cs \in SUBSET CandidateVersions, NEW list,
         \A x, y \in cs : x.owner = y.owner => x = y
  PROVE  LET filtered == filterStakingCandidates(cs, list)
         IN  /\ {c.owner : c \in filtered} = {c.owner : c \in cs}
             /\ selfStakeIndexMap(filtered) = selfStakeIndexMap(cs)
             /\ \A x \in cs :
                  /\ x.owner \in stakingProbationListToMap(filtered, list) <=> x.operator \in list
                  /\ x.owner \in stakingProbationListToMap(cs, list) <=> x.operator \in list
                  /\ x.owner \in DOMAIN StakingResult(filtered)
                  /\ StakingResult(filtered)[x.owner].votes = Lowered(x, list)
                  /\ StakingResult(filtered)[x.owner].operator = x.operator
<1> DEFINE F(x) == IF x.operator \in list THEN [x EXCEPT !.votes = Scaled(@)] ELSE x
           filtered == filterStakingCandidates(cs, list)
<1>1. filtered = {F(x) : x \in cs}
  BY DEF filterStakingCandidates
<1>2. ASSUME NEW x \in cs
      PROVE  /\ F(x).owner = x.owner /\ F(x).operator = x.operator
             /\ F(x).selfStakeBucketIdx = x.selfStakeBucketIdx
             /\ F(x).votes = Lowered(x, list)
  BY DEF CandidateVersions, Lowered
<1> HIDE DEF F, filtered
<1>3. {c.owner : c \in filtered} = {c.owner : c \in cs}
  BY <1>1, <1>2
<1>4. selfStakeIndexMap(filtered) = selfStakeIndexMap(cs)
  BY <1>1, <1>2 DEF selfStakeIndexMap
<1>5. ASSUME NEW x \in cs
      PROVE  /\ x.owner \in stakingProbationListToMap(filtered, list) <=> x.operator \in list
             /\ x.owner \in stakingProbationListToMap(cs, list) <=> x.operator \in list
             /\ x.owner \in DOMAIN StakingResult(filtered)
             /\ StakingResult(filtered)[x.owner].votes = Lowered(x, list)
             /\ StakingResult(filtered)[x.owner].operator = x.operator
  <2>1. ASSUME NEW d \in filtered, d.owner = x.owner
        PROVE  d = F(x)
    BY <2>1, <1>1, <1>2
  <2>2. F(x) \in filtered
    BY <1>1
  <2>3. x.owner \in stakingProbationListToMap(filtered, list) <=> x.operator \in list
    BY <2>1, <2>2, <1>2 DEF stakingProbationListToMap
  <2>4. x.owner \in stakingProbationListToMap(cs, list) <=> x.operator \in list
    BY DEF stakingProbationListToMap
  <2>5. x.owner \in {c.owner : c \in filtered}
    BY <1>3
  <2>6. (CHOOSE d \in filtered : d.owner = x.owner) = F(x)
    BY <2>1, <2>2, <1>2
  <2>7. /\ x.owner \in DOMAIN StakingResult(filtered)
        /\ StakingResult(filtered)[x.owner] = [votes |-> F(x).votes, operator |-> F(x).operator]
    BY <2>5, <2>6 DEF StakingResult
  <2> QED  BY <1>2, <2>3, <2>4, <2>7
<1> QED  BY <1>3, <1>4, <1>5 DEF filtered

(* What a voter's buckets for a delegate are worth is in one place.        *)
BucketsOf(bs, c, v) == {b \in bs : b.candidate = c /\ b.owner = v}

LEMMA AggregateSums ==
  ASSUME NEW cs \in SUBSET CandidateVersions, NEW list,
         \A x, y \in cs : x.owner = y.owner => x = y,
         NEW bs, NEW x \in cs
  PROVE  LET aggregate == AggregateStaking(bs, filterStakingCandidates(cs, list), list)
         IN  /\ \A v : <<x.owner, v>> \in DOMAIN aggregate <=> BucketsOf(bs, x.owner, v) # {}
             /\ \A k \in DOMAIN aggregate : k = <<k[1], k[2]>>
             /\ \A v : <<x.owner, v>> \in DOMAIN aggregate =>
                  aggregate[<<x.owner, v>>] =
                    LET all == Weigh(BucketsOf(bs, x.owner, v), selfStakeIndexMap(cs))
                    IN  IF x.operator \in list THEN Scaled(all) ELSE all
<1> DEFINE filtered == filterStakingCandidates(cs, list)
           aggregate == AggregateStaking(bs, filtered, list)
           counted == {b \in bs : b.candidate \in {c.owner : c \in filtered}}
           keys == {<<b.candidate, b.owner>> : b \in counted}
           sum(k) == Weigh({b \in counted : <<b.candidate, b.owner>> = k}, selfStakeIndexMap(filtered))
<1>1. /\ {c.owner : c \in filtered} = {c.owner : c \in cs}
      /\ selfStakeIndexMap(filtered) = selfStakeIndexMap(cs)
      /\ x.owner \in stakingProbationListToMap(filtered, list) <=> x.operator \in list
  BY FilterKeeps
<1>2. aggregate = [k \in keys |-> IF k[1] \in stakingProbationListToMap(filtered, list)
                                    THEN Scaled(sum(k)) ELSE sum(k)]
  BY DEF AggregateStaking
<1>3. x.owner \in {c.owner : c \in filtered}
  BY <1>1
<1> HIDE DEF filtered, aggregate
<1>4. ASSUME NEW v
      PROVE  /\ <<x.owner, v>> \in keys <=> BucketsOf(bs, x.owner, v) # {}
             /\ {b \in counted : <<b.candidate, b.owner>> = <<x.owner, v>>} = BucketsOf(bs, x.owner, v)
  BY <1>3 DEF BucketsOf
<1>5. DOMAIN aggregate = keys
  BY <1>2
<1>6. \A k \in keys : k = <<k[1], k[2]>>
  OBVIOUS
<1>7. ASSUME NEW v, <<x.owner, v>> \in keys
      PROVE  aggregate[<<x.owner, v>>] =
               LET all == Weigh(BucketsOf(bs, x.owner, v), selfStakeIndexMap(cs))
               IN  IF x.operator \in list THEN Scaled(all) ELSE all
  <2> DEFINE k == <<x.owner, v>>
  <2>1. k[1] = x.owner /\ k \in keys
    BY <1>7
  <2>2. sum(k) = Weigh(BucketsOf(bs, x.owner, v), selfStakeIndexMap(cs))
    BY <1>1, <1>4
  <2> HIDE DEF k, sum, keys
  <2>3. aggregate[k] = IF k[1] \in stakingProbationListToMap(filtered, list)
                         THEN Scaled(sum(k)) ELSE sum(k)
    BY <1>2, <2>1
  <2> QED  BY <1>1, <2>1, <2>2, <2>3 DEF k
<1> QED  BY <1>4, <1>5, <1>6, <1>7 DEF aggregate, filtered

LEMMA EpochFacts ==
  ASSUME VInv, NEW e \in IndexedEpochs
  PROVE  LET bs == GetAllStakingBuckets(e - 1)
             cs == GetAllStakingCandidates(e - 1)
         IN  /\ IsFiniteSet(bs) /\ bs \subseteq Versions
             /\ cs \in SUBSET CandidateVersions
             /\ \A x, y \in cs : x.owner = y.owner => x = y
             /\ \A x \in cs : LET for == {b \in bs : b.candidate = x.owner}
                              IN  /\ for # {} /\ x.votes \in Nat
                                  /\ x.votes = Weigh(for, selfStakeIndexMap(cs))
             /\ QueryVoteBuckets(e) = bs /\ QueryCandidates(e) = cs
             /\ voting_result[e] = StakingResult(filterStakingCandidates(cs, probation_list[e]))
             /\ aggregate_voting[e]
                  = AggregateStaking(bs, filterStakingCandidates(cs, probation_list[e]), probation_list[e])
             /\ DOMAIN voting_result[e] = {x.owner : x \in cs}
<1> DEFINE s == history[e - 1]
           bs == GetAllStakingBuckets(e - 1)
           cs == GetAllStakingCandidates(e - 1)
<1>1. e - 1 \in 1 .. Len(history)
  BY DEF IndexedEpochs, VInv, IInv, Positions
<1>2. StateFormed(s) /\ IsFiniteSet(s.buckets)
  BY <1>1 DEF VInv, HistoryFormed, IInv, Finite
<1>3. bs = {b \in s.buckets : b.staked} /\ cs = {c \in s.candidates : c.selfStaked}
  BY DEF GetAllStakingBuckets, GetAllStakingCandidates
<1>4. s.buckets \in SUBSET Versions /\ s.candidates \in SUBSET CandidateVersions
  BY <1>2 DEF StateFormed, NodeStates
<1>5. QueryVoteBuckets(e) = bs /\ QueryCandidates(e) = cs
  BY DEF VInv, IInv, ArchiveExact
<1>6. /\ voting_result[e] = StakingResult(filterStakingCandidates(cs, probation_list[e]))
      /\ aggregate_voting[e]
           = AggregateStaking(bs, filterStakingCandidates(cs, probation_list[e]), probation_list[e])
  BY DEF VInv, TablesExact, FilteredOf
<1> HIDE DEF s, bs, cs
<1>7. IsFiniteSet(bs) /\ bs \subseteq Versions
  BY <1>2, <1>3, <1>4, FS_Subset
<1>8. cs \in SUBSET CandidateVersions /\ \A x, y \in cs : x.owner = y.owner => x = y
  BY <1>2, <1>3, <1>4 DEF StateFormed
<1>9. ASSUME NEW x \in cs
      PROVE  LET for == {b \in bs : b.candidate = x.owner}
             IN  for # {} /\ x.votes \in Nat /\ x.votes = Weigh(for, selfStakeIndexMap(cs))
  <2>1. {b \in bs : b.candidate = x.owner} = VotesFor(s, x.owner)
    BY <1>3 DEF VotesFor
  <2>2. selfStakeIndexMap(cs) = SelfStakesOf(s)
    BY <1>3 DEF SelfStakesOf
  <2>3. x \in s.candidates /\ x.selfStaked
    BY <1>3
  <2> QED  BY <1>2, <2>1, <2>2, <2>3 DEF StateFormed
<1>10. DOMAIN voting_result[e] = {x.owner : x \in cs}
  <2>1. {c.owner : c \in filterStakingCandidates(cs, probation_list[e])} = {c.owner : c \in cs}
    BY <1>8, FilterKeeps
  <2> QED  BY <1>6, <2>1 DEF StakingResult
<1> QED  BY <1>5, <1>6, <1>7, <1>8, <1>9, <1>10 DEF bs, cs

LEMMA EpochAggregate ==
  ASSUME VInv, NEW e \in IndexedEpochs, NEW x \in GetAllStakingCandidates(e - 1)
  PROVE  LET bs  == GetAllStakingBuckets(e - 1)
             agg == aggregate_voting[e]
             I   == selfStakeIndexMap(GetAllStakingCandidates(e - 1))
         IN  /\ \A v : <<x.owner, v>> \in DOMAIN agg <=> BucketsOf(bs, x.owner, v) # {}
             /\ \A k \in DOMAIN agg : k = <<k[1], k[2]>>
             /\ \A v : <<x.owner, v>> \in DOMAIN agg =>
                  agg[<<x.owner, v>>] = LET all == Weigh(BucketsOf(bs, x.owner, v), I)
                                        IN  IF x.operator \in probation_list[e] THEN Scaled(all) ELSE all
<1> DEFINE bs == GetAllStakingBuckets(e - 1)
           cs == GetAllStakingCandidates(e - 1)
           list == probation_list[e]
           agg == aggregate_voting[e]
<1>1. /\ cs \in SUBSET CandidateVersions /\ x \in cs
      /\ \A y, z \in cs : y.owner = z.owner => y = z
      /\ agg = AggregateStaking(bs, filterStakingCandidates(cs, list), list)
  BY EpochFacts
<1> HIDE DEF bs, cs, list, agg
<1>2. LET aggregate == AggregateStaking(bs, filterStakingCandidates(cs, list), list)
      IN  /\ \A v : <<x.owner, v>> \in DOMAIN aggregate <=> BucketsOf(bs, x.owner, v) # {}
          /\ \A k \in DOMAIN aggregate : k = <<k[1], k[2]>>
          /\ \A v : <<x.owner, v>> \in DOMAIN aggregate =>
               aggregate[<<x.owner, v>>] =
                 LET all == Weigh(BucketsOf(bs, x.owner, v), selfStakeIndexMap(cs))
                 IN  IF x.operator \in list THEN Scaled(all) ELSE all
  BY <1>1, AggregateSums
<1> QED  BY <1>1, <1>2 DEF bs, cs, list, agg

LEMMA ScaledType ==
  ASSUME NEW n \in Nat
  PROVE  Scaled(n) \in Nat
<1>1. RateNum \in Nat /\ RateDen \in Nat \ {0}
  BY StakingVotesAssumption
<1>2. n * RateNum \in Nat
  BY <1>1
<1> QED  BY <1>1, <1>2, Quotient DEF Scaled

(* The votes of a delegate, taken apart by voter and scaled part by part,  *)
(* are those scaled as a whole, but for the rounding.                      *)
LEMMA VotersWithin == VInv => VotersWithinTotal
<1> SUFFICES ASSUME VInv, NEW e \in IndexedEpochs, NEW c \in DOMAIN voting_result[e]
             PROVE  LET keys == {k \in DOMAIN aggregate_voting[e] : k[1] = c}
                        sum  == SumFunctionOnSet(aggregate_voting[e], keys)
                    IN  /\ sum <= voting_result[e][c].votes
                        /\ voting_result[e][c].votes - sum < Cardinality(keys)
  BY DEF VotersWithinTotal
<1> DEFINE bs == GetAllStakingBuckets(e - 1)
           cs == GetAllStakingCandidates(e - 1)
           list == probation_list[e]
           I == selfStakeIndexMap(cs)
           for == {b \in bs : b.candidate = c}
           agg == aggregate_voting[e]
           keys == {k \in DOMAIN agg : k[1] = c}
           w == Weights(for, I)
           g == [b \in for |-> <<b.candidate, b.owner>>]
           parts == [k \in keys |-> SumFunctionOnSet(w, {b \in for : g[b] = k})]
<1>1. /\ IsFiniteSet(bs) /\ bs \subseteq Versions
      /\ cs \in SUBSET CandidateVersions
      /\ \A x, y \in cs : x.owner = y.owner => x = y
      /\ voting_result[e] = StakingResult(filterStakingCandidates(cs, list))
      /\ agg = AggregateStaking(bs, filterStakingCandidates(cs, list), list)
      /\ DOMAIN voting_result[e] = {x.owner : x \in cs}
  BY EpochFacts
<1>2. PICK x \in cs : x.owner = c
  BY <1>1
<1>3. for # {} /\ x.votes \in Nat /\ x.votes = Weigh(for, I)
  <2>1. LET own == {b \in bs : b.candidate = x.owner}
        IN  own # {} /\ x.votes \in Nat /\ x.votes = Weigh(own, I)
    BY EpochFacts
  <2>2. for = {b \in bs : b.candidate = x.owner}
    BY <1>2
  <2> HIDE DEF bs, for, I
  <2> QED  BY <2>1, <2>2
<1>4. voting_result[e][c].votes = Lowered(x, list)
  <2> HIDE DEF cs, list
  <2>1. StakingResult(filterStakingCandidates(cs, list))[x.owner].votes = Lowered(x, list)
    BY <1>1, FilterKeeps
  <2> QED  BY <1>1, <1>2, <2>1
<1>5. /\ \A v : <<c, v>> \in DOMAIN agg <=> BucketsOf(bs, c, v) # {}
      /\ \A k \in DOMAIN agg : k = <<k[1], k[2]>>
      /\ \A v : <<c, v>> \in DOMAIN agg =>
           agg[<<c, v>>] = LET all == Weigh(BucketsOf(bs, c, v), I)
                           IN  IF x.operator \in list THEN Scaled(all) ELSE all
  <2>1. /\ \A v : <<x.owner, v>> \in DOMAIN agg <=> BucketsOf(bs, x.owner, v) # {}
        /\ \A k \in DOMAIN agg : k = <<k[1], k[2]>>
        /\ \A v : <<x.owner, v>> \in DOMAIN agg =>
             agg[<<x.owner, v>>] = LET all == Weigh(BucketsOf(bs, x.owner, v), I)
                                   IN  IF x.operator \in list THEN Scaled(all) ELSE all
    BY EpochAggregate
  <2> HIDE DEF cs, list, bs, agg, I
  <2> QED  BY <1>1, <1>2, <2>1
<1>6. IsFiniteSet(for) /\ \A b \in for : b.amount \in Amounts
  BY <1>1, FS_Subset DEF Versions
<1> HIDE DEF bs, cs, list, I, agg
<1>7. /\ x.votes = SumFunctionOnSet(w, for)
      /\ \A b \in for : w[b] \in Nat
  <2> HIDE DEF for
  <2> QED  BY <1>3, <1>6, WeighType
<1>8. /\ keys = {g[b] : b \in for}
      /\ \A b \in for : g[b] \in keys
  <2>1. ASSUME NEW b \in for
        PROVE  g[b] = <<c, b.owner>> /\ g[b] \in keys
    <3>1. b \in BucketsOf(bs, c, b.owner)
      BY DEF BucketsOf
    <3>2. <<c, b.owner>> \in DOMAIN agg
      BY <1>5, <3>1
    <3> QED  BY <3>2
  <2>2. ASSUME NEW k \in keys
        PROVE  \E b \in for : g[b] = k
    <3>1. k = <<c, k[2]>> /\ <<c, k[2]>> \in DOMAIN agg
      BY <1>5
    <3>2. PICK b \in BucketsOf(bs, c, k[2]) : TRUE
      BY <1>5, <3>1
    <3>3. b \in for /\ g[b] = <<c, k[2]>>
      BY <3>2 DEF BucketsOf
    <3> QED  BY <3>1, <3>3
  <2> QED  BY <2>1, <2>2
<1>9. IsFiniteSet(keys) /\ keys # {}
  <2>1. g \in Surjection(for, keys)
    <3> HIDE DEF keys, for
    <3>1. g \in [for -> keys]
      BY <1>8
    <3> QED  BY <1>8, <3>1 DEF Surjection
  <2> HIDE DEF keys, for, g
  <2> QED  BY <1>3, <1>6, <1>8, <2>1, FS_Surjection
<1>10. ASSUME NEW k \in keys
       PROVE  /\ parts[k] \in Nat
              /\ agg[k] = IF x.operator \in list THEN Scaled(parts[k]) ELSE parts[k]
  <2> DEFINE B == BucketsOf(bs, c, k[2])
  <2>1. k = <<c, k[2]>> /\ k \in DOMAIN agg
    BY <1>5
  <2>2. {b \in for : g[b] = k} = B
    <3>1. \A b \in for : g[b] = k <=> b.owner = k[2]
      BY <2>1
    <3> QED  BY <3>1 DEF BucketsOf
  <2>3. IsFiniteSet(B) /\ B \subseteq for /\ \A b \in B : b.amount \in Amounts
    BY <1>6, <2>2, FS_Subset
  <2>4. Weigh(B, I) = SumFunctionOnSet(Weights(B, I), B) /\ Weigh(B, I) \in Nat
    <3> HIDE DEF B
    <3> QED  BY <2>3, WeighType
  <2>5. SumFunctionOnSet(w, B) = SumFunctionOnSet(Weights(B, I), B)
    <3>1. \A b \in B : w[b] \in Int /\ Weights(B, I)[b] = w[b]
      BY <1>7, <2>3 DEF Weights
    <3> HIDE DEF B, w
    <3> QED  BY <2>3, <3>1, SumSame
  <2>6. parts[k] = Weigh(B, I)
    BY <2>2, <2>4, <2>5
  <2>7. agg[k] = IF x.operator \in list THEN Scaled(Weigh(B, I)) ELSE Weigh(B, I)
    BY <1>5, <2>1
  <2> HIDE DEF B, parts
  <2> QED  BY <2>4, <2>6, <2>7
<1>11. SumFunctionOnSet(parts, keys) = x.votes
  <2>1. \A b \in for : w[b] \in Int /\ g[b] \in keys
    <3> HIDE DEF w, g, keys, for
    <3> QED  BY <1>7, <1>8
  <2>2. \A k \in keys : parts[k] = SumFunctionOnSet(w, {b \in for : g[b] = k})
    OBVIOUS
  <2> HIDE DEF w, g, keys, for, parts
  <2>3. SumFunctionOnSet(parts, keys) = SumFunctionOnSet(w, for)
    <3>1. IsFiniteSet(for) /\ IsFiniteSet(keys)
      BY <1>6, <1>9
    <3>2. SumsOfParts(parts, w, g, for, keys)
      BY <2>1, <2>2 DEF SumsOfParts
    <3> QED  BY <3>1, <3>2, SumOfParts
  <2> QED  BY <1>7, <2>3
<1> HIDE DEF keys, parts, for, w, g
<1>12. Cardinality(keys) \in Nat /\ Cardinality(keys) # 0
  BY <1>9, FS_CardinalityType, FS_EmptySet
<1> DEFINE sum == SumFunctionOnSet(agg, keys)
           row == voting_result[e][c].votes
<1>13. sum <= row /\ row - sum < Cardinality(keys)
  <2>1. CASE x.operator \notin list
    <3>1. \A k \in keys : parts[k] \in Int /\ agg[k] = parts[k]
      BY <1>10, <2>1
    <3>2. sum = x.votes
      BY <1>9, <1>11, <3>1, SumSame
    <3>3. row = x.votes
      BY <1>4, <2>1 DEF Lowered
    <3> HIDE DEF sum, row
    <3> QED  BY <1>3, <1>12, <3>2, <3>3
  <2>2. CASE x.operator \in list
    <3>1. \A k \in keys : parts[k] \in Nat /\ agg[k] = (parts[k] * RateNum) \div RateDen
      BY <1>10, <2>2 DEF Scaled
    <3>2. RateNum \in Nat /\ RateDen \in Nat \ {0}
      BY StakingVotesAssumption
    <3>3. row = (SumFunctionOnSet(parts, keys) * RateNum) \div RateDen
      BY <1>4, <1>11, <2>2 DEF Lowered, Scaled
    <3> HIDE DEF row
    <3> QED  BY <1>9, <3>1, <3>2, <3>3, SumOfQuotients
  <2> QED  BY <2>1, <2>2
<1> QED  BY <1>13 DEF keys, agg

(* aggregate_voting and the sum over the bucket list, which scales bucket  *)
(* by bucket.                                                              *)
LEMMA VotesSame == VInv => VotesAgree
<1> SUFFICES ASSUME VInv, NEW e \in IndexedEpochs, NEW c \in DOMAIN voting_result[e],
                    NEW u \in Addresses
             PROVE  LET parts == {p \in getStakingBucketInfoByEpoch(e, c) : p.bucket.owner = u}
                        sum   == SumFunction([p \in parts |-> p.votes])
                        key   == <<c, u>>
                    IN  /\ parts # {} <=> key \in DOMAIN aggregate_voting[e]
                        /\ parts # {} =>
                             /\ sum <= aggregate_voting[e][key]
                             /\ aggregate_voting[e][key] - sum < Cardinality(parts)
                             /\ c \notin stakingProbationListToMap(QueryCandidates(e), getProbationList(e)) =>
                                  aggregate_voting[e][key] = sum
  BY DEF VotesAgree
<1> DEFINE bs == GetAllStakingBuckets(e - 1)
           cs == GetAllStakingCandidates(e - 1)
           list == probation_list[e]
           I == selfStakeIndexMap(cs)
           agg == aggregate_voting[e]
           B == BucketsOf(bs, c, u)
           w == Weights(B, I)
<1>1. /\ IsFiniteSet(bs) /\ bs \subseteq Versions
      /\ cs \in SUBSET CandidateVersions
      /\ \A x, y \in cs : x.owner = y.owner => x = y
      /\ agg = AggregateStaking(bs, filterStakingCandidates(cs, list), list)
      /\ DOMAIN voting_result[e] = {x.owner : x \in cs}
      /\ QueryVoteBuckets(e) = bs /\ QueryCandidates(e) = cs
  BY EpochFacts
<1>2. PICK x \in cs : x.owner = c
  BY <1>1
<1> DEFINE low == x.operator \in list
           q == [b \in B |-> IF low THEN Scaled(w[b]) ELSE w[b]]
           r == [b \in B |-> [bucket |-> b, votes |-> q[b]]]
           parts == {p \in getStakingBucketInfoByEpoch(e, c) : p.bucket.owner = u}
           votes == [p \in parts |-> p.votes]
           sum == SumFunction(votes)
           key == <<c, u>>
<1>3. c \in stakingProbationListToMap(cs, list) <=> low
  <2> HIDE DEF cs, list
  <2>1. x.owner \in stakingProbationListToMap(cs, list) <=> x.operator \in list
    BY <1>1, FilterKeeps
  <2> QED  BY <1>2, <2>1
<1>4. /\ key \in DOMAIN agg <=> B # {}
      /\ key \in DOMAIN agg => agg[key] = IF low THEN Scaled(Weigh(B, I)) ELSE Weigh(B, I)
  <2>1. /\ \A v : <<x.owner, v>> \in DOMAIN agg <=> BucketsOf(bs, x.owner, v) # {}
        /\ \A k \in DOMAIN agg : k = <<k[1], k[2]>>
        /\ \A v : <<x.owner, v>> \in DOMAIN agg =>
             agg[<<x.owner, v>>] = LET all == Weigh(BucketsOf(bs, x.owner, v), I)
                                   IN  IF x.operator \in list THEN Scaled(all) ELSE all
    BY EpochAggregate
  <2> HIDE DEF cs, list, bs, agg, I
  <2>2. /\ <<c, u>> \in DOMAIN agg <=> BucketsOf(bs, c, u) # {}
        /\ <<c, u>> \in DOMAIN agg =>
             agg[<<c, u>>] = LET all == Weigh(BucketsOf(bs, c, u), I)
                             IN  IF x.operator \in list THEN Scaled(all) ELSE all
    BY <1>1, <1>2, <2>1
  <2> QED  BY <2>2
<1>5. IsFiniteSet(B) /\ \A b \in B : b.amount \in Amounts /\ b.candidate = c /\ b.owner = u /\ b \in bs
  BY <1>1, FS_Subset DEF Versions, BucketsOf
<1>6. /\ Weigh(B, I) = SumFunctionOnSet(w, B) /\ Weigh(B, I) \in Nat
      /\ \A b \in B : w[b] \in Nat /\ w[b] = CalculateVoteWeight(b, I)
  <2>1. \A b \in B : w[b] = CalculateVoteWeight(b, I)
    BY DEF Weights
  <2> HIDE DEF B, I
  <2> QED  BY <1>5, <2>1, WeighType
<1>7. parts = {r[b] : b \in B}
  <2>1. getStakingBucketInfoByEpoch(e, c) =
          {[bucket |-> b, votes |-> IF low THEN Scaled(CalculateVoteWeight(b, I))
                                           ELSE CalculateVoteWeight(b, I)]
             : b \in {y \in bs : y.candidate = c}}
    <3>1. c \in {k.owner : k \in cs}
      BY <1>2
    <3> HIDE DEF bs, cs, list, low
    <3> QED  BY <1>1, <1>3, <3>1 DEF getStakingBucketInfoByEpoch, getProbationList, list
  <2> DEFINE line(b) == [bucket |-> b, votes |-> IF low THEN Scaled(CalculateVoteWeight(b, I))
                                                     ELSE CalculateVoteWeight(b, I)]
  <2>2. \A b \in B : r[b] = line(b)
    BY <1>6
  <2>3. B = {y \in bs : y.candidate = c /\ y.owner = u}
    BY DEF BucketsOf
  <2>4. \A b : line(b).bucket = b
    OBVIOUS
  <2>5. getStakingBucketInfoByEpoch(e, c) = {line(b) : b \in {y \in bs : y.candidate = c}}
    BY <2>1
  <2> HIDE DEF r, bs, I, low, B, line
  <2>6. parts = {line(b) : b \in B}
    BY <2>3, <2>4, <2>5
  <2> HIDE DEF parts
  <2> QED  BY <2>2, <2>6
<1>8. \A b \in B : q[b] \in Nat
  BY <1>6, ScaledType
<1>9. Renames(votes, parts, q, B, r)
  <2>1. \A y, z \in B : r[y] = r[z] => y = z
    OBVIOUS
  <2>2. \A y \in B : votes[r[y]] = q[y]
    <3>1. \A y \in B : r[y] \in parts /\ r[y].votes = q[y]
      BY <1>7
    <3> HIDE DEF parts, r, q
    <3> QED  BY <3>1
  <2> HIDE DEF parts, r, q, votes, B
  <2> QED  BY <1>7, <1>8, <2>1, <2>2 DEF Renames
<1>10. /\ sum = SumFunctionOnSet(q, B)
       /\ Cardinality(parts) = Cardinality(B)
       /\ parts # {} <=> B # {}
  <2>1. SumFunctionOnSet(votes, parts) = SumFunctionOnSet(q, B) /\ Cardinality(parts) = Cardinality(B)
    <3> HIDE DEF votes, parts, q, B, r
    <3> QED  BY <1>5, <1>9, SumRenamed
  <2>2. sum = SumFunctionOnSet(votes, parts)
    <3> HIDE DEF parts
    <3> QED  BY DEF SumFunction
  <2>3. parts # {} <=> B # {}
    <3> HIDE DEF parts, B, r
    <3> QED  BY <1>7
  <2> HIDE DEF votes, parts, q, B, sum
  <2> QED  BY <2>1, <2>2, <2>3
<1>11. B # {} => /\ SumFunctionOnSet(q, B) <= agg[key]
                 /\ agg[key] - SumFunctionOnSet(q, B) < Cardinality(B)
                 /\ ~low => agg[key] = SumFunctionOnSet(q, B)
  <2> SUFFICES ASSUME B # {}
               PROVE  /\ SumFunctionOnSet(q, B) <= agg[key]
                      /\ agg[key] - SumFunctionOnSet(q, B) < Cardinality(B)
                      /\ ~low => agg[key] = SumFunctionOnSet(q, B)
    OBVIOUS
  <2>1. CASE ~low
    <3>1. \A b \in B : w[b] \in Int /\ q[b] = w[b]
      BY <1>6, <2>1
    <3>2. Cardinality(B) \in Nat /\ Cardinality(B) # 0
      BY <1>5, FS_CardinalityType, FS_EmptySet
    <3> HIDE DEF w, q, B, key, low, agg
    <3>3. SumFunctionOnSet(q, B) = SumFunctionOnSet(w, B)
      BY <1>5, <3>1, SumSame
    <3>4. agg[key] = SumFunctionOnSet(q, B)
      BY <1>4, <1>6, <2>1, <3>3
    <3> QED  BY <1>6, <3>2, <3>3, <3>4
  <2>2. CASE low
    <3>1. \A b \in B : w[b] \in Nat /\ q[b] = (w[b] * RateNum) \div RateDen
      BY <1>6, <2>2 DEF Scaled
    <3>2. RateNum \in Nat /\ RateDen \in Nat \ {0}
      BY StakingVotesAssumption
    <3> HIDE DEF w, q, B, key, low, agg
    <3>3. agg[key] = (SumFunctionOnSet(w, B) * RateNum) \div RateDen
      BY <1>4, <1>6, <2>2 DEF Scaled
    <3> QED  BY <1>5, <2>2, <3>1, <3>2, <3>3, SumOfQuotients
  <2> QED  BY <2>1, <2>2
<1> HIDE DEF sum, parts, B, low, q, agg, key
<1>12. /\ parts # {} <=> key \in DOMAIN agg
       /\ parts # {} =>
            /\ sum <= agg[key]
            /\ agg[key] - sum < Cardinality(parts)
            /\ c \notin stakingProbationListToMap(QueryCandidates(e), getProbationList(e)) => agg[key] = sum
  BY <1>1, <1>3, <1>4, <1>10, <1>11 DEF getProbationList, list
<1> QED  BY <1>12 DEF parts, sum, votes, agg, key

(* The two answers to how many votes a voter gave a delegate agree, for    *)
(* any weights and any rate (updateAggregateStaking and                    *)
(* getStakingBucketInfoByEpoch).                                           *)
THEOREM VotesAlwaysAgree == Spec => []VotesAgree
BY VotesSame, VotesInvariant, PTL

(* The voters of a delegate share no more than its total, and rounding     *)
(* loses less than one vote per voter (filterStakingCandidates and         *)
(* updateAggregateStaking).                                                *)
THEOREM VotersStayWithinTotal == Spec => []VotersWithinTotal
BY VotersWithin, VotesInvariant, PTL

(* The types of the variables.                                             *)
LEMMA VotesTyped == VInv => TypeOK
<1> SUFFICES ASSUME VInv  PROVE TypeOK
  OBVIOUS
<1>1. /\ buckets \in SUBSET Versions
      /\ operator \in [Candidates -> Operators \cup {Nobody}]
      /\ ops \in 0 .. MaxOps /\ created \in 0 .. MaxBuckets
      /\ selfBucket \in [Candidates -> 0 .. created]
  BY DEF VInv, NodeFormed
<1>2. selfBucket \in [Candidates -> 0 .. MaxBuckets]
  <2>1. 0 .. created \subseteq 0 .. MaxBuckets
    BY <1>1, StakingVotesAssumption
  <2> QED  BY <1>1, <2>1
<1>3. history \in Seq(NodeStates) /\ indexed \in 1 .. Len(history)
  <2>1. IsRows(history)
    BY DEF VInv, IInv, Finite, IsRows
  <2>2. Len(history) \in Nat /\ DOMAIN history = 1 .. Len(history)
    BY <2>1, RowsRange
  <2>3. \A e \in 1 .. Len(history) : history[e] \in NodeStates
    BY DEF VInv, HistoryFormed, StateFormed
  <2>4. history \in [1 .. Len(history) -> NodeStates]
    <3>1. history \in [1 .. Len(history) -> Range(history)]
      BY <2>1, LenProperties DEF IsRows
    <3> QED  BY <2>3, <3>1
  <2> QED  BY <2>2, <2>4, SeqDef DEF VInv, IInv, Positions
<1>4. /\ IsRows(staking_bucket) /\ IsRows(staking_candidate)
      /\ Len(staking_bucket) \in Nat /\ DOMAIN staking_bucket = 1 .. Len(staking_bucket)
      /\ Len(staking_candidate) \in Nat /\ DOMAIN staking_candidate = 1 .. Len(staking_candidate)
  BY RowsRange DEF VInv, IInv, ArchiveFormed
<1>5. staking_bucket \in Seq(Versions)
  <2>1. ASSUME NEW i \in 1 .. Len(staking_bucket)
        PROVE  staking_bucket[i] \in Versions
    <3>1. PICK f \in IndexedEpochs : i \in height_to_bucket[f]
      BY <1>4 DEF VInv, RowsOrdered
    <3>2. staking_bucket[i] \in QueryVoteBuckets(f)
      BY <3>1 DEF QueryVoteBuckets, GetVersions
    <3> QED  BY <3>2, ArchivedBuckets
  <2>2. staking_bucket \in [1 .. Len(staking_bucket) -> Range(staking_bucket)]
    BY <1>4, LenProperties DEF IsRows
  <2>3. staking_bucket \in [1 .. Len(staking_bucket) -> Versions]
    BY <2>1, <2>2
  <2> QED  BY <1>4, <2>3, SeqDef
<1>6. staking_candidate \in Seq(CandidateVersions)
  <2>1. staking_candidate \in [1 .. Len(staking_candidate) -> Range(staking_candidate)]
    BY <1>4, LenProperties DEF IsRows
  <2>2. staking_candidate \in [1 .. Len(staking_candidate) -> CandidateVersions]
    BY <2>1 DEF VInv, RowsOrdered
  <2> QED  BY <1>4, <2>2, SeqDef
<1>7. /\ height_to_bucket \in [Epochs -> SUBSET DOMAIN staking_bucket]
      /\ height_to_candidate \in [Epochs -> SUBSET DOMAIN staking_candidate]
  BY <1>4 DEF VInv, IInv, ArchiveFormed
<1>8. probation_list \in [Epochs -> SUBSET Operators]
  BY DEF VInv, TablesExact
<1> QED  BY <1>1, <1>2, <1>3, <1>5, <1>6, <1>7, <1>8 DEF TypeOK

(* The variables have their types; what the archive lists are ids of rows. *)
THEOREM TypeCorrect == Spec => []TypeOK
BY VotesTyped, VotesInvariant, PTL

-------------------------------------------------------------------------------
(* The queries over the tables of both eras (Votings).  All they rest on,  *)
(* of an epoch, is that its meta data is that of its rows, and that its    *)
(* delegates on probation are those with an operator on the list.          *)
Row(e, c) == voting_result[e][c]

EpochAgrees(e) ==
  /\ voting_meta[e].delegate_count = Cardinality(DOMAIN voting_result[e])
  /\ voting_meta[e].total_weighted
       = SumFunction([c \in DOMAIN voting_result[e] |-> voting_result[e][c].votes])
  /\ \A c \in DOMAIN voting_result[e] :
       OnProbation(c, e) <=> Row(e, c).operator \in getProbationList(e)

(* The last epoch of some that include it.                                 *)
LEMMA LastIsMax ==
  ASSUME NEW n \in Nat, NEW E, E \subseteq 1 .. n, n \in E
  PROVE  Max(E) = n
<1>1. IsFiniteSet(1 .. n) /\ E \subseteq Int
  BY FS_Interval
<1>2. IsFiniteSet(E)
  BY <1>1, FS_Subset
<1>3. Max(E) \in E /\ Max(E) >= n
  BY <1>1, <1>2, GreatestIsMax
<1>4. Max(E) \in 1 .. n
  BY <1>3
<1> QED  BY <1>3, <1>4

LEMMA LeastOfPair ==
  ASSUME NEW m \in Int, NEW n \in Int
  PROVE  Min({m, n}) = IF m <= n THEN m ELSE n
BY DEF Min

LEMMA IndexedRange ==
  ASSUME indexed \in Nat, NEW start \in Nat, NEW count \in Nat,
         start + count - 1 <= indexed
  PROVE  IndexedFrom(start, count) = start .. start + count - 1
<1>1. Min({start + count - 1, indexed}) = start + count - 1
  BY LeastOfPair
<1> QED  BY <1>1 DEF IndexedFrom

(* GetCandidates, GetCandidateMeta and GetStaking.                         *)
LEMMA RangeAgrees ==
  ASSUME indexed \in Nat, NEW start \in Nat, NEW count \in Nat,
         start + count - 1 <= indexed,
         \A e \in start .. start + count - 1 : EpochAgrees(e)
  PROVE  RangesAgree(start, count)
<1> SUFFICES ASSUME NEW e \in start .. start + count - 1
             PROVE  LET listed == GetCandidates(start, count)[e]
                        meta   == GetCandidateMeta(start, count)[e]
                    IN  /\ meta.delegate_count = Cardinality(DOMAIN listed)
                        /\ meta.total_weighted = SumFunction([c \in DOMAIN listed |-> listed[c].votes])
                        /\ \A c \in DOMAIN listed : GetStaking(start, count, c)[e] = listed[c].votes
  BY IndexedRange DEF RangesAgree
<1>1. GetCandidates(start, count)[e] = voting_result[e] /\ GetCandidateMeta(start, count)[e] = voting_meta[e]
  BY IndexedRange DEF GetCandidates, GetCandidateMeta
<1>2. \A c \in DOMAIN voting_result[e] : GetStaking(start, count, c)[e] = voting_result[e][c].votes
  BY IndexedRange DEF GetStaking, EpochsOf
<1> QED  BY <1>1, <1>2 DEF EpochAgrees

(* GetProbationHistoricalRate, of a delegate listed throughout.            *)
LEMMA RateAgrees ==
  ASSUME indexed \in Nat, NEW start \in Nat \ {0}, NEW count \in Nat,
         start + count - 1 <= indexed,
         \A e \in start .. start + count - 1 : EpochAgrees(e)
  PROVE  RateCountsScaledEpochs(start, count)
<1> DEFINE E == start .. start + count - 1
<1> SUFFICES ASSUME NEW c \in Candidates, getAppearingCount(start, count, c) = count
             PROVE  ProbationCount(start, count, c) = Cardinality({e \in E : OnProbation(c, e)})
  BY DEF RateCountsScaledEpochs
<1>1. IsFiniteSet(E) /\ Cardinality(E) = count
  BY FS_Interval
<1>2. IndexedFrom(start, count) = E
  BY IndexedRange
<1>3. \A e \in E : c \in DOMAIN voting_result[e]
  <2>1. EpochsOf(start, count, c) \subseteq E /\ Cardinality(EpochsOf(start, count, c)) = Cardinality(E)
    BY <1>1, <1>2 DEF EpochsOf, getAppearingCount
  <2>2. EpochsOf(start, count, c) = E
    <3> HIDE DEF E
    <3> QED  BY <1>1, <2>1, FS_Subset
  <2> QED  BY <2>2, <1>2 DEF EpochsOf
<1>4. ASSUME NEW e \in E
      PROVE  /\ \E f \in 1 .. e : c \in DOMAIN voting_result[f]
             /\ getOperatorAddress(c, e) = Row(e, c).operator
             /\ getOperatorAddress(c, e) \in getProbationList(e) <=> OnProbation(c, e)
  <2>1. e \in Nat /\ e \in 1 .. e
    OBVIOUS
  <2>2. Max({f \in 1 .. e : c \in DOMAIN voting_result[f]}) = e
    BY <1>3, <2>1, LastIsMax
  <2> QED  BY <1>3, <2>1, <2>2 DEF getOperatorAddress, Row, EpochAgrees
<1>5. {e \in E : /\ \E f \in 1 .. e : c \in DOMAIN voting_result[f]
                 /\ getOperatorAddress(c, e) \in getProbationList(e)}
        = {e \in E : OnProbation(c, e)}
  <2> HIDE DEF E
  <2> QED  BY <1>4
<1> HIDE DEF E
<1> QED  BY <1>2, <1>5 DEF ProbationCount

(* GetAlias and GetOperatorAddress.                                        *)
LEMMA AliasAgrees ==
  ASSUME indexed \in Nat \ {0}
  PROVE  AliasesAgree
<1> SUFFICES ASSUME NEW c \in DOMAIN voting_result[indexed]
             PROVE  LET o == GetOperatorAddress(c)
                    IN  GetAlias(o) = {d \in DOMAIN voting_result[indexed] : voting_result[indexed][d].operator = o}
  BY DEF AliasesAgree
<1> DEFINE o == GetOperatorAddress(c)
           names(e) == {d \in DOMAIN voting_result[e] : voting_result[e][d].operator = o}
<1>1. indexed \in 1 .. indexed
  OBVIOUS
<1>2. o = Row(indexed, c).operator
  <2>1. Max({f \in 1 .. indexed : c \in DOMAIN voting_result[f]}) = indexed
    BY <1>1, LastIsMax
  <2> QED  BY <2>1 DEF GetOperatorAddress, getOperatorAddress, Row
<1>3. Max({e \in 1 .. indexed : names(e) # {}}) = indexed
  <2>1. c \in names(indexed)
    BY <1>2 DEF Row
  <2> HIDE DEF names
  <2>2. indexed \in {e \in 1 .. indexed : names(e) # {}}
    BY <1>1, <2>1
  <2> QED  BY <2>2, LastIsMax
<1>4. GetAlias(o) = names(Max({e \in 1 .. indexed : names(e) # {}}))
  BY DEF GetAlias
<1> QED  BY <1>3, <1>4

LEMMA QueriesAgree ==
  ASSUME indexed \in Nat \ {0}, \A e \in IndexedEpochs : EpochAgrees(e)
  PROVE  VotingQueriesAgree
<1>1. ASSUME NEW start \in IndexedEpochs, NEW count \in 1 .. indexed - start + 1
      PROVE  RateCountsScaledEpochs(start, count) /\ RangesAgree(start, count)
  <2>1. start \in Nat \ {0} /\ count \in Nat /\ start + count - 1 <= indexed
    BY DEF IndexedEpochs
  <2>2. \A e \in start .. start + count - 1 : EpochAgrees(e)
    BY <2>1 DEF IndexedEpochs
  <2> QED  BY <2>1, <2>2, RangeAgrees, RateAgrees
<1> QED  BY <1>1, AliasAgrees DEF VotingQueriesAgree

(* Since Fairbank: an entry of the filtered list for each candidate.       *)
LEMMA NativeAgrees ==
  ASSUME VInv, era = "native", NEW e \in IndexedEpochs
  PROVE  EpochAgrees(e)
<1> DEFINE bs == GetAllStakingBuckets(e - 1)
           cs == GetAllStakingCandidates(e - 1)
           list == probation_list[e]
           filtered == filterStakingCandidates(cs, list)
           F == [x \in cs |-> IF x.operator \in list THEN [x EXCEPT !.votes = Scaled(@)] ELSE x]
           owner == [x \in cs |-> x.owner]
           low == [x \in cs |-> Lowered(x, list)]
           listed == [c \in DOMAIN voting_result[e] |-> voting_result[e][c].votes]
           given == [x \in filtered |-> x.votes]
<1>1. /\ cs \in SUBSET CandidateVersions
      /\ \A x, y \in cs : x.owner = y.owner => x = y
      /\ \A x \in cs : x.votes \in Nat
      /\ QueryCandidates(e) = cs
      /\ voting_result[e] = StakingResult(filtered)
      /\ DOMAIN voting_result[e] = {x.owner : x \in cs}
  BY EpochFacts
<1>2. IsFiniteSet(cs)
  <2>1. e - 1 \in 1 .. Len(history)
    BY DEF IndexedEpochs, VInv, IInv, Positions
  <2>2. IsFiniteSet(history[e - 1].candidates)
    BY <2>1 DEF VInv, IInv, Finite
  <2> QED  BY <2>2, FS_Subset DEF GetAllStakingCandidates
<1>3. voting_meta[e] = VotingMeta(bs, filtered)
  BY DEF VInv, TablesExact, FilteredOf
<1>4. filtered = {F[x] : x \in cs}
  <2> HIDE DEF cs, list
  <2> QED  BY DEF filterStakingCandidates
<1>5. ASSUME NEW x \in cs
      PROVE  /\ F[x].owner = x.owner /\ F[x].votes = low[x] /\ low[x] \in Nat
             /\ F[x] \in filtered
             /\ listed[x.owner] = low[x] /\ x.owner \in DOMAIN voting_result[e]
             /\ voting_result[e][x.owner].operator = x.operator
             /\ x.owner \in stakingProbationListToMap(cs, list) <=> x.operator \in list
  <2>1. F[x].owner = x.owner /\ F[x].votes = low[x]
    BY <1>1 DEF CandidateVersions, Lowered
  <2>2. low[x] \in Nat
    BY <1>1, ScaledType DEF Lowered
  <2> HIDE DEF F, cs, list
  <2>3. /\ StakingResult(filtered)[x.owner].votes = Lowered(x, list)
        /\ StakingResult(filtered)[x.owner].operator = x.operator
        /\ x.owner \in stakingProbationListToMap(cs, list) <=> x.operator \in list
    <3>1. cs \in SUBSET CandidateVersions /\ \A y, z \in cs : y.owner = z.owner => y = z
      BY <1>1
    <3>2. /\ StakingResult(filterStakingCandidates(cs, list))[x.owner].votes = Lowered(x, list)
          /\ StakingResult(filterStakingCandidates(cs, list))[x.owner].operator = x.operator
          /\ x.owner \in stakingProbationListToMap(cs, list) <=> x.operator \in list
      BY <3>1, FilterKeeps
    <3> QED  BY <3>2
  <2> HIDE DEF filtered, low
  <2> QED  BY <1>1, <1>4, <2>1, <2>2, <2>3 DEF low
<1>6. Renames(listed, DOMAIN voting_result[e], low, cs, owner)
  <2> HIDE DEF cs, list, F, filtered, low, listed
  <2>1. \A x \in cs : owner[x] = x.owner
    OBVIOUS
  <2> HIDE DEF owner
  <2>2. DOMAIN voting_result[e] = {owner[x] : x \in cs}
    BY <1>1, <2>1
  <2>3. \A x, y \in cs : owner[x] = owner[y] => x = y
    BY <1>1, <2>1
  <2>4. \A x \in cs : low[x] \in Int /\ listed[owner[x]] = low[x]
    BY <1>5, <2>1
  <2> QED  BY <2>2, <2>3, <2>4 DEF Renames
<1>7. Renames(given, filtered, low, cs, F)
  <2> HIDE DEF cs, list, F, filtered, low, listed
  <2>1. \A x, y \in cs : F[x] = F[y] => x = y
    BY <1>1, <1>5
  <2>2. \A x \in cs : low[x] \in Int /\ given[F[x]] = low[x]
    BY <1>5
  <2> HIDE DEF given
  <2> QED  BY <1>4, <2>1, <2>2 DEF Renames
<1>8. /\ SumFunctionOnSet(listed, DOMAIN voting_result[e]) = SumFunctionOnSet(given, filtered)
      /\ Cardinality(DOMAIN voting_result[e]) = Cardinality(filtered)
  <2> HIDE DEF listed, low, cs, owner, given, filtered, F
  <2> QED  BY <1>2, <1>6, <1>7, SumRenamed
<1>9. /\ voting_meta[e].delegate_count = Cardinality(filtered)
      /\ voting_meta[e].total_weighted = SumFunction(given)
  <2> HIDE DEF filtered
  <2> QED  BY <1>3 DEF VotingMeta
<1>10. /\ SumFunction(given) = SumFunctionOnSet(given, filtered)
       /\ SumFunction(listed) = SumFunctionOnSet(listed, DOMAIN voting_result[e])
  <2> HIDE DEF filtered
  <2> QED  BY DEF SumFunction
<1>11. ASSUME NEW c \in DOMAIN voting_result[e]
       PROVE  OnProbation(c, e) <=> Row(e, c).operator \in getProbationList(e)
  <2>1. PICK x \in cs : x.owner = c
    BY <1>1
  <2>2. OnProbation(c, e) <=> c \in stakingProbationListToMap(cs, list)
    BY <1>1 DEF OnProbation, getProbationList
  <2> HIDE DEF cs, list
  <2> QED  BY <1>5, <2>1, <2>2 DEF Row, getProbationList, list
<1> HIDE DEF filtered, given
<1> QED  BY <1>8, <1>9, <1>10, <1>11 DEF EpochAgrees, listed

-------------------------------------------------------------------------------
(* The votes before Fairbank.  A vote is a ballot and what it counts.      *)
CountedVotes(V) ==
  /\ IsFiniteSet(V) /\ V \subseteq [ballot : Ballots, votes : Nat]
  /\ \A v, w \in V : v.ballot = w.ballot => v = w

VotesIn(V) == [v \in V |-> v.votes]

LEMMA SumOfVotes ==
  ASSUME NEW V, CountedVotes(V), NEW W, W \subseteq V
  PROVE  /\ CountedVotes(W) /\ IsFiniteSet(W)
         /\ Sum(W) = SumFunctionOnSet(VotesIn(V), W)
         /\ Sum(W) \in Nat
         /\ \A v \in W : VotesIn(V)[v] \in Nat /\ VotesIn(V)[v] = v.votes
<1>1. IsFiniteSet(W) /\ CountedVotes(W)
  BY FS_Subset DEF CountedVotes
<1>2. \A v \in W : /\ VotesIn(V)[v] \in Nat /\ VotesIn(V)[v] = v.votes
                   /\ VotesIn(W)[v] \in Nat /\ VotesIn(W)[v] = v.votes
  BY DEF CountedVotes, VotesIn
<1>3. Sum(W) = SumFunctionOnSet(VotesIn(W), W)
  BY DEF Sum, VotesIn, SumFunction
<1>4. SumFunctionOnSet(VotesIn(W), W) = SumFunctionOnSet(VotesIn(V), W)
  BY <1>1, <1>2, SumSame
<1>5. SumFunctionOnSet(VotesIn(V), W) \in Nat
  BY <1>1, <1>2, SumOfNats
<1> QED  BY <1>1, <1>2, <1>3, <1>4, <1>5

(* Buckets become votes one by one.                                        *)
LEMMA VotesAreCounted ==
  ASSUME NEW bs, IsFiniteSet(bs), bs \subseteq Ballots, NEW now
  PROVE  /\ CountedVotes(Votes(bs, now))
         /\ \A v \in Votes(bs, now) : v.ballot \in bs
<1> DEFINE f == [b \in bs |-> [ballot |-> b, votes |-> calcWeightedVotes(b, now)]]
           V == Votes(bs, now)
<1>1. ASSUME NEW b \in bs
      PROVE  calcWeightedVotes(b, now) \in Nat
  <2>1. b.amount \in Nat /\ BonusNum \in Nat
    BY StakingVotesAssumption DEF Ballots
  <2>2. b.amount * BonusNum \in Nat
    BY <2>1
  <2>3. (b.amount * BonusNum) \div BonusDen \in Nat
    BY <2>2, StakingVotesAssumption, Quotient
  <2> QED  BY <2>1, <2>3 DEF calcWeightedVotes
<1>2. V = {f[b] : b \in bs} /\ f \in [bs -> V]
  BY DEF Votes
<1>3. IsFiniteSet(V)
  <2>1. f \in Surjection(bs, V)
    <3> HIDE DEF f, V
    <3> QED  BY <1>2 DEF Surjection
  <2> HIDE DEF f, V
  <2> QED  BY <2>1, FS_Surjection
<1>4. \A b \in bs : f[b] \in [ballot : Ballots, votes : Nat] /\ f[b].ballot = b
  BY <1>1
<1> HIDE DEF f, V
<1>5. V \subseteq [ballot : Ballots, votes : Nat]
  BY <1>2, <1>4
<1>6. ASSUME NEW v \in V
      PROVE  v.ballot \in bs /\ v = f[v.ballot]
  BY <1>2, <1>4
<1> QED  BY <1>3, <1>5, <1>6 DEF CountedVotes, V

(* Votes of different ballots add up.                                      *)
LEMMA VotesAddUp ==
  ASSUME NEW V, CountedVotes(V), NEW W, CountedVotes(W),
         \A v \in V : ~v.ballot.native, \A w \in W : w.ballot.native,
         NEW c
  PROVE  /\ CountedVotes(V \cup W)
         /\ Sum(For(V \cup W, c)) = Sum(For(V, c)) + Sum(For(W, c))
<1> DEFINE A == V \cup W
<1>1. CountedVotes(A)
  <2>1. IsFiniteSet(A)
    BY FS_Union DEF CountedVotes
  <2>2. \A v, w \in A : v.ballot = w.ballot => v = w
    BY DEF CountedVotes
  <2> QED  BY <2>1, <2>2 DEF CountedVotes
<1>2. /\ For(A, c) = For(V, c) \cup For(W, c) /\ For(V, c) \cap For(W, c) = {}
      /\ For(V, c) \subseteq V /\ For(W, c) \subseteq W /\ For(A, c) \subseteq A
      /\ For(V, c) \subseteq A /\ For(W, c) \subseteq A
  BY DEF For
<1> HIDE DEF A
<1>3. /\ Sum(For(A, c)) = SumFunctionOnSet(VotesIn(A), For(A, c))
      /\ \A v \in For(A, c) : VotesIn(A)[v] \in Nat
  BY <1>1, <1>2, SumOfVotes
<1>4. /\ Sum(For(V, c)) = SumFunctionOnSet(VotesIn(A), For(V, c)) /\ IsFiniteSet(For(V, c))
      /\ Sum(For(W, c)) = SumFunctionOnSet(VotesIn(A), For(W, c)) /\ IsFiniteSet(For(W, c))
  BY <1>1, <1>2, SumOfVotes
<1>5. \A v \in For(V, c) \cup For(W, c) : VotesIn(A)[v] \in Int
  BY <1>2, <1>3
<1>6. SumFunctionOnSet(VotesIn(A), For(V, c) \cup For(W, c))
        = SumFunctionOnSet(VotesIn(A), For(V, c)) + SumFunctionOnSet(VotesIn(A), For(W, c))
  BY <1>2, <1>4, <1>5, SumOfUnion
<1> QED  BY <1>1, <1>2, <1>3, <1>4, <1>6 DEF A

-------------------------------------------------------------------------------
(* The raw data of an epoch, and the result worked out from it.            *)
RawFormed(data) ==
  /\ data.regs \in [Candidates -> Operators \cup {Nobody}]
  /\ data.buckets \subseteq Ballots /\ \A b \in data.buckets : ~b.native
  /\ data.native \subseteq Ballots /\ \A b \in data.native : b.native
  /\ IsFiniteSet(data.buckets) /\ IsFiniteSet(data.native)

EthereumFrom(data, e) ==
  LET counted == {b \in data.buckets : b.amount >= VoteThreshold}
      votes   == Votes(counted, EthMintTime(e))
      elected == {c \in Candidates : /\ Sum(For(votes, c)) >= ScoreThreshold
                                     /\ SelfStakingTokens(counted, c) >= SelfStakingThreshold}
  IN  [delegates |-> {[name |-> c, operator |-> data.regs[c], score |-> Sum(For(votes, c))]
                        : c \in elected},
       votes |-> votes]

ResultFrom(data, e) ==
  IF data.native # {}
    THEN mergeResult(EthereumFrom(data, e), data.native, getLatestNativeMintTime(e))
    ELSE EthereumFrom(data, e)

LEMMA ResultOfRaw ==
  ASSUME NEW e
  PROVE  resultByHeight(e) = ResultFrom(raw[e], e)
BY DEF resultByHeight, ResultFrom, EthereumFrom, calculateEthereumStaking

(* One entry for each delegate, whose score is what its votes add up to.   *)
Entries == [name : Candidates, operator : Operators \cup {Nobody}, score : Nat]

ResultFormed(result) ==
  /\ CountedVotes(result.votes)
  /\ result.delegates \subseteq Entries
  /\ \A d, x \in result.delegates : d.name = x.name => d = x
  /\ \A d \in result.delegates : d.score = Sum(For(result.votes, d.name))

LEMMA ForType ==
  ASSUME NEW V, CountedVotes(V), NEW c
  PROVE  Sum(For(V, c)) \in Nat
<1>1. For(V, c) \subseteq V
  BY DEF For
<1> QED  BY <1>1, SumOfVotes

LEMMA EthereumIsFormed ==
  ASSUME NEW data, RawFormed(data), NEW e
  PROVE  /\ ResultFormed(EthereumFrom(data, e))
         /\ \A v \in EthereumFrom(data, e).votes : ~v.ballot.native
<1> DEFINE bs == {b \in data.buckets : b.amount >= VoteThreshold}
           votes == Votes(bs, EthMintTime(e))
           entry(c) == [name |-> c, operator |-> data.regs[c], score |-> Sum(For(votes, c))]
           elected == {c \in Candidates : /\ Sum(For(votes, c)) >= ScoreThreshold
                                          /\ SelfStakingTokens(bs, c) >= SelfStakingThreshold}
           result == EthereumFrom(data, e)
<1>1. IsFiniteSet(bs) /\ bs \subseteq Ballots /\ \A b \in bs : ~b.native
  BY FS_Subset DEF RawFormed
<1>2. CountedVotes(votes) /\ \A v \in votes : v.ballot \in bs
  <2> HIDE DEF bs
  <2> QED  BY <1>1, VotesAreCounted
<1>3. result.votes = votes /\ result.delegates = {entry(c) : c \in elected}
  BY DEF EthereumFrom
<1>4. \A v \in votes : ~v.ballot.native
  BY <1>1, <1>2
<1> HIDE DEF votes, result
<1>5. ASSUME NEW c \in Candidates
      PROVE  entry(c) \in Entries
  BY <1>2, ForType DEF Entries, RawFormed
<1>6. \A c : entry(c).name = c /\ entry(c).score = Sum(For(votes, c))
  OBVIOUS
<1> HIDE DEF entry
<1>7. elected \subseteq Candidates
  OBVIOUS
<1> HIDE DEF elected
<1>8. result.delegates \subseteq Entries
  BY <1>3, <1>5, <1>7
<1>9. \A d, x \in result.delegates : d.name = x.name => d = x
  BY <1>3, <1>6
<1>10. \A d \in result.delegates : d.score = Sum(For(result.votes, d.name))
  BY <1>3, <1>6
<1> QED  BY <1>2, <1>3, <1>4, <1>8, <1>9, <1>10 DEF ResultFormed, result

LEMMA MergedIsFormed ==
  ASSUME NEW result, ResultFormed(result), \A v \in result.votes : ~v.ballot.native,
         NEW bs, IsFiniteSet(bs), bs \subseteq Ballots, \A b \in bs : b.native, NEW now
  PROVE  ResultFormed(mergeResult(result, bs, now))
<1> DEFINE native == Votes(bs, now)
           total(d) == d.score + Sum(For(native, d.name))
           all == result.votes \cup native
           elected == {x \in result.delegates : total(x) >= ScoreThreshold}
           entry(d) == [d EXCEPT !.score = total(d)]
           merged == mergeResult(result, bs, now)
<1>1. merged.delegates = {entry(d) : d \in elected} /\ merged.votes = all
  BY DEF mergeResult
<1>2. CountedVotes(native) /\ \A v \in native : v.ballot.native
  BY VotesAreCounted
<1> HIDE DEF native, merged
<1>3. CountedVotes(result.votes)
  BY DEF ResultFormed
<1>4. CountedVotes(all) /\ \A c : Sum(For(all, c)) = Sum(For(result.votes, c)) + Sum(For(native, c))
  BY <1>2, <1>3, VotesAddUp
<1> HIDE DEF all
<1>5. ASSUME NEW d \in result.delegates
      PROVE  /\ entry(d) \in Entries /\ entry(d).name = d.name
             /\ entry(d).score = Sum(For(all, d.name))
  <2>1. d \in Entries /\ d.score = Sum(For(result.votes, d.name))
    BY DEF ResultFormed
  <2>2. Sum(For(native, d.name)) \in Nat
    BY <1>2, ForType
  <2>3. total(d) \in Nat /\ total(d) = Sum(For(all, d.name))
    BY <1>4, <2>1, <2>2 DEF Entries
  <2> HIDE DEF total
  <2> QED  BY <2>1, <2>3 DEF Entries
<1> HIDE DEF entry, total
<1>6. merged.delegates \subseteq Entries
  BY <1>1, <1>5
<1>7. \A d, x \in merged.delegates : d.name = x.name => d = x
  BY <1>1, <1>5 DEF ResultFormed
<1>8. \A d \in merged.delegates : d.score = Sum(For(merged.votes, d.name))
  BY <1>1, <1>5
<1> QED  BY <1>1, <1>4, <1>6, <1>7, <1>8 DEF ResultFormed, merged

LEMMA ResultIsFormed ==
  ASSUME NEW data, RawFormed(data), NEW e
  PROVE  ResultFormed(ResultFrom(data, e))
<1>1. ResultFormed(EthereumFrom(data, e)) /\ \A v \in EthereumFrom(data, e).votes : ~v.ballot.native
  BY EthereumIsFormed
<1>2. CASE data.native # {}
  <2>1. ResultFormed(mergeResult(EthereumFrom(data, e), data.native, getLatestNativeMintTime(e)))
    BY <1>1, MergedIsFormed DEF RawFormed
  <2> QED  BY <1>2, <2>1 DEF ResultFrom
<1>3. CASE data.native = {}
  BY <1>1, <1>3 DEF ResultFrom
<1> QED  BY <1>2, <1>3

-------------------------------------------------------------------------------
(* What probation makes of the delegates: an entry may be lowered, and may *)
(* be missing if another one has its operator.                             *)
LoweredEntry(d, list) == IF d.operator \in list THEN [d EXCEPT !.score = Scaled(@)] ELSE d

Alone(d, delegates) == \A x \in delegates : x.operator = d.operator => x = d

KeptFrom(kept, delegates, list) ==
  /\ \A d \in kept : \E x \in delegates : d = LoweredEntry(x, list)
  /\ \A x \in delegates : Alone(x, delegates) => LoweredEntry(x, list) \in kept

LEMMA FilterKeepsSome ==
  ASSUME NEW delegates, delegates \subseteq Entries, NEW list,
         NEW kept \in filterCandidates(delegates, list)
  PROVE  KeptFrom(kept, delegates, list)
<1> DEFINE same(d) == {x \in delegates : x.operator = d.operator}
           lowest == {d \in delegates : \A x \in same(d) : d.score <= x.score}
           scale(d) == IF d.operator \in list THEN [d EXCEPT !.score = Scaled(@)] ELSE d
<1>1. PICK S \in SUBSET lowest : /\ \A d \in lowest : Cardinality(S \cap same(d)) = 1
                                 /\ kept = {scale(d) : d \in S}
  BY DEF filterCandidates
<1>2. \A d : scale(d) = LoweredEntry(d, list)
  BY DEF LoweredEntry
<1> HIDE DEF scale
<1>3. \A d \in kept : \E x \in delegates : d = LoweredEntry(x, list)
  BY <1>1, <1>2
<1>4. ASSUME NEW x \in delegates, Alone(x, delegates)
      PROVE  LoweredEntry(x, list) \in kept
  <2>1. same(x) = {x}
    BY <1>4 DEF Alone
  <2>2. x \in lowest
    <3>1. x.score <= x.score
      BY DEF Entries
    <3> QED  BY <2>1, <3>1
  <2>3. Cardinality(S \cap {x}) = 1
    BY <1>1, <2>1, <2>2
  <2>4. S \cap {x} # {}
    BY <2>3, FS_EmptySet
  <2> QED  BY <1>1, <1>2, <2>4
<1> QED  BY <1>3, <1>4 DEF KeptFrom

LEMMA NoFilterKeepsAll ==
  ASSUME NEW delegates
  PROVE  KeptFrom(delegates, delegates, {})
BY DEF KeptFrom, LoweredEntry

(* The rows of the delegates that are kept.                                *)
RowsOf(rows, kept, result, list) ==
  /\ IsFiniteSet(kept) /\ kept \subseteq Entries
  /\ \A d, x \in kept : d.name = x.name => d = x
  /\ DOMAIN rows = {d.name : d \in kept}
  /\ \A d \in kept : /\ rows[d.name].votes = d.score /\ rows[d.name].operator = d.operator
                     /\ \E x \in result.delegates :
                          /\ x.name = d.name /\ x.operator = d.operator
                          /\ d.score = IF x.operator \in list THEN Scaled(x.score) ELSE x.score
  /\ \A x \in result.delegates : Alone(x, result.delegates) => x.name \in DOMAIN rows

LEMMA KeptFacts ==
  ASSUME NEW result, ResultFormed(result), NEW list,
         NEW kept, KeptFrom(kept, result.delegates, list)
  PROVE  RowsOf(VotingResult(kept), kept, result, list)
<1>1. ASSUME NEW x \in result.delegates
      PROVE  /\ LoweredEntry(x, list) \in Entries
             /\ LoweredEntry(x, list).name = x.name /\ LoweredEntry(x, list).operator = x.operator
             /\ LoweredEntry(x, list).score = IF x.operator \in list THEN Scaled(x.score) ELSE x.score
  <2>1. x \in Entries
    BY DEF ResultFormed
  <2>2. Scaled(x.score) \in Nat
    BY <2>1, ScaledType DEF Entries
  <2> QED  BY <2>1, <2>2 DEF LoweredEntry, Entries
<1>2. \A d \in kept : \E x \in result.delegates : d = LoweredEntry(x, list)
  BY DEF KeptFrom
<1>3. kept \subseteq Entries
  BY <1>1, <1>2
<1>4. \A d, x \in kept : d.name = x.name => d = x
  <2> SUFFICES ASSUME NEW d \in kept, NEW x \in kept, d.name = x.name  PROVE d = x
    OBVIOUS
  <2>1. PICK y \in result.delegates : d = LoweredEntry(y, list)
    BY <1>2
  <2>2. PICK z \in result.delegates : x = LoweredEntry(z, list)
    BY <1>2
  <2>3. y = z
    BY <1>1, <2>1, <2>2 DEF ResultFormed
  <2> QED  BY <2>1, <2>2, <2>3
<1>5. IsFiniteSet(kept)
  <2> DEFINE n == [d \in kept |-> d.name]
  <2>1. n \in [kept -> Candidates] /\ \A d, x \in kept : n[d] = n[x] => d = x
    BY <1>3, <1>4 DEF Entries
  <2> HIDE DEF n
  <2>2. n \in Injection(kept, Candidates)
    BY <2>1 DEF Injection, IsInjective
  <2> QED  BY <2>2, StakingVotesAssumption, FS_Injection
<1>6. DOMAIN VotingResult(kept) = {d.name : d \in kept}
  BY DEF VotingResult
<1>7. ASSUME NEW d \in kept
      PROVE  /\ VotingResult(kept)[d.name].votes = d.score
             /\ VotingResult(kept)[d.name].operator = d.operator
             /\ \E x \in result.delegates :
                  /\ x.name = d.name /\ x.operator = d.operator
                  /\ d.score = IF x.operator \in list THEN Scaled(x.score) ELSE x.score
  <2>1. (CHOOSE x \in kept : x.name = d.name) = d
    BY <1>4
  <2>2. VotingResult(kept)[d.name] = [votes |-> d.score, operator |-> d.operator]
    BY <2>1 DEF VotingResult
  <2>3. PICK x \in result.delegates : d = LoweredEntry(x, list)
    BY <1>2
  <2> QED  BY <1>1, <2>2, <2>3
<1>8. ASSUME NEW x \in result.delegates, Alone(x, result.delegates)
      PROVE  x.name \in DOMAIN VotingResult(kept)
  <2>1. LoweredEntry(x, list) \in kept
    BY <1>8 DEF KeptFrom
  <2> QED  BY <1>1, <1>6, <2>1
<1> QED  BY <1>3, <1>4, <1>5, <1>6, <1>7, <1>8 DEF RowsOf

(* The tables of an epoch are those of its result and its probation list.  *)
TablesOf(result, list, rows, aggregate, meta) ==
  \E kept \in filterCandidates(result.delegates, list) \cup (IF list = {} THEN {result.delegates} ELSE {}) :
    /\ rows = VotingResult(kept)
    /\ aggregate = AggregateVoting(result.votes, kept, list)
    /\ meta = GravityMeta(result.votes, kept)

GravityEpoch(e) ==
  TablesOf(ResultFrom(raw[e], e), probation_list[e], voting_result[e], aggregate_voting[e], voting_meta[e])

GInv ==
  /\ indexed \in Nat \ {0} /\ indexed \in Epochs
  /\ ballots \subseteq Ballots /\ IsFiniteSet(ballots)
  /\ registrations \in [Candidates -> Operators \cup {Nobody}]
  /\ DOMAIN raw = Epochs /\ DOMAIN voting_result = Epochs
  /\ DOMAIN aggregate_voting = Epochs /\ DOMAIN voting_meta = Epochs
  /\ probation_list \in [Epochs -> SUBSET Operators]
  /\ \A e \in IndexedEpochs : RawFormed(raw[e]) /\ GravityEpoch(e)

(* What this gives of an indexed epoch.                                    *)
LEMMA GravityFacts ==
  ASSUME GInv, NEW e \in IndexedEpochs
  PROVE  /\ ResultFormed(resultByHeight(e))
         /\ \E kept : /\ KeptFrom(kept, resultByHeight(e).delegates, probation_list[e])
                      /\ voting_result[e] = VotingResult(kept)
                      /\ aggregate_voting[e] = AggregateVoting(resultByHeight(e).votes, kept, probation_list[e])
                      /\ voting_meta[e] = GravityMeta(resultByHeight(e).votes, kept)
<1> DEFINE result == resultByHeight(e)
           list == probation_list[e]
<1>1. RawFormed(raw[e]) /\ GravityEpoch(e)
  BY DEF GInv
<1>2. ResultFormed(result)
  BY <1>1, ResultOfRaw, ResultIsFormed
<1>3. PICK kept \in filterCandidates(result.delegates, list) \cup (IF list = {} THEN {result.delegates} ELSE {}) :
           /\ voting_result[e] = VotingResult(kept)
           /\ aggregate_voting[e] = AggregateVoting(result.votes, kept, list)
           /\ voting_meta[e] = GravityMeta(result.votes, kept)
  BY <1>1, ResultOfRaw DEF GravityEpoch, TablesOf
<1> HIDE DEF result, list
<1>4. KeptFrom(kept, result.delegates, list)
  <2>1. CASE kept \in filterCandidates(result.delegates, list)
    BY <1>2, <2>1, FilterKeepsSome DEF ResultFormed
  <2>2. CASE list = {} /\ kept = result.delegates
    BY <2>2, NoFilterKeepsAll
  <2> QED  BY <1>3, <2>1, <2>2
<1> QED  BY <1>2, <1>3, <1>4 DEF result, list

(* Before Fairbank: the rows, the meta data and the delegates on probation.*)
LEMMA GravityAgrees ==
  ASSUME GInv, era = "gravity", NEW e \in IndexedEpochs
  PROVE  EpochAgrees(e)
<1> DEFINE result == resultByHeight(e)
           list == probation_list[e]
<1>1. ResultFormed(result)
  BY GravityFacts
<1>2. PICK kept : /\ KeptFrom(kept, result.delegates, list)
                  /\ voting_result[e] = VotingResult(kept)
                  /\ voting_meta[e] = GravityMeta(result.votes, kept)
  BY GravityFacts
<1> DEFINE name == [d \in kept |-> d.name]
           score == [d \in kept |-> d.score]
           listed == [c \in DOMAIN voting_result[e] |-> voting_result[e][c].votes]
<1> HIDE DEF result, list
<1>3. /\ IsFiniteSet(kept) /\ kept \subseteq Entries
      /\ \A d, x \in kept : d.name = x.name => d = x
      /\ DOMAIN voting_result[e] = {d.name : d \in kept}
      /\ \A d \in kept : /\ voting_result[e][d.name].votes = d.score
                         /\ voting_result[e][d.name].operator = d.operator
                         /\ \E x \in result.delegates : x.name = d.name /\ x.operator = d.operator
  <2>1. RowsOf(VotingResult(kept), kept, result, list)
    BY <1>1, <1>2, KeptFacts
  <2>2. RowsOf(voting_result[e], kept, result, list)
    BY <1>2, <2>1
  <2> QED  BY <2>2 DEF RowsOf
<1>4. Renames(listed, DOMAIN voting_result[e], score, kept, name)
  <2>1. \A d \in kept : name[d] = d.name /\ score[d] = d.score /\ score[d] \in Int
    BY <1>3 DEF Entries
  <2>2. \A d \in kept : listed[d.name] = d.score
    BY <1>3
  <2> HIDE DEF listed, name, score
  <2>3. DOMAIN voting_result[e] = {name[d] : d \in kept}
    BY <1>3, <2>1
  <2>4. \A d, x \in kept : name[d] = name[x] => d = x
    BY <1>3, <2>1
  <2> QED  BY <2>1, <2>2, <2>3, <2>4 DEF Renames
<1>5. /\ SumFunctionOnSet(listed, DOMAIN voting_result[e]) = SumFunctionOnSet(score, kept)
      /\ Cardinality(DOMAIN voting_result[e]) = Cardinality(kept)
  <2> HIDE DEF listed, name, score
  <2> QED  BY <1>3, <1>4, SumRenamed
<1>6. /\ voting_meta[e].delegate_count = Cardinality(kept)
      /\ voting_meta[e].total_weighted = SumFunction(score)
  BY <1>2 DEF GravityMeta
<1>7. /\ SumFunction(score) = SumFunctionOnSet(score, kept)
      /\ SumFunction(listed) = SumFunctionOnSet(listed, DOMAIN voting_result[e])
  BY DEF SumFunction
<1>8. ASSUME NEW c \in DOMAIN voting_result[e]
      PROVE  OnProbation(c, e) <=> Row(e, c).operator \in getProbationList(e)
  <2>1. OnProbation(c, e) <=> c \in probationListToMap(result.delegates, list)
    BY DEF OnProbation, getProbationList, result, list
  <2>2. PICK d \in kept : d.name = c
    BY <1>3
  <2>3. PICK x \in result.delegates : x.name = c /\ x.operator = d.operator
    BY <1>3, <2>2
  <2>4. c \in probationListToMap(result.delegates, list) <=> x.operator \in list
    BY <1>1, <2>3 DEF probationListToMap, ResultFormed
  <2>5. Row(e, c).operator = x.operator
    BY <1>3, <2>2, <2>3 DEF Row
  <2> QED  BY <2>1, <2>4, <2>5 DEF getProbationList, list
<1> HIDE DEF score
<1> QED  BY <1>5, <1>6, <1>7, <1>8 DEF EpochAgrees, listed

-------------------------------------------------------------------------------
(* What the voters gave a delegate, taken apart by voter and kind, and     *)
(* scaled part by part, or vote by vote.                                   *)
KeyOf(v) == <<v.ballot.candidate, v.ballot.voter, v.ballot.native>>

PartOf(W, k) == {v \in W : KeyOf(v) = k}

KeysOf(W) == {KeyOf(v) : v \in W}

(* q is what the votes f of the parts of W are worth, if the votes of a    *)
(* part are scaled together; r, if they are scaled one by one.             *)
ScaledIf(low, n) == IF low THEN Scaled(n) ELSE n

LEMMA KeysFinite ==
  ASSUME NEW W, IsFiniteSet(W)
  PROVE  IsFiniteSet(KeysOf(W))
<1> DEFINE g == [v \in W |-> KeyOf(v)]
<1>1. g \in Surjection(W, KeysOf(W))
  BY DEF KeysOf, Surjection
<1> QED  BY <1>1, FS_Surjection

(* Whole and parts: rounding loses at most a vote per part.                *)
LEMMA PartsOfWhole ==
  ASSUME NEW W, CountedVotes(W), NEW low \in BOOLEAN, NEW q,
         \A k \in KeysOf(W) : q[k] = ScaledIf(low, Sum(PartOf(W, k)))
  PROVE  LET given == SumFunctionOnSet(q, KeysOf(W))
             whole == ScaledIf(low, Sum(W))
         IN  /\ given \in Nat /\ given <= whole
             /\ whole - given <= IF low THEN Cardinality(KeysOf(W)) ELSE 0
<1> DEFINE K == KeysOf(W)
           f == VotesIn(W)
           g == [v \in W |-> KeyOf(v)]
           h == [k \in K |-> Sum(PartOf(W, k))]
           given == SumFunctionOnSet(q, K)
           whole == ScaledIf(low, Sum(W))
<1>1. IsFiniteSet(W) /\ IsFiniteSet(K)
  BY KeysFinite DEF CountedVotes
<1>2. Sum(W) = SumFunctionOnSet(f, W) /\ Sum(W) \in Nat /\ \A v \in W : f[v] \in Nat
  BY SumOfVotes
<1>3. ASSUME NEW k \in K
      PROVE  /\ h[k] \in Nat /\ h[k] = SumFunctionOnSet(f, {v \in W : g[v] = k})
             /\ q[k] = ScaledIf(low, h[k])
  <2>1. PartOf(W, k) \subseteq W /\ PartOf(W, k) = {v \in W : g[v] = k}
    BY DEF PartOf
  <2>2. Sum(PartOf(W, k)) = SumFunctionOnSet(f, PartOf(W, k)) /\ Sum(PartOf(W, k)) \in Nat
    BY <2>1, SumOfVotes
  <2> QED  BY <2>1, <2>2
<1>4. \A v \in W : g[v] \in K
  BY DEF KeysOf
<1> HIDE DEF f, g, h, K
<1>5. SumFunctionOnSet(h, K) = Sum(W)
  <2>1. SumsOfParts(h, f, g, W, K)
    BY <1>2, <1>3, <1>4 DEF SumsOfParts
  <2> QED  BY <1>1, <1>2, <2>1, SumOfParts
<1>6. CASE ~low
  <2>1. ASSUME NEW k \in K
        PROVE  h[k] \in Int /\ q[k] = h[k]
    <3>1. h[k] \in Nat /\ q[k] = ScaledIf(low, h[k])
      BY <1>3
    <3> QED  BY <3>1, <1>6 DEF ScaledIf
  <2>2. given = Sum(W) /\ whole = Sum(W)
    BY <1>1, <1>5, <1>6, <2>1, SumSame DEF ScaledIf
  <2> HIDE DEF given, whole
  <2>3. given \in Nat /\ given <= whole /\ whole - given <= 0
    BY <1>2, <2>2
  <2> QED  BY <1>6, <2>3 DEF given, whole, K
<1>7. CASE low
  <2>1. \A k \in K : h[k] \in Nat /\ q[k] = (h[k] * RateNum) \div RateDen
    BY <1>3, <1>7 DEF ScaledIf, Scaled
  <2>2. RateNum \in Nat /\ RateDen \in Nat \ {0}
    BY StakingVotesAssumption
  <2>3. whole = (SumFunctionOnSet(h, K) * RateNum) \div RateDen
    BY <1>5, <1>7 DEF ScaledIf, Scaled
  <2> HIDE DEF given, whole
  <2>4. given \in Nat /\ whole \in Nat /\ given <= whole /\ (K # {} => whole - given < Cardinality(K))
    BY <1>1, <2>1, <2>2, <2>3, SumOfQuotients DEF given
  <2>5. Cardinality(K) \in Nat
    BY <1>1, FS_CardinalityType
  <2>6. K = {} => whole - given <= Cardinality(K)
    <3> SUFFICES ASSUME K = {}  PROVE whole - given <= Cardinality(K)
      OBVIOUS
    <3>1. SumFunctionOnSet(h, K) = 0
      BY SumEmpty
    <3>2. RateDen * 0 = 0 /\ 0 * RateNum = 0
      BY <2>2
    <3>3. (RateDen * 0) \div RateDen = 0
      BY <2>2, QuotientOfProduct
    <3>4. whole = 0
      BY <2>3, <3>1, <3>2, <3>3
    <3> QED  BY <2>4, <2>5, <3>4
  <2>7. whole - given <= Cardinality(K)
    BY <2>4, <2>5, <2>6
  <2> QED  BY <1>7, <2>4, <2>7 DEF given, whole, K
<1> QED  BY <1>6, <1>7

(* Parts and votes: rounding loses at most a vote per vote.                *)
LEMMA VotesOfParts ==
  ASSUME NEW W, CountedVotes(W), NEW low \in BOOLEAN, NEW q, NEW r,
         \A k \in KeysOf(W) : q[k] = ScaledIf(low, Sum(PartOf(W, k))),
         \A v \in W : r[v] = ScaledIf(low, v.votes)
  PROVE  LET given  == SumFunctionOnSet(q, KeysOf(W))
             listed == SumFunctionOnSet(r, W)
         IN  /\ listed \in Nat /\ listed <= given
             /\ given - listed <= IF low THEN Cardinality(W) ELSE 0
<1> DEFINE K == KeysOf(W)
           f == VotesIn(W)
           g == [v \in W |-> KeyOf(v)]
           one == [v \in W |-> 1]
           part(k) == {v \in W : g[v] = k}
           byPart == [k \in K |-> SumFunctionOnSet(r, part(k))]
           size == [k \in K |-> SumFunctionOnSet(one, part(k))]
           most == [k \in K |-> byPart[k] + size[k]]
           given == SumFunctionOnSet(q, K)
           listed == SumFunctionOnSet(r, W)
<1>1. IsFiniteSet(W) /\ IsFiniteSet(K)
  BY KeysFinite DEF CountedVotes
<1>2. \A v \in W : /\ f[v] \in Nat /\ f[v] = v.votes /\ g[v] \in K /\ one[v] = 1
                   /\ r[v] = ScaledIf(low, f[v]) /\ r[v] \in Nat
  <2>1. \A v \in W : f[v] \in Nat /\ f[v] = v.votes
    BY SumOfVotes
  <2>2. \A v \in W : r[v] \in Nat
    BY <2>1, ScaledType DEF ScaledIf
  <2> QED  BY <2>1, <2>2 DEF KeysOf
<1>3. ASSUME NEW k \in K
      PROVE  /\ byPart[k] \in Nat /\ q[k] \in Nat /\ size[k] \in Nat
             /\ size[k] = Cardinality(part(k))
             /\ byPart[k] <= q[k] /\ q[k] <= byPart[k] + size[k]
             /\ ~low => q[k] = byPart[k]
  <2>1. IsFiniteSet(part(k)) /\ part(k) \subseteq W /\ part(k) = PartOf(W, k)
    BY <1>1, FS_Subset DEF PartOf
  <2>2. part(k) # {}
    BY DEF KeysOf
  <2>3. q[k] = ScaledIf(low, SumFunctionOnSet(f, part(k))) /\ SumFunctionOnSet(f, part(k)) \in Nat
    BY <2>1, SumOfVotes
  <2>4. \A v \in part(k) : /\ f[v] \in Nat /\ one[v] = 1
                           /\ r[v] = ScaledIf(low, f[v]) /\ r[v] \in Nat
    BY <1>2, <2>1
  <2>5. byPart[k] = SumFunctionOnSet(r, part(k)) /\ size[k] = SumFunctionOnSet(one, part(k))
    OBVIOUS
  <2> HIDE DEF f, g, one, part, byPart, size
  <2>6. /\ SumFunctionOnSet(one, part(k)) = Cardinality(part(k))
        /\ Cardinality(part(k)) \in Nat
    BY <2>1, <2>4, SumOfOnes, FS_CardinalityType
  <2>7. CASE ~low
    <3>1. SumFunctionOnSet(r, part(k)) = SumFunctionOnSet(f, part(k))
      <4>1. \A v \in part(k) : f[v] \in Int /\ r[v] = f[v]
        BY <2>4, <2>7 DEF ScaledIf
      <4> QED  BY <2>1, <4>1, SumSame
    <3>2. q[k] = byPart[k]
      BY <2>3, <2>5, <2>7, <3>1 DEF ScaledIf
    <3> QED  BY <2>3, <2>5, <2>6, <3>1, <3>2
  <2>8. CASE low
    <3>1. \A v \in part(k) : f[v] \in Nat /\ r[v] = (f[v] * RateNum) \div RateDen
      BY <2>4, <2>8 DEF ScaledIf, Scaled
    <3>2. RateNum \in Nat /\ RateDen \in Nat \ {0}
      BY StakingVotesAssumption
    <3>3. q[k] = (SumFunctionOnSet(f, part(k)) * RateNum) \div RateDen
      BY <2>3, <2>8 DEF ScaledIf, Scaled
    <3>4. /\ SumFunctionOnSet(r, part(k)) \in Nat /\ q[k] \in Nat
          /\ SumFunctionOnSet(r, part(k)) <= q[k]
          /\ q[k] - SumFunctionOnSet(r, part(k)) < Cardinality(part(k))
      BY <2>1, <2>2, <3>1, <3>2, <3>3, SumOfQuotients
    <3> QED  BY <2>5, <2>6, <2>8, <3>4
  <2> QED  BY <2>7, <2>8
<1>4. \A k \in K : most[k] = byPart[k] + size[k] /\ most[k] \in Nat
  BY <1>3
<1>5. /\ SumsOfParts(byPart, r, g, W, K)
      /\ SumsOfParts(size, one, g, W, K)
  <2>1. /\ \A v \in W : r[v] \in Int /\ one[v] \in Int /\ g[v] \in K
        /\ \A k \in K : /\ byPart[k] = SumFunctionOnSet(r, {v \in W : g[v] = k})
                        /\ size[k] = SumFunctionOnSet(one, {v \in W : g[v] = k})
    BY <1>2
  <2> HIDE DEF byPart, size, g, one, K
  <2> QED  BY <2>1 DEF SumsOfParts
<1> HIDE DEF byPart, size, g, one, K, most
<1>6. SumFunctionOnSet(byPart, K) = listed /\ SumFunctionOnSet(size, K) = Cardinality(W)
  <2>1. SumFunctionOnSet(byPart, K) = listed /\ SumFunctionOnSet(size, K) = SumFunctionOnSet(one, W)
    BY <1>1, <1>5, SumOfParts
  <2>2. \A v \in W : one[v] = 1
    BY <1>2
  <2>3. SumFunctionOnSet(one, W) = Cardinality(W)
    BY <1>1, <2>2, SumOfOnes
  <2> QED  BY <2>1, <2>3
<1> HIDE DEF part
<1>12. ASSUME NEW k \in K
       PROVE  /\ byPart[k] \in Int /\ q[k] \in Int /\ size[k] \in Int /\ most[k] \in Int
              /\ most[k] = byPart[k] + size[k]
              /\ byPart[k] <= q[k] /\ q[k] <= most[k]
              /\ ~low => q[k] = byPart[k]
  <2>1. /\ byPart[k] \in Nat /\ q[k] \in Nat /\ size[k] \in Nat
        /\ byPart[k] <= q[k] /\ q[k] <= byPart[k] + size[k]
        /\ ~low => q[k] = byPart[k]
    BY <1>3
  <2> QED  BY <2>1, <1>4
<1>7. listed <= given
  BY <1>1, <1>12, <1>6, SumMonotone
<1>8. given <= listed + Cardinality(W)
  <2>1. given <= SumFunctionOnSet(most, K)
    BY <1>1, <1>12, SumMonotone
  <2>2. SumFunctionOnSet(most, K) = SumFunctionOnSet(byPart, K) + SumFunctionOnSet(size, K)
    BY <1>1, <1>12, SumOfSums
  <2> QED  BY <1>6, <2>1, <2>2
<1>9. listed \in Nat /\ given \in Nat /\ Cardinality(W) \in Nat
  BY <1>1, <1>2, <1>3, SumOfNats, FS_CardinalityType
<1>10. ~low => given = listed
  <2> SUFFICES ASSUME ~low  PROVE SumFunctionOnSet(byPart, K) = SumFunctionOnSet(q, K)
    BY <1>6
  <2>1. \A k \in K : byPart[k] \in Int
    BY <1>12
  <2>2. \A k \in K : q[k] = byPart[k]
    BY <1>12
  <2> QED  BY <1>1, <2>1, <2>2, SumSame
<1> HIDE DEF listed, given
<1>11. listed <= given /\ given - listed <= IF low THEN Cardinality(W) ELSE 0
  BY <1>7, <1>8, <1>9, <1>10
<1> QED  BY <1>9, <1>11 DEF listed, given, K

(* The answers on a delegate of an epoch before Fairbank.                  *)
LEMMA GravityRow ==
  ASSUME GInv, era = "gravity", NEW e \in IndexedEpochs, NEW c \in DOMAIN voting_result[e]
  PROVE  LET keys   == {k \in DOMAIN aggregate_voting[e] : k[1] = c}
             given  == SumFunctionOnSet(aggregate_voting[e], keys)
             row    == voting_result[e][c]
             list   == GetBucketInformation(e, 1, c)[e]
             scaled == row.operator \in getProbationList(e)
         IN  /\ given <= row.votes
             /\ row.votes - given <= IF scaled THEN Cardinality(keys) ELSE 0
             /\ Sum(list) <= given
             /\ given - Sum(list) <= IF scaled THEN Cardinality(list) ELSE 0
<1> DEFINE result == resultByHeight(e)
           probation == probation_list[e]
           agg == aggregate_voting[e]
           row == voting_result[e][c]
           W == For(result.votes, c)
           low == row.operator \in probation
           keys == {k \in DOMAIN agg : k[1] = c}
           r == [v \in W |-> ScaledIf(low, v.votes)]
           line == [v \in W |-> [v EXCEPT !.votes = ScaledIf(low, @)]]
           list == GetBucketInformation(e, 1, c)[e]
<1>1. ResultFormed(result)
  BY GravityFacts
<1>2. PICK kept : /\ KeptFrom(kept, result.delegates, probation)
                  /\ voting_result[e] = VotingResult(kept)
                  /\ agg = AggregateVoting(result.votes, kept, probation)
  BY GravityFacts
<1>3. GetBucketInformation(e, 1, c)[e] = GetBucketInfoByEpoch(e, c)
  <2>1. indexed \in Nat /\ e \in Nat /\ e + 1 - 1 = e /\ e <= indexed
    BY DEF GInv, IndexedEpochs
  <2>2. IndexedFrom(e, 1) = e .. e
    BY <2>1, IndexedRange
  <2> QED  BY <2>1, <2>2 DEF GetBucketInformation
<1>4. getProbationList(e) = probation
  BY DEF getProbationList
<1>5. GetBucketInfoByEpoch(e, c)
        = {[v EXCEPT !.votes = IF c \in probationListToMap(result.delegates, probation)
                                 THEN Scaled(@) ELSE @] : v \in W}
  BY DEF GetBucketInfoByEpoch, getProbationList
<1> HIDE DEF result, probation, agg
<1>6. RowsOf(voting_result[e], kept, result, probation)
  <2>1. RowsOf(VotingResult(kept), kept, result, probation)
    BY <1>1, <1>2, KeptFacts
  <2> QED  BY <1>2, <2>1
<1>7. PICK d \in kept : d.name = c /\ row.votes = d.score /\ row.operator = d.operator
  BY <1>6 DEF RowsOf
<1>8. PICK x \in result.delegates :
        /\ x.name = c /\ x.operator = row.operator
        /\ row.votes = ScaledIf(low, x.score)
  BY <1>6, <1>7 DEF RowsOf, ScaledIf
<1>9. /\ c \in probationListToMap(result.delegates, probation) <=> low
      /\ c \in probationListToMap(kept, probation) <=> low
  <2>1. c \in probationListToMap(result.delegates, probation) <=> low
    BY <1>1, <1>8 DEF probationListToMap, ResultFormed
  <2>2. c \in probationListToMap(kept, probation) <=> low
    BY <1>6, <1>7 DEF probationListToMap, RowsOf
  <2> QED  BY <2>1, <2>2
<1>10. CountedVotes(W) /\ x.score = Sum(W) /\ W \subseteq result.votes
  <2>1. W \subseteq result.votes /\ CountedVotes(result.votes)
    BY <1>1 DEF For, ResultFormed
  <2>2. CountedVotes(W)
    BY <2>1, SumOfVotes
  <2> QED  BY <1>1, <1>8, <2>1, <2>2 DEF ResultFormed
<1>11. keys = KeysOf(W) /\ \A k \in KeysOf(W) : agg[k] = ScaledIf(low, Sum(PartOf(W, k)))
  <2> DEFINE sum(k) == Sum({v \in result.votes : KeyOf(v) = k})
             all == {KeyOf(v) : v \in result.votes}
  <2>1. agg = [k \in all |-> IF k[1] \in probationListToMap(kept, probation)
                               THEN Scaled(sum(k)) ELSE sum(k)]
    BY <1>2 DEF AggregateVoting, KeyOf
  <2>2. \A v : KeyOf(v)[1] = v.ballot.candidate
    BY DEF KeyOf
  <2>3. keys = KeysOf(W)
    <3>1. DOMAIN agg = all
      BY <2>1
    <3> QED  BY <2>2, <3>1 DEF KeysOf, For
  <2>4. ASSUME NEW k \in KeysOf(W)
        PROVE  agg[k] = ScaledIf(low, Sum(PartOf(W, k)))
    <3>1. k \in all /\ k[1] = c
      BY <2>2 DEF KeysOf, For
    <3>2. {v \in result.votes : KeyOf(v) = k} = PartOf(W, k)
      BY <2>2, <3>1 DEF PartOf, For
    <3>3. sum(k) = Sum(PartOf(W, k))
      BY <3>2
    <3> HIDE DEF sum, all, low
    <3> QED  BY <1>9, <2>1, <3>1, <3>3 DEF ScaledIf
  <2> QED  BY <2>3, <2>4
<1>12. list = {line[v] : v \in W}
  <2> DEFINE to(v) == [v EXCEPT !.votes = IF c \in probationListToMap(result.delegates, probation)
                                            THEN Scaled(@) ELSE @]
  <2>1. \A v \in W : to(v) = line[v]
    BY <1>9 DEF ScaledIf
  <2>2. list = {to(v) : v \in W}
    BY <1>3, <1>5
  <2> HIDE DEF to, line, W, list
  <2> QED  BY <2>1, <2>2
<1>13. \A v \in W : /\ r[v] = ScaledIf(low, v.votes) /\ r[v] \in Nat
                    /\ line[v].ballot = v.ballot /\ line[v].votes = r[v]
  <2>1. \A v \in W : v \in [ballot : Ballots, votes : Nat]
    BY <1>10 DEF CountedVotes
  <2>2. \A v \in W : r[v] = ScaledIf(low, v.votes) /\ r[v] \in Nat
    BY <2>1, ScaledType DEF ScaledIf
  <2> QED  BY <2>1, <2>2
<1> HIDE DEF W, low, keys, r, line, list
<1>14. Sum(list) = SumFunctionOnSet(r, W) /\ Cardinality(list) = Cardinality(W)
  <2> DEFINE votes == [v \in list |-> v.votes]
  <2>1. \A v, w \in W : line[v] = line[w] => v = w
    BY <1>10, <1>13 DEF CountedVotes
  <2>2. \A v \in W : r[v] \in Int /\ votes[line[v]] = r[v]
    BY <1>12, <1>13
  <2>3. Sum(list) = SumFunctionOnSet(votes, list)
    BY DEF Sum, SumFunction
  <2> HIDE DEF votes
  <2>4. Renames(votes, list, r, W, line)
    BY <1>12, <2>1, <2>2 DEF Renames
  <2> QED  BY <1>10, <2>3, <2>4, SumRenamed DEF CountedVotes
<1>15. low \in BOOLEAN
  BY DEF low
<1>16. LET given == SumFunctionOnSet(agg, KeysOf(W))
           whole == ScaledIf(low, Sum(W))
       IN  /\ given \in Nat /\ given <= whole
           /\ whole - given <= IF low THEN Cardinality(KeysOf(W)) ELSE 0
  BY <1>10, <1>11, <1>15, PartsOfWhole
<1>17. LET given  == SumFunctionOnSet(agg, KeysOf(W))
           listed == SumFunctionOnSet(r, W)
       IN  /\ listed \in Nat /\ listed <= given
           /\ given - listed <= IF low THEN Cardinality(W) ELSE 0
  BY <1>10, <1>11, <1>13, <1>15, VotesOfParts
<1>18. row.votes = ScaledIf(low, Sum(W))
  BY <1>8, <1>10
<1> DEFINE given == SumFunctionOnSet(agg, keys)
<1>19. /\ given <= row.votes
       /\ row.votes - given <= IF low THEN Cardinality(keys) ELSE 0
       /\ Sum(list) <= given
       /\ given - Sum(list) <= IF low THEN Cardinality(list) ELSE 0
  BY <1>11, <1>14, <1>16, <1>17, <1>18
<1>20. low <=> voting_result[e][c].operator \in getProbationList(e)
  BY <1>4 DEF low
<1> QED  BY <1>19, <1>20 DEF agg, keys, list

LEMMA GravityVotes == GInv /\ era = "gravity" => GravityVotesAgree
<1> SUFFICES ASSUME GInv, era = "gravity", NEW e \in IndexedEpochs
             PROVE  LET delegates == resultByHeight(e).delegates
                    IN  /\ \A d \in delegates : Alone(d, delegates) => d.name \in DOMAIN voting_result[e]
                        /\ voting_meta[e].delegate_count = Cardinality(DOMAIN voting_result[e])
  BY GravityRow DEF GravityVotesAgree, Alone
<1>1. voting_meta[e].delegate_count = Cardinality(DOMAIN voting_result[e])
  BY GravityAgrees DEF EpochAgrees
<1> DEFINE result == resultByHeight(e)
<1>2. ResultFormed(result)
  BY GravityFacts
<1>3. PICK kept : /\ KeptFrom(kept, result.delegates, probation_list[e])
                  /\ voting_result[e] = VotingResult(kept)
  BY GravityFacts
<1> HIDE DEF result
<1>4. RowsOf(VotingResult(kept), kept, result, probation_list[e])
  BY <1>2, <1>3, KeptFacts
<1>5. \A d \in result.delegates : Alone(d, result.delegates) => d.name \in DOMAIN voting_result[e]
  BY <1>3, <1>4 DEF RowsOf
<1> QED  BY <1>1, <1>5 DEF result

-------------------------------------------------------------------------------
(* The invariant in either era.                                            *)
VotingsInv ==
  /\ era \in {"gravity", "native"}
  /\ era = "native" => VInv
  /\ era = "gravity" => GInv

LEMMA InitGravity == VotingsInit /\ era = "gravity" => GInv
<1> SUFFICES ASSUME VotingsInit, era = "gravity"  PROVE GInv
  OBVIOUS
<1>1. indexed = 1 /\ 1 \in Epochs /\ IndexedEpochs = {}
  BY StakingVotesAssumption DEF VotingsInit, Init, IndexedEpochs, Epochs
<1>2. /\ ballots \subseteq Ballots /\ IsFiniteSet(ballots)
      /\ registrations \in [Candidates -> Operators \cup {Nobody}]
      /\ DOMAIN raw = Epochs
  BY VotingsAssumption DEF VotingsInit
<1>3. /\ DOMAIN voting_result = Epochs /\ DOMAIN aggregate_voting = Epochs /\ DOMAIN voting_meta = Epochs
      /\ probation_list \in [Epochs -> SUBSET Operators]
  BY DEF VotingsInit, Init
<1> QED  BY <1>1, <1>2, <1>3 DEF GInv

(* Operations on Ethereum leave what is stored.                            *)
LEMMA GravityOperationInv ==
  ASSUME GInv, UNCHANGED <<tables, raw>>,
         (ballots \subseteq Ballots /\ IsFiniteSet(ballots))',
         (registrations \in [Candidates -> Operators \cup {Nobody}])'
  PROVE  GInv'
<1>1. UNCHANGED <<indexed, probation_list, voting_result, aggregate_voting, voting_meta, raw>>
  BY DEF tables
<1>2. \A e \in IndexedEpochs' : RawFormed(raw'[e]) /\ GravityEpoch(e)'
  BY <1>1 DEF GInv, GravityEpoch, IndexedEpochs
<1> QED  BY <1>1, <1>2 DEF GInv

(* HandleBlock adds an epoch, with what its raw data gives.                *)
LEMMA HandleGravityInv ==
  ASSUME GInv, NEW found \in BOOLEAN, NEW native \in BOOLEAN, NEW oneMintTime \in BOOLEAN,
         NEW list \in SUBSET Operators, HandleGravityEpoch(found, list, native, oneMintTime)
  PROVE  GInv'
<1>1. PICK n \in 1 .. MaxGravity :
        /\ n = indexed + 1 /\ indexed' = n
        /\ ~found => list = {}
        /\ fetchAndStoreRawBuckets(n, native)
        /\ probation_list' = [probation_list EXCEPT ![n] = list]
        /\ \E result \in {resultByHeight(n)'} :
             \E delegates \in IF found THEN filterCandidates(result.delegates, list)
                                        ELSE {result.delegates} :
               /\ voting_result' = [voting_result EXCEPT ![n] = VotingResult(delegates)]
               /\ aggregate_voting' =
                    [aggregate_voting EXCEPT ![n] = AggregateVoting(result.votes, delegates, list)]
               /\ voting_meta' = [voting_meta EXCEPT ![n] = GravityMeta(result.votes, delegates)]
        /\ UNCHANGED <<registrations, ballots>>
  BY DEF HandleGravityEpoch
<1>0. MaxGravity \in Nat /\ MaxEpoch \in Nat /\ MaxGravity <= MaxEpoch
  BY VotingsAssumption, StakingVotesAssumption DEF Epochs
<1>2. n \in Epochs /\ n \in Nat \ {0} /\ IndexedEpochs' = IndexedEpochs \cup {n} /\ n \notin IndexedEpochs
  <2>1. n \in Nat /\ n > 1 /\ n <= MaxEpoch /\ n = indexed + 1 /\ indexed' = n /\ indexed \in Nat
    BY <1>0, <1>1 DEF GInv
  <2>2. n \in Epochs
    BY <1>0, <2>1 DEF Epochs
  <2>3. 2 .. n = (2 .. indexed) \cup {n} /\ n \notin 2 .. indexed
    BY <2>1
  <2> QED  BY <2>1, <2>2, <2>3 DEF IndexedEpochs
<1>3. IndexedEpochs \subseteq Epochs
  <2>1. indexed \in Nat /\ indexed <= MaxEpoch
    BY <1>0, <1>1 DEF GInv
  <2> QED  BY <1>0, <2>1 DEF Epochs, IndexedEpochs
<1> DEFINE ofKind(k) == {b \in ballots : b.native = k}
           data == [regs |-> registrations, buckets |-> ofKind(FALSE),
                    native |-> IF native THEN ofKind(TRUE) ELSE {}]
           result == ResultFrom(data, n)
<1>4. raw' = [raw EXCEPT ![n] = data]
  BY <1>1 DEF fetchAndStoreRawBuckets
<1>5. RawFormed(data)
  <2>1. \A k \in BOOLEAN : IsFiniteSet(ofKind(k)) /\ ofKind(k) \subseteq Ballots
    BY FS_Subset DEF GInv
  <2>2. IsFiniteSet({})
    BY FS_EmptySet
  <2>3. registrations \in [Candidates -> Operators \cup {Nobody}]
    BY DEF GInv
  <2>4. (\A b \in ofKind(FALSE) : ~b.native) /\ (\A b \in ofKind(TRUE) : b.native)
    OBVIOUS
  <2> HIDE DEF ofKind
  <2> QED  BY <2>1, <2>2, <2>3, <2>4 DEF RawFormed
<1> HIDE DEF data
<1>6. raw'[n] = data
  BY <1>2, <1>4 DEF GInv
<1>7. resultByHeight(n)' = result
  <2>1. resultByHeight(n)' = ResultFrom(raw'[n], n)
    BY DEF resultByHeight, ResultFrom, EthereumFrom, calculateEthereumStaking
  <2> QED  BY <1>6, <2>1
<1> HIDE DEF result
<1>8. PICK kept \in IF found THEN filterCandidates(result.delegates, list) ELSE {result.delegates} :
        /\ voting_result' = [voting_result EXCEPT ![n] = VotingResult(kept)]
        /\ aggregate_voting' = [aggregate_voting EXCEPT ![n] = AggregateVoting(result.votes, kept, list)]
        /\ voting_meta' = [voting_meta EXCEPT ![n] = GravityMeta(result.votes, kept)]
  BY <1>1, <1>7
<1>9. kept \in filterCandidates(result.delegates, list) \cup (IF list = {} THEN {result.delegates} ELSE {})
  BY <1>1, <1>8
<1>10. /\ probation_list'[n] = list /\ voting_result'[n] = VotingResult(kept)
       /\ aggregate_voting'[n] = AggregateVoting(result.votes, kept, list)
       /\ voting_meta'[n] = GravityMeta(result.votes, kept)
  BY <1>1, <1>2, <1>8 DEF GInv
<1>11. GravityEpoch(n)'
  <2>1. TablesOf(result, list, voting_result'[n], aggregate_voting'[n], voting_meta'[n])
    BY <1>9, <1>10 DEF TablesOf
  <2> QED  BY <1>6, <1>10, <2>1 DEF GravityEpoch, result
<1>12. ASSUME NEW e \in IndexedEpochs
       PROVE  RawFormed(raw'[e]) /\ GravityEpoch(e)'
  <2>1. e # n /\ e \in Epochs
    BY <1>2, <1>3
  <2>2. /\ raw'[e] = raw[e] /\ probation_list'[e] = probation_list[e]
        /\ voting_result'[e] = voting_result[e] /\ aggregate_voting'[e] = aggregate_voting[e]
        /\ voting_meta'[e] = voting_meta[e]
    BY <1>1, <1>4, <1>8, <2>1 DEF GInv
  <2> QED  BY <2>2 DEF GInv, GravityEpoch
<1>13. /\ DOMAIN raw' = Epochs /\ DOMAIN voting_result' = Epochs
       /\ DOMAIN aggregate_voting' = Epochs /\ DOMAIN voting_meta' = Epochs
       /\ probation_list' \in [Epochs -> SUBSET Operators]
  BY <1>1, <1>4, <1>8 DEF GInv
<1> QED  BY <1>1, <1>2, <1>5, <1>6, <1>11, <1>12, <1>13 DEF GInv

LEMMA GravityNextInv == GInv /\ GravityNext => GInv'
<1> SUFFICES ASSUME GInv, GravityNext  PROVE GInv'
  OBVIOUS
<1>1. CASE \E c \in Candidates, o \in Operators \cup {Nobody} : RegisterOnEthereum(c, o)
  <2>1. PICK c \in Candidates, o \in Operators \cup {Nobody} : RegisterOnEthereum(c, o)
    BY <1>1
  <2>2. /\ UNCHANGED <<tables, raw>> /\ ballots' = ballots
        /\ registrations' = [registrations EXCEPT ![c] = o]
    BY <2>1 DEF RegisterOnEthereum, GravityOperation
  <2>3. registrations' \in [Candidates -> Operators \cup {Nobody}]
    BY <2>2 DEF GInv
  <2>4. ballots' \subseteq Ballots /\ IsFiniteSet(ballots')
    BY <2>2 DEF GInv
  <2>5. UNCHANGED <<tables, raw>>
    BY <2>2
  <2> QED  BY <2>3, <2>4, <2>5, GravityOperationInv
<1>2. CASE \E b \in Ballots \ ballots : Vote(b)
  <2>1. PICK b \in Ballots \ ballots : Vote(b)
    BY <1>2
  <2>2. UNCHANGED <<tables, raw>> /\ ballots' = ballots \cup {b} /\ registrations' = registrations
    BY <2>1 DEF Vote, GravityOperation
  <2>3. ballots' \subseteq Ballots /\ IsFiniteSet(ballots')
    BY <2>2, FS_AddElement DEF GInv
  <2>4. registrations' \in [Candidates -> Operators \cup {Nobody}]
    BY <2>2 DEF GInv
  <2>5. UNCHANGED <<tables, raw>>
    BY <2>2
  <2> QED  BY <2>3, <2>4, <2>5, GravityOperationInv
<1>3. CASE \E b \in ballots : EndVote(b)
  <2>1. PICK b \in ballots : EndVote(b)
    BY <1>3
  <2>2. UNCHANGED <<tables, raw>> /\ ballots' = ballots \ {b} /\ registrations' = registrations
    BY <2>1 DEF EndVote, GravityOperation
  <2>3. ballots' \subseteq Ballots /\ IsFiniteSet(ballots')
    BY <2>2, FS_RemoveElement DEF GInv
  <2>4. registrations' \in [Candidates -> Operators \cup {Nobody}]
    BY <2>2 DEF GInv
  <2>5. UNCHANGED <<tables, raw>>
    BY <2>2
  <2> QED  BY <2>3, <2>4, <2>5, GravityOperationInv
<1>4. CASE \E found, native, oneMintTime \in BOOLEAN, list \in fetchProbationList :
             HandleGravityEpoch(found, list, native, oneMintTime)
  BY <1>4, HandleGravityInv DEF fetchProbationList
<1> QED  BY <1>1, <1>2, <1>3, <1>4 DEF GravityNext

LEMMA VotingsNextInv == VotingsInv /\ [VotingsNext]_allvars => VotingsInv'
<1> SUFFICES ASSUME VotingsInv, [VotingsNext]_allvars  PROVE VotingsInv'
  OBVIOUS
<1>1. CASE VotingsNext
  <2>1. era' = era
    BY <1>1 DEF VotingsNext
  <2>2. CASE era = "native" /\ Next
    BY <2>1, <2>2, NextVotes DEF VotingsInv
  <2>3. CASE era = "gravity" /\ GravityNext
    BY <2>1, <2>3, GravityNextInv DEF VotingsInv
  <2> QED  BY <1>1, <2>2, <2>3 DEF VotingsNext
<1>2. CASE UNCHANGED allvars
  <2>1. era' = era /\ UNCHANGED vars /\ UNCHANGED <<tables, raw, ballots, registrations>>
    BY <1>2 DEF allvars, gravity, vars
  <2>2. CASE era = "native"
    BY <2>1, <2>2, NextVotes DEF VotingsInv
  <2>3. CASE era = "gravity"
    <3>1. GInv
      BY <2>3 DEF VotingsInv
    <3>2. UNCHANGED <<tables, raw>> /\ ballots' = ballots /\ registrations' = registrations
      BY <2>1
    <3>3. (ballots \subseteq Ballots /\ IsFiniteSet(ballots))'
          /\ (registrations \in [Candidates -> Operators \cup {Nobody}])'
      BY <3>1, <3>2 DEF GInv
    <3>4. GInv'
      BY <3>1, <3>2, <3>3, GravityOperationInv
    <3> QED  BY <2>1, <2>3, <3>4 DEF VotingsInv
  <2> QED  BY <2>1, <2>2, <2>3 DEF VotingsInv
<1> QED  BY <1>1, <1>2

(* In either era the tables are those of what the chain, or Ethereum, said *)
(* of each epoch (HandleBlock of votings/protocol.go, both branches).      *)
THEOREM VotingsInvariant == VotingsSpec => []VotingsInv
<1>1. VotingsInit => VotingsInv
  <2> SUFFICES ASSUME VotingsInit  PROVE VotingsInv
    OBVIOUS
  <2>1. era \in {"gravity", "native"} /\ Init
    BY DEF VotingsInit
  <2>2. VInv
    BY <2>1, InitInv, InitVotes DEF VInv
  <2> QED  BY <2>1, <2>2, InitGravity DEF VotingsInv
<1> QED  BY <1>1, VotingsNextInv, PTL DEF VotingsSpec

(* Before Fairbank, too, the answers to "how many votes has this delegate" *)
(* agree, for any buckets, thresholds and rate of probation                *)
(* (updateVotingResultTable, updateAggregateVotingandVotingMetaTable and   *)
(* GetBucketInfoByEpoch).                                                  *)
THEOREM GravityVotesAlwaysAgree == VotingsSpec => []GravityVotesAgree
<1>1. VotingsInv => GravityVotesAgree
  BY GravityVotes DEF VotingsInv, GravityVotesAgree
<1> QED  BY <1>1, VotingsInvariant, PTL

(* The queries over the voting tables tell the same story in both eras     *)
(* (queryprotocol/votings: GetCandidates, GetCandidateMeta, GetStaking,    *)
(* GetAlias, GetOperatorAddress and GetProbationHistoricalRate).           *)
THEOREM VotingQueriesAlwaysAgree == VotingsSpec => []VotingQueriesAgree
<1>1. VotingsInv => VotingQueriesAgree
  <2> SUFFICES ASSUME VotingsInv  PROVE VotingQueriesAgree
    OBVIOUS
  <2>1. CASE era = "native"
    <3>1. VInv
      BY <2>1 DEF VotingsInv
    <3>2. indexed \in Nat \ {0}
      BY <3>1 DEF VInv, IInv, Positions
    <3>3. \A e \in IndexedEpochs : EpochAgrees(e)
      BY <2>1, <3>1, NativeAgrees
    <3> QED  BY <3>2, <3>3, QueriesAgree
  <2>2. CASE era = "gravity"
    <3>1. GInv
      BY <2>2 DEF VotingsInv
    <3>2. indexed \in Nat \ {0}
      BY <3>1 DEF GInv
    <3>3. \A e \in IndexedEpochs : EpochAgrees(e)
      BY <2>2, <3>1, GravityAgrees
    <3> QED  BY <3>2, <3>3, QueriesAgree
  <2> QED  BY <2>1, <2>2 DEF VotingsInv
<1> QED  BY <1>1, VotingsInvariant, PTL

(* Since Fairbank the votings protocol is native staking: what holds of    *)
(* every behaviour of StakingVotes holds of it (HandleBlock's two eras).   *)
THEOREM NativeEraIsStaking == VotingsSpec /\ era = "native" => Spec
<1>1. VotingsInit /\ era = "native" => Init
  BY DEF VotingsInit
<1>2. era = "native" /\ [VotingsNext]_allvars => (era = "native")' /\ [Next]_vars
  BY DEF VotingsNext, allvars
<1> QED  BY <1>1, <1>2, PTL DEF VotingsSpec, Spec

(* So what native staking's tables promise holds in that era: the archive  *)
(* is exact, the answers on votes agree, no voters have more than the      *)
(* total, and new versions are listed (processStaking).                    *)
THEOREM NativeEraIsExact ==
  VotingsSpec => [](era = "native" => /\ ArchiveExact /\ VotesAgree
                                      /\ VotersWithinTotal /\ NewVersionListed)
<1>1. VotingsInv => (era = "native" => /\ ArchiveExact /\ VotesAgree
                                       /\ VotersWithinTotal /\ NewVersionListed)
  BY VotesSame, VotersWithin, NewVersions DEF VotingsInv, VInv, IInv
<1> QED  BY <1>1, VotingsInvariant, PTL
===============================================================================
