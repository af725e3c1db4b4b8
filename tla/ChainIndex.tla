------------------------------ MODULE ChainIndex ------------------------------
(***************************************************************************)
(* What the indexer promises: the index is a prefix of the chain that only *)
(* grows, block by block and in order; the reports of an epoch (block      *)
(* production, rewards, income) appear, complete, in the step that indexes *)
(* the first block of the next one; and every block is indexed some day.   *)
(***************************************************************************)
EXTENDS EpochCtx

CONSTANT MaxHeight

VARIABLES
  chain,     \* height of the chain
  indexed,   \* heights of the indexed blocks
  closed     \* epochs with complete reports

indexVars == <<chain, indexed, closed>>

Init ==
  /\ chain \in 0 .. MaxHeight
  /\ indexed = {}
  /\ closed = {}

(* The chain grows by a block. *)
Grow ==
  /\ chain < MaxHeight
  /\ chain' = chain + 1
  /\ UNCHANGED <<indexed, closed>>

(* The next block is indexed. *)
Append ==
  \E h \in 1 .. chain :
    /\ indexed = 1 .. h - 1
    /\ indexed' = 1 .. h
    /\ closed' = IF IsEpochStart(h) /\ h > 1 THEN closed \cup {GetEpochNumber(h) - 1} ELSE closed
    /\ UNCHANGED chain

Next == Grow \/ Append

Safety == Init /\ [][Next]_indexVars

Spec == Safety /\ WF_indexVars(Append)

===============================================================================
