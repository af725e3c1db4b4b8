---------------------------------- MODULE Views ---------------------------------
(***************************************************************************)
(* What the store promises to whoever queries it through GetDB             *)
(* (sql/storebase.go): an answer from the tables as they were after some   *)
(* block.  It need not be the last one, as connections remember older      *)
(* blocks, but they are closed when they are too old: after a while there  *)
(* is no answer any more from before a block that has been committed.      *)
(***************************************************************************)
EXTENDS Naturals

CONSTANT MaxHeight  \* bound on the height of the index

ASSUME ViewsAssumption == MaxHeight \in Nat

VARIABLES
  height,  \* the blocks whose transactions are committed are 1 .. height
  visible  \* the heights an answer may be of

views == <<height, visible>>

ViewsInit == height = 0 /\ visible = {0}

(* A block is committed, and seen at once by those who remember nothing.   *)
CommitBlock ==
  /\ height < MaxHeight
  /\ height' = height + 1
  /\ \E kept \in SUBSET visible : visible' = kept \cup {height + 1}

(* The last connection that remembered a block is closed, or begins anew.  *)
Forget ==
  /\ visible # {height}
  /\ \E kept \in (SUBSET visible) \ {visible} : height \in kept /\ visible' = kept
  /\ UNCHANGED height

ViewsNext == CommitBlock \/ Forget

ViewsSpec == ViewsInit /\ [][ViewsNext]_views /\ WF_views(Forget)

(* A block that is committed is in every answer after a while.             *)
OldViewsEnd == \A h \in 0 .. MaxHeight : height = h ~> [](\A v \in visible : v >= h)

===============================================================================
