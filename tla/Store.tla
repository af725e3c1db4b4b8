---------------------------------- MODULE Store ---------------------------------
(***************************************************************************)
(* The pool of MySQL connections (sql/storebase.go), which the indexer and *)
(* the GraphQL server share.                                               *)
(*                                                                         *)
(* A session is opened with autocommit=false, so that a plain SELECT       *)
(* starts a transaction nobody ends: the connection goes back to the pool  *)
(* with its read view, and whoever is given it next reads the tables as    *)
(* they were then, until a BEGIN ends the transaction or the connection    *)
(* gets too old.  The handlers of blocks are among those readers: some of  *)
(* their queries go through GetDB and not through their transaction, and   *)
(* they wait for a second connection while they hold the first.            *)
(***************************************************************************)
EXTENDS EpochCtx, FiniteSets

CONSTANTS
  Conns,        \* as many as MAX_OPEN_CONNECTIONS allows
  Readers,      \* the goroutines of requests that run at a time
  None,         \* no connection, no read view
  Error,        \* what a handler got instead of an answer
  MaxHeight,    \* bound on the height of the index
  MaxLost,      \* bound on the connections lost to rows that are not closed
  MaxFaults     \* bound on the restarts and the failures of the node

ASSUME StoreAssumption ==
  /\ IsFiniteSet(Conns) /\ IsFiniteSet(Readers)
  /\ None \notin Conns \cup Nat
  /\ {"idle", "waiting"} \cap (Conns \cup {None}) = {}
  /\ Error # <<>>
  /\ MaxHeight \in Nat /\ MaxLost \in Nat /\ MaxFaults \in Nat
  /\ ForkIsSafe

VARIABLES
  height,          \* the blocks whose transactions are committed are 1 .. height
  account_reward,  \* per epoch closed, how many of its blocks were counted
  faults,          \* the restarts and the failures of the node so far
  phase,           \* what the indexer is at: "down", "initialize" or "index"
  tx,              \* the connection of the indexer's transaction
  inner,           \* the connection of a query its handlers make through GetDB
  got,             \* the read views these queries had, or Error
  reader,          \* per goroutine "idle", "waiting", or the connection it reads from
  pool,            \* per connection "closed", "free", "busy" or "lost"
  view             \* per connection, the height its open read view is of

tables == <<height, account_reward>>
indexer == <<phase, tx, inner, got>>
vars == <<tables, faults, indexer, reader, pool, view>>

-------------------------------------------------------------------------------
Heights == 0 .. MaxHeight
Epochs == 0 .. GetEpochNumber(MaxHeight)

-------------------------------------------------------------------------------
AnyConnection(c) == pool[c] # "lost"

(* A connection that can be had: a new one or an idle one, which may be    *)
(* the first or the last that was given back, as the version of Go has it. *)
Available(c) == pool[c] \in {"closed", "free"}

(* Begin ends whatever transaction the session was in, and its own reads   *)
(* are of this moment.                                                     *)
Begin(c) ==
  /\ Available(c)
  /\ pool' = [pool EXCEPT ![c] = "busy"]
  /\ view' = [view EXCEPT ![c] = None]

(* A SELECT outside of a transaction: the first one fixes the read view.   *)
Query(c) ==
  /\ Available(c)
  /\ pool' = [pool EXCEPT ![c] = "busy"]
  /\ view' = [view EXCEPT ![c] = IF @ = None THEN height ELSE @]

Lost == {c \in Conns : pool[c] = "lost"}

LeaveRowsOpen(c) == UNCHANGED pool

(* ParseSQLRows has read the rows to their end, which closes them.         *)
CloseRows(c) == pool' = [pool EXCEPT ![c] = "free"]

(* A row does not fit: it returns and leaves the rows open.                *)
FailedScan(c) ==
  /\ Cardinality(Lost) < MaxLost
  /\ pool' = [pool EXCEPT ![c] = "lost"]

ParseSQLRows(c) == CloseRows(c) \/ FailedScan(c)

KeepConnection ==
  /\ tx' = None /\ got' = <<>>
  /\ UNCHANGED <<pool, view>>

(* COMMIT or ROLLBACK. *)
EndTx ==
  /\ tx' = None /\ got' = <<>>
  /\ pool' = [pool EXCEPT ![tx] = "free"]
  /\ view' = [view EXCEPT ![tx] = None]

NeverExpire(c) == FALSE /\ UNCHANGED vars

(* SetConnMaxLifetime: an idle connection is closed when it is too old.    *)
Expire(c) ==
  /\ pool[c] = "free"
  /\ pool' = [pool EXCEPT ![c] = "closed"]
  /\ view' = [view EXCEPT ![c] = None]
  /\ UNCHANGED <<tables, faults, indexer, reader>>

-------------------------------------------------------------------------------
(* Start of the store and of the indexer.                                  *)
Start ==
  /\ phase = "down"
  /\ phase' = "initialize"
  /\ UNCHANGED <<tables, faults, tx, inner, got, reader, pool, view>>

(* What is asked through GetDB while the transaction is open: whether the  *)
(* genesis rows are there, and, by the first block of an epoch, the        *)
(* productivity in the epoch before, if delegates share an address (here   *)
(* some do), and a row of the votes that epoch began with (the portions,   *)
(* or before Fairbank the block of the last poll result).                  *)
Queries ==
  IF phase = "initialize" THEN {"genesis"}
  ELSE IF IsEpochStart(height + 1) /\ GetEpochNumber(height + 1) > 1
         THEN {"productivity", "portions"} ELSE {}

Closing == GetEpochNumber(height + 1) - 1

AnyFound(q, h) == TRUE

(* What a query found nothing for is ErrNotExist.                          *)
Found(q, h) == q = "genesis" \/ h >= GetEpochHeight(Closing)

BlocksSeen(h) == {b \in 1 .. h : GetEpochNumber(b) = Closing}

Transact ==
  /\ phase = "initialize" \/ (phase = "index" /\ height < MaxHeight)
  /\ tx = None
  /\ \E c \in Conns : Begin(c) /\ tx' = c
  /\ UNCHANGED <<tables, faults, phase, inner, got, reader>>

(* The handlers come to the next query: of the two the rewards protocol's  *)
(* is the first.                                                           *)
Pending == IF got = Error THEN {} ELSE Queries \ DOMAIN got

First(queries) == IF "productivity" \in queries THEN "productivity" ELSE CHOOSE q \in queries : TRUE

HandlerAsks ==
  /\ tx # None /\ inner = None
  /\ Pending # {}
  /\ inner' = "waiting"
  /\ UNCHANGED <<tables, faults, phase, tx, got, reader, pool, view>>

HandlerQueries ==
  /\ inner = "waiting"
  /\ \E c \in Conns : Query(c) /\ inner' = c
  /\ UNCHANGED <<tables, faults, phase, tx, got, reader>>

(* Its answer, or an error: a row that does not fit, or no row at all.     *)
(* (QueryRow, which asks for the genesis rows, closes what it has read.)   *)
HandlerGets ==
  /\ inner \in Conns
  /\ inner' = None
  /\ LET q == First(Pending)
         h == view[inner]
     IN  \/ /\ CloseRows(inner)
            /\ got' = IF Found(q, h) THEN [p \in {q} \cup DOMAIN got |-> IF p = q THEN h ELSE got[p]]
                      ELSE Error
         \/ /\ q # "genesis"
            /\ FailedScan(inner)
            /\ got' = Error
  /\ UNCHANGED <<tables, faults, phase, tx, reader, view>>

(* A call to the node fails.                                               *)
NodeFails ==
  /\ tx # None /\ inner = None
  /\ got # Error /\ faults < MaxFaults
  /\ got' = Error
  /\ faults' = faults + 1
  /\ UNCHANGED <<tables, phase, tx, inner, reader, pool, view>>

Commit ==
  /\ tx # None /\ inner = None
  /\ got # Error /\ Pending = {}
  /\ EndTx
  /\ phase' = "index"
  /\ IF phase = "initialize" THEN UNCHANGED tables
     ELSE /\ height' = height + 1
          /\ account_reward' =
               IF Queries = {} THEN account_reward
               ELSE [account_reward EXCEPT ![Closing] = Cardinality(BlocksSeen(got["productivity"]))]
  /\ UNCHANGED <<faults, inner, reader>>

Rollback ==
  /\ got = Error
  /\ EndTx
  /\ UNCHANGED <<tables, faults, phase, inner, reader>>

-------------------------------------------------------------------------------
Ask(r) ==
  /\ phase # "down"
  /\ reader[r] = "idle"
  /\ reader' = [reader EXCEPT ![r] = "waiting"]
  /\ UNCHANGED <<tables, faults, indexer, pool, view>>

Read(r) ==
  /\ reader[r] = "waiting"
  /\ \E c \in Conns : Query(c) /\ reader' = [reader EXCEPT ![r] = c]
  /\ UNCHANGED <<tables, faults, indexer>>

Answer(r) ==
  /\ reader[r] \in Conns
  /\ ParseSQLRows(reader[r])
  /\ reader' = [reader EXCEPT ![r] = "idle"]
  /\ UNCHANGED <<tables, faults, indexer, view>>

(* The process ends, for whatever reason, and is started again: among them *)
(* an error while the index catches up, which is fatal.                    *)
Restart ==
  /\ phase # "down" /\ faults < MaxFaults
  /\ faults' = faults + 1
  /\ phase' = "down"
  /\ tx' = None /\ inner' = None /\ got' = <<>>
  /\ reader' = [r \in Readers |-> "idle"]
  /\ pool' = [c \in Conns |-> "closed"]
  /\ view' = [c \in Conns |-> None]
  /\ UNCHANGED tables

Init ==
  /\ height = 0
  /\ account_reward = [e \in Epochs |-> 0]
  /\ faults = 0
  /\ phase = "down"
  /\ tx = None /\ inner = None /\ got = <<>>
  /\ reader = [r \in Readers |-> "idle"]
  /\ pool = [c \in Conns |-> "closed"]
  /\ view = [c \in Conns |-> None]

Next ==
  \/ Start \/ Transact \/ HandlerAsks \/ HandlerQueries \/ HandlerGets
  \/ NodeFails \/ Commit \/ Rollback
  \/ \E r \in Readers : Ask(r) \/ Read(r) \/ Answer(r)
  \/ \E c \in Conns : Expire(c)
  \/ Restart

(* Whoever waits for a connection is served in turn, hence SF; connections *)
(* grow old whether or not they are used in between.                       *)
Fairness ==
  /\ SF_vars(Transact) /\ SF_vars(HandlerQueries)
  /\ WF_vars(Start \/ HandlerAsks \/ HandlerGets \/ Commit \/ Rollback)
  /\ \A r \in Readers : SF_vars(Read(r)) /\ WF_vars(Answer(r))
  /\ \A c \in Conns : SF_vars(Expire(c))

Spec == Init /\ [][Next]_vars /\ Fairness

-------------------------------------------------------------------------------
(* The types of the variables. *)
TypeOK ==
  /\ height \in Heights
  /\ account_reward \in [Epochs -> Heights]
  /\ faults \in 0 .. MaxFaults
  /\ phase \in {"down", "initialize", "index"}
  /\ tx \in Conns \cup {None}
  /\ inner \in Conns \cup {None, "waiting"}
  /\ got # Error =>
       DOMAIN got \subseteq Queries /\ \A q \in DOMAIN got : got[q] \in Heights
  /\ reader \in [Readers -> Conns \cup {"idle", "waiting"}]
  /\ pool \in [Conns -> {"closed", "free", "busy", "lost"}]
  /\ view \in [Conns -> Heights \cup {None}]

(* Every connection in use has one user, who will give it back, save those *)
(* lost to rows left open: no path through a transaction, its queries and  *)
(* its failures forgets one or gives one away that is still in use.        *)
NothingLeaks ==
  /\ \A c \in Conns : pool[c] = "busy" <=> c \in {tx, inner} \cup {reader[r] : r \in Readers}
  /\ tx = inner => tx = None
  /\ \A r \in Readers : reader[r] \in Conns => reader[r] \notin {tx, inner}
  /\ \A r, s \in Readers : reader[r] \in Conns /\ reader[r] = reader[s] => r = s

Closed == 1 .. GetEpochNumber(height) - 1

BlocksOf(e) == {b \in 1 .. height : GetEpochNumber(b) = e}

(* An old read view never makes the rewards of an epoch out of nothing:    *)
(* some of its blocks are counted, and none of another epoch, whichever    *)
(* connection the query was given.  (Not all of them need be counted: the  *)
(* view may be of a block in the middle of the epoch.)                     *)
ClosedEpochsCounted ==
  \A e \in Closed : account_reward[e] \in 1 .. Cardinality(BlocksOf(e))

(* The transaction holds the last connection there is: its handlers wait   *)
(* for another one, which nobody can give back, until the process ends.    *)
(* This is so from the start if only one is allowed.                       *)
LastConnectionHangs ==
  [][Conns \ Lost = {tx} /\ inner = "waiting" => inner' = "waiting" \/ phase' = "down"]_vars

(* As long as there are two connections that are not lost, the index gets  *)
(* to the end of the chain and requests are answered.                      *)
BlocksIndexed == <>(height = MaxHeight \/ Cardinality(Conns \ Lost) < 2)

RequestsAnswered ==
  \A r \in Readers :
    reader[r] = "waiting" ~> reader[r] = "idle" \/ Cardinality(Conns \ Lost) < 2

(* The heights answers may be of. *)
Visible == {height} \cup {view[c] : c \in {k \in Conns : pool[k] # "lost" /\ view[k] # None}}

V == INSTANCE Views WITH visible <- Visible

(* Whatever the pool goes through, queries are answered as Views says: by  *)
(* what some block has left, never by what an open transaction has done,   *)
(* and old blocks are forgotten in the end.                                *)
ImplementsViews == V!ViewsSpec

===============================================================================
