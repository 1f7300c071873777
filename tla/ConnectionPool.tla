--------------------------- MODULE ConnectionPool ---------------------------
(***************************************************************************)
(* The database connections one server has: Kysely's single connection to  *)
(* a SQLite file, or the pool of pg (services/storage-sql.ts,              *)
(* createDialect, which sets neither a size nor a timeout), and the row    *)
(* lock of Postgres.  A statement outside a transaction takes a connection *)
(* and gives it back; a transaction keeps its own to the end.              *)
(***************************************************************************)
EXTENDS Naturals, FiniteSets

CONSTANTS
  Request,   \* the requests a server works on
  List,      \* the rows that are locked
  PoolSizes, \* the sizes a pool may have: 1 for SQLite
  None

ASSUME PoolSizesAssumption == PoolSizes \subseteq Nat \ {0}

ASSUME NoneAssumption == None \notin Request

VARIABLES
  poolSize,  \* the connections there are: configuration, never changed
  held,      \* the requests that hold a connection
  rowOwner   \* the request whose transaction holds the row, or None

poolVars == <<poolSize, held, rowOwner>>

PoolInit ==
  /\ poolSize \in PoolSizes
  /\ held = {}
  /\ rowOwner = [l \in List |-> None]

(* A connection is free, and the pool gives it to r.                       *)
(* Mutant: connections are handed out without counting them.               *)
TakeUncounted(r) ==
  /\ held' = held \cup {r}
  /\ UNCHANGED <<poolSize, rowOwner>>

Take(r) ==
  /\ Cardinality(held) < poolSize
  /\ held' = held \cup {r}
  /\ UNCHANGED <<poolSize, rowOwner>>

(* "select ... for update" by a transaction that has its connection.       *)
LockRow(r, l) ==
  /\ rowOwner[l] = None
  /\ rowOwner' = [rowOwner EXCEPT ![l] = r]
  /\ UNCHANGED <<poolSize, held>>

(* The transactions and statements of the requests R end: their rows are   *)
(* unlocked and their connections free.                                    *)
(* Mutant: a connection is only given back by a commit.                    *)
GiveBackRowsOnly(R) ==
  /\ UNCHANGED <<poolSize, held>>
  /\ rowOwner' = [l \in List |->
                    IF rowOwner[l] \in R THEN None ELSE rowOwner[l]]

GiveBack(R) ==
  /\ held' = held \ R
  /\ UNCHANGED poolSize
  /\ rowOwner' = [l \in List |->
                    IF rowOwner[l] \in R THEN None ELSE rowOwner[l]]
=============================================================================
