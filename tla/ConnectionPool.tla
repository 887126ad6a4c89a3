---------------------------- MODULE ConnectionPool ----------------------------
(***************************************************************************)
(* The connections of database/sql that all requests share.  A query takes *)
(* a connection and gives it back; a transaction keeps one until its end.  *)
(* CancelOrder, CheckIn, CheckOut, ExtendStay and processCallback read     *)
(* through the DAO inside their transaction, and not through `tx': they    *)
(* ask for a second connection while they keep the first.                  *)
(*                                                                         *)
(* Waiting for a connection has no limit: no call carries a context.  A row*)
(* lock can be waited for as well; InnoDB ends such a wait with an error   *)
(* when it takes too long or closes a circle, so one row per transaction is*)
(* enough here.                                                            *)
(***************************************************************************)
EXTENDS Integers, FiniteSets

CONSTANTS
    Request,    \* requests the server can be serving at the same time
    Nester,     \* the ones that can run one of the five handlers above
    Row,        \* rows the transactions lock
    MaxQueries, \* queries of one read: the row, then each Preload
    Sizes,      \* sizes of the pool that are looked at
    None

ASSUME PoolConstants ==
    /\ IsFiniteSet(Request) /\ Nester \subseteq Request /\ Row # {}
    /\ Sizes \subseteq Nat \ {0} /\ MaxQueries \in Nat \ {0}
    /\ None \notin Request

VARIABLES
    size,       \* connections of the pool
    first,      \* requests that hold a connection
    second,     \* requests that hold another one besides
    lock,       \* the request that has locked each row
    at,         \* step of each request
    todo        \* queries left of the read it is making

vars == <<size, first, second, lock, at, todo>>

Step == {"idle", "asking", "asked", "opening", "open", "nesting", "nested",
         "locking", "writing"}

InUse == Cardinality(first) + Cardinality(second)

-----------------------------------------------------------------------------
Goes(r, step, queries) ==
    /\ at' = [at EXCEPT ![r] = step]
    /\ todo' = [todo EXCEPT ![r] = queries]

\* A list, a detail, or the access check of a handler starts with a read; the
\* creation of an order, a callback and a save of the sweep open a transaction.
Arrive(r) ==
    /\ at[r] = "idle"
    /\ \/ \E n \in 1 .. MaxQueries : Goes(r, "asking", n)
       \/ Goes(r, "opening", 0)
    /\ UNCHANGED <<size, first, second, lock>>

TakeForQuery(r) ==
    /\ at[r] = "asking" /\ InUse < size
    /\ first' = first \cup {r}
    /\ Goes(r, "asked", todo[r] - 1)
    /\ UNCHANGED <<size, second, lock>>

\* Go on with the next query, answer, or go on to the service's transaction.
QueryDone(r) ==
    /\ at[r] = "asked"
    /\ first' = first \ {r}
    /\ IF todo[r] > 0 THEN Goes(r, "asking", todo[r])
       ELSE Goes(r, "idle", 0) \/ Goes(r, "opening", 0)
    /\ UNCHANGED <<size, second, lock>>

Begin(r) ==
    /\ at[r] = "opening" /\ InUse < size
    /\ first' = first \cup {r}
    /\ Goes(r, "open", 0)
    /\ UNCHANGED <<size, second, lock>>

\* Fault: the row is locked before the order is read.
ReadThroughDAOLocked(r) ==
    /\ at[r] = "open" /\ r \in Nester
    /\ \E x \in Row, n \in 1 .. MaxQueries :
         /\ lock[x] \in {None, r}
         /\ lock' = [lock EXCEPT ![x] = r]
         /\ Goes(r, "nesting", n)
    /\ UNCHANGED <<size, first, second>>

\* s.orderDAO.FindByID and h.paymentDAO.FindByPaymentNo inside a transaction.
ReadThroughDAO(r) ==
    /\ at[r] = "open" /\ r \in Nester
    /\ \E n \in 1 .. MaxQueries : Goes(r, "nesting", n)
    /\ UNCHANGED <<size, first, second, lock>>

TakeSecond(r) ==
    /\ at[r] = "nesting" /\ InUse < size
    /\ second' = second \cup {r}
    /\ Goes(r, "nested", todo[r] - 1)
    /\ UNCHANGED <<size, first, lock>>

GiveSecond(r) ==
    /\ at[r] = "nested"
    /\ second' = second \ {r}
    /\ IF todo[r] > 0 THEN Goes(r, "nesting", todo[r]) ELSE Goes(r, "locking", 0)
    /\ UNCHANGED <<size, first, lock>>

\* The other transactions make their reads with `tx'.
ReadInTx(r) ==
    /\ at[r] = "open"
    /\ Goes(r, "locking", 0)
    /\ UNCHANGED <<size, first, second, lock>>

LockRow(r, x) ==
    /\ at[r] = "locking" /\ lock[x] = None
    /\ lock' = [lock EXCEPT ![x] = r]
    /\ Goes(r, "writing", 0)
    /\ UNCHANGED <<size, first, second>>

\* Fault: a transaction that is rolled back keeps its connection.
EndTransactionLeak(r) ==
    /\ at[r] \in {"open", "locking", "writing"}
    /\ first' = IF at[r] = "writing" THEN first \ {r} ELSE first
    /\ lock' = [x \in Row |-> IF lock[x] = r THEN None ELSE lock[x]]
    /\ Goes(r, "idle", 0)
    /\ UNCHANGED <<size, second>>

\* Commit, or a rollback after any of the calls that return.
EndTransaction(r) ==
    /\ at[r] \in {"open", "locking", "writing"}
    /\ first' = first \ {r}
    /\ lock' = [x \in Row |-> IF lock[x] = r THEN None ELSE lock[x]]
    /\ Goes(r, "idle", 0)
    /\ UNCHANGED <<size, second>>

\* What goes on by itself, and what waits for a connection.
Proceed(r) ==
    \/ QueryDone(r) \/ GiveSecond(r)
    \/ ReadThroughDAO(r) \/ ReadInTx(r)
    \/ \E x \in Row : LockRow(r, x)
    \/ EndTransaction(r)

Take(r) == TakeForQuery(r) \/ Begin(r) \/ TakeSecond(r)

Init ==
    /\ size \in Sizes
    /\ first = {} /\ second = {}
    /\ lock = [x \in Row |-> None]
    /\ at = [r \in Request |-> "idle"]
    /\ todo = [r \in Request |-> 0]

Next == \E r \in Request : Arrive(r) \/ Proceed(r) \/ Take(r)

Spec == Init /\ [][Next]_vars

\* The calls of a request return.  Whoever waits for a connection that comes
\* free again and again gets one: database/sql hands it to a waiting request.
FairSpec == Spec /\ \A r \in Request : WF_vars(Proceed(r)) /\ SF_vars(Take(r))

-----------------------------------------------------------------------------
(***************************************************************************)
(* Types, and who holds what: a connection or a lock is held at the steps  *)
(* that need it and at no other, so none is ever lost.                     *)
(***************************************************************************)
InTx == {"open", "nesting", "nested", "locking", "writing"}

TypeOK ==
    /\ size \in Sizes
    /\ lock \in [Row -> Request \cup {None}]
    /\ at \in [Request -> Step]
    /\ todo \in [Request -> Nat]
    /\ \A r \in Request : at[r] \in {"asking", "nesting"} => todo[r] > 0
    /\ first = {r \in Request : at[r] \in InTx \cup {"asked"}}
    /\ second = {r \in Request : at[r] = "nested"}
    /\ InUse <= size

(***************************************************************************)
(* Requests can end up all waiting for each other in one way only: every   *)
(* connection of the pool is kept by a transaction that waits for a second *)
(* one.  Row locks add no other way, even if InnoDB would not end the waits*)
(* for them: who holds one asks for nothing more.                          *)
(***************************************************************************)
Nesting == {r \in Request : at[r] = "nesting"}

CanGoOn(r) ==
    \/ at[r] \in {"asked", "open", "nested", "writing"}
    \/ at[r] \in {"asking", "opening", "nesting"} /\ InUse < size
    \/ at[r] = "locking" /\ \E x \in Row : lock[x] = None

Stuck == /\ \E r \in Request : at[r] # "idle"
         /\ \A r \in Request : ~CanGoOn(r)

LockHolderWrites == \A x \in Row : lock[x] # None => at[lock[x]] = "writing"

StuckOnlyByNesting == Stuck => Cardinality(Nesting) = size

(***************************************************************************)
(* With more connections than requests of the five handlers, every request *)
(* that came in is answered.                                               *)
(***************************************************************************)
EnoughConnections == Cardinality(Nester) < size

EveryRequestEnds ==
    EnoughConnections => \A r \in Request : at[r] # "idle" ~> at[r] = "idle"
=============================================================================
