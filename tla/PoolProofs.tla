------------------------------ MODULE PoolProofs ------------------------------
(***************************************************************************)
(* Proofs that the requests cannot end up all waiting for each other, for  *)
(* any number of requests, rows and connections, unless transactions that  *)
(* wait for a second connection keep the whole pool.                       *)
(***************************************************************************)
EXTENDS ConnectionPool, FiniteSetTheorems, TLAPS

\* Who holds a row lock writes, and only requests of Nester ask for a second
\* connection.
NestersNest == \A r \in Request : at[r] \in {"nesting", "nested"} => r \in Nester

PoolInv == TypeOK /\ LockHolderWrites /\ NestersNest

\* The holders of connections are finite sets of requests.
LEMMA HoldersFinite ==
    ASSUME TypeOK
    PROVE  /\ first \subseteq Request /\ second \subseteq Request
           /\ IsFiniteSet(first) /\ IsFiniteSet(second)
           /\ Cardinality(first) \in Nat /\ Cardinality(second) \in Nat
           /\ size \in Nat \ {0}
<1>1. first \subseteq Request /\ second \subseteq Request /\ size \in Nat \ {0}
  BY PoolConstants DEF TypeOK
<1>2. IsFiniteSet(first) /\ IsFiniteSet(second)
  BY <1>1, PoolConstants, FS_Subset
<1> QED BY <1>1, <1>2, FS_CardinalityType

\* A connection taken or given back changes the number in use by at most one.
LEMMA Taken ==
    ASSUME TypeOK, InUse < size, NEW r
    PROVE  /\ Cardinality(first \cup {r}) + Cardinality(second) <= size
           /\ Cardinality(first) + Cardinality(second \cup {r}) <= size
<1> DEFINE plus(S) == IF r \in S THEN Cardinality(S) ELSE Cardinality(S) + 1
<1>0. /\ Cardinality(first \cup {r}) = plus(first)
      /\ Cardinality(second \cup {r}) = plus(second)
  BY HoldersFinite, FS_AddElement, Zenon
<1>1. /\ Cardinality(first \cup {r}) <= Cardinality(first) + 1
      /\ Cardinality(second \cup {r}) <= Cardinality(second) + 1
  BY <1>0, HoldersFinite
<1>2. /\ Cardinality(first \cup {r}) \in Nat
      /\ Cardinality(second \cup {r}) \in Nat
  BY HoldersFinite, FS_AddElement, FS_CardinalityType
<1> QED BY <1>1, <1>2, HoldersFinite DEF InUse

LEMMA GivenBack ==
    ASSUME TypeOK, NEW r
    PROVE  /\ Cardinality(first \ {r}) + Cardinality(second) <= size
           /\ Cardinality(first) + Cardinality(second \ {r}) <= size
<1> DEFINE minus(S) == IF r \in S THEN Cardinality(S) - 1 ELSE Cardinality(S)
<1>0. /\ Cardinality(first \ {r}) = minus(first)
      /\ Cardinality(second \ {r}) = minus(second)
  BY HoldersFinite, FS_RemoveElement, Zenon
<1>1. /\ Cardinality(first \ {r}) <= Cardinality(first)
      /\ Cardinality(second \ {r}) <= Cardinality(second)
  BY <1>0, HoldersFinite
<1>2. /\ Cardinality(first \ {r}) \in Nat
      /\ Cardinality(second \ {r}) \in Nat
  BY HoldersFinite, FS_RemoveElement, FS_CardinalityType
<1> QED BY <1>1, <1>2, HoldersFinite DEF InUse, TypeOK

-----------------------------------------------------------------------------
LEMMA InitIsGood == Init => PoolInv
<1> SUFFICES ASSUME Init PROVE PoolInv
  OBVIOUS
<1>1. InUse = 0 /\ size \in Nat
  BY FS_EmptySet, PoolConstants DEF Init, InUse
<1> QED BY <1>1, PoolConstants
        DEF Init, PoolInv, TypeOK, LockHolderWrites, NestersNest, Step, InTx

LEMMA StepKeepsPoolInv == PoolInv /\ [Next]_vars => PoolInv'
<1> SUFFICES ASSUME PoolInv, [Next]_vars PROVE PoolInv'
  OBVIOUS
<1> USE DEF Goes, Step, InTx
<1>1. TypeOK /\ LockHolderWrites /\ NestersNest
  BY DEF PoolInv
<1>2. CASE UNCHANGED vars
  BY <1>1, <1>2 DEF vars, PoolInv, TypeOK, InUse, LockHolderWrites, NestersNest
<1>3. ASSUME NEW r \in Request, Arrive(r) PROVE PoolInv'
  <2>1. TypeOK'
    BY <1>1, <1>3, PoolConstants DEF Arrive, TypeOK, InUse
  <2> QED BY <1>1, <1>3, <2>1 DEF Arrive, PoolInv, LockHolderWrites, NestersNest, TypeOK
<1>4. ASSUME NEW r \in Request, TakeForQuery(r) PROVE PoolInv'
  <2>1. InUse' <= size' BY <1>1, <1>4, Taken DEF TakeForQuery, InUse
  <2>2. TypeOK' BY <1>1, <1>4, <2>1 DEF TakeForQuery, TypeOK
  <2> QED BY <1>1, <1>4, <2>2
          DEF TakeForQuery, PoolInv, LockHolderWrites, NestersNest, TypeOK
<1>5. ASSUME NEW r \in Request, QueryDone(r) PROVE PoolInv'
  <2>1. InUse' <= size' BY <1>1, <1>5, GivenBack DEF QueryDone, InUse
  <2>2. TypeOK' BY <1>1, <1>5, <2>1 DEF QueryDone, TypeOK
  <2> QED BY <1>1, <1>5, <2>2
          DEF QueryDone, PoolInv, LockHolderWrites, NestersNest, TypeOK
<1>6. ASSUME NEW r \in Request, Begin(r) PROVE PoolInv'
  <2>1. InUse' <= size' BY <1>1, <1>6, Taken DEF Begin, InUse
  <2>2. TypeOK' BY <1>1, <1>6, <2>1 DEF Begin, TypeOK
  <2> QED BY <1>1, <1>6, <2>2
          DEF Begin, PoolInv, LockHolderWrites, NestersNest, TypeOK
<1>7. ASSUME NEW r \in Request, ReadThroughDAO(r) \/ ReadInTx(r) PROVE PoolInv'
  <2>1. PICK n \in Nat, step \in {"nesting", "locking"} :
          /\ at[r] = "open" /\ Goes(r, step, n)
          /\ step = "nesting" => n > 0 /\ r \in Nester
          /\ UNCHANGED <<size, first, second, lock>>
    BY <1>7, PoolConstants DEF ReadThroughDAO, ReadInTx
  <2>2. TypeOK'
    BY <1>1, <2>1 DEF TypeOK, InUse
  <2> QED BY <1>1, <2>1, <2>2 DEF PoolInv, LockHolderWrites, NestersNest, TypeOK
<1>8. ASSUME NEW r \in Request, TakeSecond(r) PROVE PoolInv'
  <2>1. InUse' <= size' BY <1>1, <1>8, Taken DEF TakeSecond, InUse
  <2>2. TypeOK' BY <1>1, <1>8, <2>1 DEF TakeSecond, TypeOK
  <2>3. LockHolderWrites'
    BY <1>1, <1>8 DEF TakeSecond, LockHolderWrites, TypeOK
  <2>4. NestersNest'
    BY <1>1, <1>8 DEF TakeSecond, NestersNest, TypeOK
  <2> QED BY <2>2, <2>3, <2>4 DEF PoolInv
<1>9. ASSUME NEW r \in Request, GiveSecond(r) PROVE PoolInv'
  <2>1. InUse' <= size' BY <1>1, <1>9, GivenBack DEF GiveSecond, InUse
  <2>2. TypeOK' BY <1>1, <1>9, <2>1 DEF GiveSecond, TypeOK
  <2> QED BY <1>1, <1>9, <2>2
          DEF GiveSecond, PoolInv, LockHolderWrites, NestersNest, TypeOK
<1>10. ASSUME NEW r \in Request, NEW x \in Row, LockRow(r, x) PROVE PoolInv'
  <2>1. TypeOK' BY <1>1, <1>10 DEF LockRow, TypeOK, InUse
  <2> QED BY <1>1, <1>10, <2>1, PoolConstants
          DEF LockRow, PoolInv, LockHolderWrites, NestersNest, TypeOK
<1>11. ASSUME NEW r \in Request, EndTransaction(r) PROVE PoolInv'
  <2>1. InUse' <= size' BY <1>1, <1>11, GivenBack DEF EndTransaction, InUse
  <2>2. TypeOK' BY <1>1, <1>11, <2>1 DEF EndTransaction, TypeOK
  <2> QED BY <1>1, <1>11, <2>2, PoolConstants
          DEF EndTransaction, PoolInv, LockHolderWrites, NestersNest, TypeOK
<1> QED BY <1>2, <1>3, <1>4, <1>5, <1>6, <1>7, <1>8, <1>9, <1>10, <1>11
        DEF Next, Proceed, Take

LEMMA PoolInvariant == Spec => []PoolInv
<1> QED BY InitIsGood, StepKeepsPoolInv, PTL DEF Spec

-----------------------------------------------------------------------------
\* Who waits when nobody can go on: a lock is free, for only writers hold
\* one, so everybody waits for a connection.
LEMMA StuckPool ==
    ASSUME PoolInv, Stuck
    PROVE  first = Nesting /\ second = {} /\ InUse = size
<1>1. \A r \in Request : ~CanGoOn(r)
  BY DEF Stuck
<1>2. \A x \in Row : lock[x] = None
  BY <1>1 DEF PoolInv, TypeOK, LockHolderWrites, CanGoOn
<1>3. \A r \in Request :
        /\ at[r] \in {"idle", "asking", "opening", "nesting"}
        /\ at[r] # "idle" => ~(InUse < size)
  BY <1>1, <1>2, PoolConstants DEF PoolInv, TypeOK, CanGoOn, Step
<1>4. second = {} /\ first = Nesting
  BY <1>3 DEF PoolInv, TypeOK, InTx, Nesting
<1>5. ~(InUse < size) /\ InUse <= size
  BY <1>3 DEF Stuck, PoolInv, TypeOK
<1>6. InUse \in Nat /\ size \in Nat
  BY HoldersFinite DEF PoolInv, InUse
<1> QED BY <1>4, <1>5, <1>6

(***************************************************************************)
(* Types, and no connection is lost or given out twice.                    *)
(***************************************************************************)
THEOREM PoolTypeCorrect == Spec => []TypeOK
<1>1. PoolInv => TypeOK
  BY DEF PoolInv
<1> QED BY <1>1, PoolInvariant, PTL

(***************************************************************************)
(* The only way the requests end up waiting for each other: all connections*)
(* are kept by transactions that wait for another one in FindByID or       *)
(* FindByPaymentNo.                                                        *)
(***************************************************************************)
THEOREM OnlyNestingSticks == Spec => []StuckOnlyByNesting
<1>1. PoolInv => StuckOnlyByNesting
  <2> SUFFICES ASSUME PoolInv, Stuck PROVE Cardinality(Nesting) = size
    BY DEF StuckOnlyByNesting
  <2>1. Cardinality(first) \in Nat /\ Cardinality({}) = 0
    BY HoldersFinite, FS_EmptySet DEF PoolInv
  <2> QED BY <2>1, StuckPool DEF InUse
<1> QED BY <1>1, PoolInvariant, PTL

(***************************************************************************)
(* With more connections than requests of those handlers somebody can      *)
(* always go on.                                                           *)
(***************************************************************************)
THEOREM EnoughNeverStick == Spec => [](EnoughConnections => ~Stuck)
<1>1. PoolInv => (EnoughConnections => ~Stuck)
  <2> SUFFICES ASSUME PoolInv, EnoughConnections, Stuck PROVE FALSE
    OBVIOUS
  <2>1. Nesting \subseteq Nester
    BY DEF PoolInv, NestersNest, Nesting
  <2>2. IsFiniteSet(Nester)
    BY PoolConstants, FS_Subset
  <2>3. Cardinality(Nesting) <= Cardinality(Nester)
    BY <2>1, <2>2, FS_Subset
  <2>4. Cardinality(first) \in Nat /\ Cardinality({}) = 0 /\ size \in Nat
    BY HoldersFinite, FS_EmptySet DEF PoolInv
  <2>5. Cardinality(Nester) \in Nat
    BY <2>2, FS_CardinalityType
  <2> QED BY <2>3, <2>4, <2>5, StuckPool DEF InUse, EnoughConnections
<1> QED BY <1>1, PoolInvariant, PTL
=============================================================================
