------------------------ MODULE ManagerFactoryProofs ------------------------
(* ManagerFor for any number of workers and keys. *)
EXTENDS ManagerFactory, TLAPS

\* The write lock excludes the readers, and the locks are held exactly where
\* ManagerFor holds them.
LockInv ==
  /\ \A w \in Workers : writer = w <=> pc[w] \in {"insert", "unlock"}
  /\ \A w \in Workers : w \in readers <=> pc[w] \in {"lookup", "runlock"}
  /\ writer # NoWorker => readers = {}

\* A worker on its way to make a manager has not made one for that key: it
\* would have found one, its own or a later one, as keys stay in the cache.
CacheInv ==
  /\ EachMakesOne
  /\ \A w \in Workers, k \in Keys : made[w][k] > 0 => rmCache[k] # NoWorker
  /\ \A w \in Workers :
       \/ pc[w] \in {"lock", "insert"}
       \/ pc[w] = "runlock" /\ rm[w] = NoWorker
       => made[w][rmId[w]] = 0

IInv == TypeOK /\ LockInv /\ CacheInv

LEMMA InitInv == Init => IInv
BY WorkersAssumption
   DEF Init, IInv, TypeOK, Steps, LockInv, CacheInv, EachMakesOne

LEMMA NextType == TypeOK /\ [Next]_vars => TypeOK'
<1> SUFFICES ASSUME TypeOK, [Next]_vars PROVE TypeOK'
  OBVIOUS
<1> USE DEF TypeOK, Steps, goto
<1>1. CASE UNCHANGED vars
  BY <1>1 DEF vars
<1>2. ASSUME NEW w \in Workers, Call(w) PROVE TypeOK'
  BY <1>2 DEF Call
<1>3. ASSUME NEW w \in Workers, RLock(w) \/ Lookup(w) \/ RUnlock(w)
      PROVE  TypeOK'
  BY <1>3 DEF RLock, Lookup, RUnlock
<1>4. ASSUME NEW w \in Workers, Lock(w) \/ Unlock(w) PROVE TypeOK'
  BY <1>4 DEF Lock, Unlock
<1>5. ASSUME NEW w \in Workers, Insert(w) PROVE TypeOK'
  BY <1>5 DEF Insert
<1> QED
  BY <1>1, <1>2, <1>3, <1>4, <1>5 DEF Next, ManagerFor

LEMMA NextLock == TypeOK /\ LockInv /\ [Next]_vars => LockInv'
<1> SUFFICES ASSUME TypeOK, LockInv, [Next]_vars PROVE LockInv'
  OBVIOUS
<1> USE WorkersAssumption DEF TypeOK, Steps, LockInv, goto
<1>1. CASE UNCHANGED vars
  BY <1>1 DEF vars
<1>2. ASSUME NEW w \in Workers, Call(w) PROVE LockInv'
  BY <1>2 DEF Call
<1>3. ASSUME NEW w \in Workers, RLock(w) PROVE LockInv'
  BY <1>3 DEF RLock
<1>4. ASSUME NEW w \in Workers, Lookup(w) PROVE LockInv'
  BY <1>4 DEF Lookup
<1>5. ASSUME NEW w \in Workers, RUnlock(w) PROVE LockInv'
  BY <1>5 DEF RUnlock
<1>6. ASSUME NEW w \in Workers, Lock(w) PROVE LockInv'
  BY <1>6 DEF Lock
<1>7. ASSUME NEW w \in Workers, Insert(w) PROVE LockInv'
  BY <1>7 DEF Insert
<1>8. ASSUME NEW w \in Workers, Unlock(w) PROVE LockInv'
  BY <1>8 DEF Unlock
<1> QED
  BY <1>1, <1>2, <1>3, <1>4, <1>5, <1>6, <1>7, <1>8 DEF Next, ManagerFor

LEMMA NextCache == IInv /\ [Next]_vars => CacheInv'
<1> SUFFICES ASSUME IInv, [Next]_vars PROVE CacheInv'
  OBVIOUS
<1> USE WorkersAssumption DEF IInv, TypeOK, CacheInv, EachMakesOne, goto
<1>1. CASE UNCHANGED vars
  BY <1>1 DEF vars
<1>2. ASSUME NEW w \in Workers, Call(w) PROVE CacheInv'
  BY <1>2 DEF Call
<1>3. ASSUME NEW w \in Workers, RLock(w) PROVE CacheInv'
  BY <1>3 DEF RLock
<1>4. ASSUME NEW w \in Workers, Lookup(w) PROVE CacheInv'
  <2>1. rmCache[rmId[w]] = NoWorker => made[w][rmId[w]] = 0
    OBVIOUS
  <2> QED BY <1>4, <2>1 DEF Lookup
<1>5. ASSUME NEW w \in Workers, RUnlock(w) PROVE CacheInv'
  BY <1>5 DEF RUnlock
<1>6. ASSUME NEW w \in Workers, Lock(w) PROVE CacheInv'
  BY <1>6 DEF Lock
<1>7. ASSUME NEW w \in Workers, Insert(w) PROVE CacheInv'
  <2>1. made[w][rmId[w]] = 0 /\ rmId[w] \in Keys /\ pc[w] = "insert"
    BY <1>7 DEF Insert
  <2>2. \A x \in Workers, k \in Keys :
          made'[x][k] = IF x = w /\ k = rmId[w] THEN 1 ELSE made[x][k]
    BY <1>7, <2>1 DEF Insert
  <2>3. \A k \in Keys :
          rmCache'[k] = IF k = rmId[w] THEN w ELSE rmCache[k]
    BY <1>7 DEF Insert
  <2>4. /\ pc'[w] = "unlock" /\ \A x \in Workers \ {w} : pc'[x] = pc[x]
        /\ \A x \in Workers \ {w} : rm'[x] = rm[x]
        /\ rmId' = rmId
    BY <1>7 DEF Insert
  <2>5. EachMakesOne'
    BY <2>2
  <2>6. \A x \in Workers, k \in Keys : made'[x][k] > 0 => rmCache'[k] # NoWorker
    BY <2>2, <2>3
  <2>7. ASSUME NEW x \in Workers,
               \/ pc'[x] \in {"lock", "insert"}
               \/ pc'[x] = "runlock" /\ rm'[x] = NoWorker
        PROVE  made'[x][rmId'[x]] = 0
    <3>1. x # w /\ pc'[x] = pc[x] /\ rm'[x] = rm[x] /\ rmId'[x] \in Keys
      BY <2>4, <2>7
    <3> QED BY <2>2, <2>4, <2>7, <3>1
  <2> QED BY <2>5, <2>6, <2>7
<1>8. ASSUME NEW w \in Workers, Unlock(w) PROVE CacheInv'
  BY <1>8 DEF Unlock
<1> QED
  BY <1>1, <1>2, <1>3, <1>4, <1>5, <1>6, <1>7, <1>8 DEF Next, ManagerFor

LEMMA NextInv == IInv /\ [Next]_vars => IInv'
BY NextType, NextLock, NextCache DEF IInv

\* Type correctness.
THEOREM FactoryTypeCorrect == Spec => []TypeOK
<1>1. IInv => TypeOK
  BY DEF IInv
<1> QED BY InitInv, NextInv, <1>1, PTL DEF Spec

\* The map is never written during a read or another write.
THEOREM FactoryRaceFree == Spec => []MapIsRaceFree
<1>1. IInv => MapIsRaceFree
  BY WorkersAssumption DEF IInv, LockInv, MapIsRaceFree
<1> QED BY InitInv, NextInv, <1>1, PTL DEF Spec

\* No worker makes two managers for a key.
THEOREM WorkerMakesOne == Spec => []EachMakesOne
<1>1. IInv => EachMakesOne
  BY DEF IInv, CacheInv
<1> QED BY InitInv, NextInv, <1>1, PTL DEF Spec
=============================================================================
