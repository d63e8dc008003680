--------------------------- MODULE ManagerFactory ---------------------------
(***************************************************************************)
(* ManagerFor, the resourceManagerFactory method by which the reconcile    *)
(* workers of one kind obtain the resource manager of an account, region   *)
(* and role.  The factory caches managers in a map under an RWMutex; the   *)
(* lookup holds the read lock, the insertion the write lock, and between   *)
(* the two no lock is held.                                                *)
(*                                                                         *)
(* The five kinds have the same generated code, and a factory each.        *)
(***************************************************************************)
EXTENDS Naturals, FiniteSets

CONSTANTS
  Workers,   \* the concurrent reconcile workers of the kind
  Keys,      \* account/region/roleARN combinations
  NoWorker   \* nobody holds the write lock; nobody made a manager yet

ASSUME WorkersAssumption == NoWorker \notin Workers

VARIABLES
  pc,       \* where each worker is in ManagerFor
  rmId,     \* the key it asks for
  readers,  \* the workers that hold the read lock
  writer,   \* the worker that holds the write lock
  rmCache,  \* by key, the worker whose manager is cached
  made,     \* by worker and key, the managers it has created
  rm        \* the maker of the manager the worker returned with last

vars == <<pc, rmId, readers, writer, rmCache, made, rm>>

Steps == {"idle", "rlock", "lookup", "runlock", "lock", "insert", "unlock"}

TypeOK ==
  /\ pc \in [Workers -> Steps]
  /\ rmId \in [Workers -> Keys]
  /\ readers \in SUBSET Workers
  /\ writer \in Workers \cup {NoWorker}
  /\ rmCache \in [Keys -> Workers \cup {NoWorker}]
  /\ made \in [Workers -> [Keys -> Nat]]
  /\ rm \in [Workers -> Workers \cup {NoWorker}]

\* newResourceManagerFactory: an empty map.
Init ==
  /\ pc = [w \in Workers |-> "idle"]
  /\ rmId \in [Workers -> Keys]
  /\ readers = {} /\ writer = NoWorker
  /\ rmCache = [k \in Keys |-> NoWorker]
  /\ made = [w \in Workers |-> [k \in Keys |-> 0]]
  /\ rm = [w \in Workers |-> NoWorker]

goto(w, step) == pc' = [pc EXCEPT ![w] = step]

\* A reconcile asks for the manager of some account, region and role.
Call(w) ==
  /\ pc[w] = "idle" /\ goto(w, "rlock")
  /\ \E k \in Keys : rmId' = [rmId EXCEPT ![w] = k]
  /\ UNCHANGED <<readers, writer, rmCache, made, rm>>

\* Go holds new readers back once a writer waits.
RLock(w) ==
  /\ pc[w] = "rlock" /\ writer = NoWorker
  /\ \A x \in Workers : pc[x] # "lock"
  /\ readers' = readers \cup {w}
  /\ goto(w, "lookup")
  /\ UNCHANGED <<rmId, writer, rmCache, made, rm>>

Lookup(w) ==
  /\ pc[w] = "lookup"
  /\ rm' = [rm EXCEPT ![w] = rmCache[rmId[w]]]
  /\ goto(w, "runlock")
  /\ UNCHANGED <<rmId, readers, writer, rmCache, made>>

MistakeKeepsReadLock(w) ==
  /\ pc[w] = "runlock"
  /\ readers' = IF rm[w] # NoWorker THEN readers \ {w} ELSE readers
  /\ goto(w, IF rm[w] # NoWorker THEN "idle" ELSE "lock")
  /\ UNCHANGED <<rmId, writer, rmCache, made, rm>>

\* Found: return it.  Not found: take the write lock, without a second look.
RUnlock(w) ==
  /\ pc[w] = "runlock"
  /\ readers' = readers \ {w}
  /\ goto(w, IF rm[w] # NoWorker THEN "idle" ELSE "lock")
  /\ UNCHANGED <<rmId, writer, rmCache, made, rm>>

MistakeLockIgnoresReaders(w) ==
  /\ pc[w] = "lock" /\ writer = NoWorker
  /\ writer' = w
  /\ goto(w, "insert")
  /\ UNCHANGED <<rmId, readers, rmCache, made, rm>>

Lock(w) ==
  /\ pc[w] = "lock" /\ writer = NoWorker /\ readers = {}
  /\ writer' = w
  /\ goto(w, "insert")
  /\ UNCHANGED <<rmId, readers, rmCache, made, rm>>

MistakeInsertForgotten(w) ==
  /\ pc[w] = "insert"
  /\ made' = [made EXCEPT ![w][rmId[w]] = @ + 1]
  /\ rm' = [rm EXCEPT ![w] = w]
  /\ goto(w, "unlock")
  /\ UNCHANGED <<rmId, readers, writer, rmCache>>

\* newResourceManager, which never fails, and the insertion into the map; a
\* manager another worker has put there meanwhile is overwritten.
Insert(w) ==
  /\ pc[w] = "insert"
  /\ made' = [made EXCEPT ![w][rmId[w]] = @ + 1]
  /\ rm' = [rm EXCEPT ![w] = w]
  /\ rmCache' = [rmCache EXCEPT ![rmId[w]] = w]
  /\ goto(w, "unlock")
  /\ UNCHANGED <<rmId, readers, writer>>

\* The deferred Unlock runs as the method returns.
Unlock(w) ==
  /\ pc[w] = "unlock"
  /\ writer' = NoWorker
  /\ goto(w, "idle")
  /\ UNCHANGED <<rmId, readers, rmCache, made, rm>>

ManagerFor(w) ==
  RLock(w) \/ Lookup(w) \/ RUnlock(w) \/ Lock(w) \/ Insert(w) \/ Unlock(w)

Next == \E w \in Workers : Call(w) \/ ManagerFor(w)

Spec == Init /\ [][Next]_vars

\* A worker that has asked goes on, and Go's mutexes starve nobody.  Whether
\* it ever asks again is up to the work queue.
FairSpec ==
  /\ Spec
  /\ \A w \in Workers : /\ WF_vars(ManagerFor(w))
                        /\ SF_vars(RLock(w)) /\ SF_vars(Lock(w))
-----------------------------------------------------------------------------
\* The map is never written while it is read, nor by two workers at a time,
\* which Go answers with a fatal error that recover cannot catch.
MapIsRaceFree ==
  \A w, x \in Workers :
    pc[w] = "insert" /\ pc[x] \in {"lookup", "insert"} => w = x

\* No worker makes a second manager for a key: having made one it finds one in
\* the cache ever after.  So at most as many managers exist for a key as there
\* are workers, however often ManagerFor is called.
EachMakesOne == \A w \in Workers, k \in Keys : made[w][k] <= 1

\* Every call returns, and with a manager.
CallsReturn ==
  \A w \in Workers :
    pc[w] = "rlock" ~> pc[w] = "idle" /\ rm[w] # NoWorker

\* What ManagerFor's comment says of the key: it avoids creating several
\* managers for the same account/region/roleARN combination.
OneManagerPerKey ==
  \A w, x \in Workers, k \in Keys :
    made[w][k] > 0 /\ made[x][k] > 0 => w = x
=============================================================================
