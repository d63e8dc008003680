------------------------ MODULE ManagedResourceProofs ------------------------
(* What the promise of ManagedResource amounts to for the object's owner. *)
EXTENDS ManagedResource, TLAPS

Sound == Guarded /\ existing \subseteq Ids

LEMMA SoundStep ==
  ASSUME NoId \notin Ids, Sound, [Next]_vars
  PROVE  Sound'
<1> USE DEF Sound, Guarded
<1>1. CASE UNCHANGED vars
  BY <1>1 DEF vars
<1>2. CASE Apply
  BY <1>2 DEF Apply
<1>3. CASE Delete
  BY <1>3 DEF Delete
<1>4. CASE Guard
  BY <1>4 DEF Guard
<1>5. CASE Bind
  BY <1>5 DEF Bind
<1>6. CASE Forget
  BY <1>6 DEF Forget
<1>7. CASE Destroy
  BY <1>7 DEF Destroy
<1>8. CASE Release
  BY <1>8 DEF Release
<1>9. ASSUME NEW i \in Ids, Create(i) \/ Drift(i)
      PROVE  Sound'
  BY <1>9 DEF Create, Drift
<1> QED
  BY <1>1, <1>2, <1>3, <1>4, <1>5, <1>6, <1>7, <1>8, <1>9 DEF Next

\* A manager that keeps the promise never leaves a resource without an object
\* that could delete it: whatever is bound to the object or on its way to be has
\* an object with the finalizer, so that no deletion slips past (the order of
\* MarkManaged, Create, Delete and MarkUnmanaged in the runtime).
THEOREM GuardedAlways ==
  ASSUME NoId \notin Ids
  PROVE  Spec => []Guarded
<1>1. Init => Sound
  BY DEF Init, Sound, Guarded
<1>2. Sound /\ [Next]_vars => Sound'
  BY SoundStep
<1>3. Sound => Guarded
  BY DEF Sound
<1> QED BY <1>1, <1>2, <1>3, PTL DEF Spec
=============================================================================
