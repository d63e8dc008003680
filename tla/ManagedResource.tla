--------------------------- MODULE ManagedResource ---------------------------
(***************************************************************************)
(* What every resource manager of the controller promises of the one AWS   *)
(* resource behind a custom resource, whatever its kind: it is made only   *)
(* under the finalizer, destroyed only when the object is being deleted,   *)
(* never replaced while it exists, and the object outlives it.             *)
(*                                                                         *)
(* A resource that AWS has agreed to remove counts as destroyed, although  *)
(* its removal may still take time.                                        *)
(***************************************************************************)
EXTENDS Naturals

CONSTANTS
  Ids,    \* identities AWS may give to a resource
  NoId    \* no identity

VARIABLES
  phase,      \* of the object: "live", "deleting" or "gone"
  finalizer,  \* the object carries the controller's finalizer
  bound,      \* the identity in the object's status
  pending,    \* one a create brought that is not in the status yet
  existing,   \* the identities of the resources in AWS
  drift       \* a counter that goes up when other parties remove one

vars == <<phase, finalizer, bound, pending, existing, drift>>

TypeOK ==
  /\ phase \in {"live", "deleting", "gone"}
  /\ finalizer \in BOOLEAN
  /\ bound \in Ids \cup {NoId}
  /\ pending \in Ids \cup {NoId}
  /\ existing \subseteq Ids
  /\ drift \in Nat

Init ==
  /\ phase \in {"live", "gone"}
  /\ finalizer = FALSE
  /\ bound = NoId
  /\ pending = NoId
  /\ existing = {}
  /\ drift \in Nat
-----------------------------------------------------------------------------
\* The user applies the resource, also under the name of an earlier one.
Apply ==
  /\ phase = "gone"
  /\ phase' = "live" /\ finalizer' = FALSE /\ bound' = NoId
  /\ UNCHANGED <<pending, existing, drift>>

\* Without a finalizer a deleted object is gone at once.
Delete ==
  /\ phase = "live"
  /\ phase' = IF finalizer THEN "deleting" ELSE "gone"
  /\ UNCHANGED <<finalizer, bound, pending, existing, drift>>

Guard ==
  /\ phase # "gone"
  /\ finalizer' = TRUE
  /\ UNCHANGED <<phase, bound, pending, existing, drift>>

\* The reply may be lost, and the identity with it.
Create(i) ==
  /\ phase # "gone" /\ finalizer
  /\ bound \notin existing /\ pending = NoId /\ i \notin existing
  /\ existing' = existing \cup {i}
  /\ pending' \in {i, NoId}
  /\ UNCHANGED <<phase, finalizer, bound, drift>>

Bind ==
  /\ phase # "gone" /\ pending # NoId /\ bound \notin existing
  /\ bound' = pending
  /\ pending' = NoId
  /\ UNCHANGED <<phase, finalizer, existing, drift>>

\* A failed call or a restart costs what was not written down.
Forget ==
  /\ pending' = NoId
  /\ UNCHANGED <<phase, finalizer, bound, existing, drift>>

Destroy ==
  /\ phase = "deleting"
  /\ existing' = existing \ {bound}
  /\ UNCHANGED <<phase, finalizer, bound, pending, drift>>

Release ==
  /\ phase = "deleting" /\ bound \notin existing /\ pending = NoId
  /\ phase' = "gone" /\ finalizer' = FALSE
  /\ UNCHANGED <<bound, pending, existing, drift>>

\* Another party removes a resource in AWS, which the counter records: no step
\* of the controller can pass for one of these.
Drift(i) ==
  /\ i \in existing
  /\ existing' = existing \ {i}
  /\ pending' \in {pending, NoId}
  /\ drift' = drift + 1
  /\ UNCHANGED <<phase, finalizer, bound>>

Next ==
  \/ Apply \/ Delete \/ Guard \/ Bind \/ Forget \/ Destroy \/ Release
  \/ \E i \in Ids : Create(i) \/ Drift(i)

Spec == Init /\ [][Next]_vars
-----------------------------------------------------------------------------
\* A resource the object or the worker knows of has an object with a finalizer:
\* deleting the object at any moment cannot leave it behind.
Guarded ==
  bound \in existing \/ pending # NoId => phase # "gone" /\ finalizer
=============================================================================
