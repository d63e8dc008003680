----------------------- MODULE ResolverEndpointProofs -----------------------
(***************************************************************************)
(* What ResolverEndpoint keeps for any subnets, address lists and bounds.  *)
(* The invariant relates the calls an update has still to make to the      *)
(* addresses AWS holds at that moment.                                     *)
(***************************************************************************)
EXTENDS ResolverEndpoint, TLAPS

\* Outside an operation no call is left over, and an operation under way has
\* an id it could be given.
WorkOfPc ==
  /\ ctl.pc # "work" => work = NoWork
  /\ ctl.mode = "delete" => work = NoWork
  /\ ctl.pc \in {"creating", "work"} => ctl.id \in EndpointIds

TypeInv == TypeOK /\ WorkOfPc

\* While something is to be detached, it is unwanted, and what is attached or
\* to be attached covers the wanted subnets.
MoveInv ==
  /\ \A a \in work.removed : a.subnet \notin SubnetsOf(ctl.desired.addresses)
  /\ work.removed # {} =>
       /\ ctl.id \in Live
       /\ SubnetsOf(ctl.desired.addresses) \subseteq
            SubnetsOf(endpoints[ctl.id].attached) \cup SubnetsOf(work.added)
-----------------------------------------------------------------------------
LEMMA AnySpecType == AnySpec \in Specs
<1>1. \E s \in Specs : TRUE
  <2>1. PICK f \in FixedFields, l \in AddressLists : TRUE
    BY EndpointAssumption
  <2>2. [name |-> NoName, fixed |-> f, tags |-> {}, addresses |-> l] \in Specs
    BY DEF Specs
  <2> QED BY <2>2
<1> QED BY <1>1 DEF AnySpec

LEMMA IdleType == Idle \in Reconciles /\ Idle.pc = "idle" /\ Idle.mode = "sync"
BY AnySpecType DEF Idle, Reconciles

LEMMA NoWorkType == NoWork \in Work /\ NoWork.removed = {}
BY DEF NoWork, Work

\* GetIPAddressDifference: what is missing are addresses of the first list in
\* subnets that the second does not have, and all such.
LEMMA MissingSpec ==
  ASSUME NEW wanted, NEW present
  PROVE  /\ Missing(wanted, present) \subseteq wanted
         /\ \A a \in Missing(wanted, present) : a.subnet \notin SubnetsOf(present)
         /\ SubnetsOf(wanted) \subseteq
              SubnetsOf(present) \cup SubnetsOf(Missing(wanted, present))
BY DEF Missing, SubnetsOf

\* The calls of an update are well-formed when the lists are.
LEMMA PlanType ==
  ASSUME NEW d \in Specs,
         NEW l, l.tags \in SUBSET TagKeys, l.addresses \in SUBSET Addresses
  PROVE  sdkUpdate(d, l) \in Work
<1>1. d.addresses \in SUBSET Addresses /\ d.tags \in SUBSET TagKeys
  BY EndpointAssumption DEF Specs
<1>2. /\ Missing(d.addresses, l.addresses) \in SUBSET Addresses
      /\ Missing(l.addresses, d.addresses) \in SUBSET Addresses
  BY <1>1, MissingSpec
<1> QED BY <1>1, <1>2 DEF sdkUpdate, newResourceDelta, GetIPAddressDifference, Work

LEMMA WithType ==
  ASSUME TypeOK, NEW t \in EndpointIds, NEW d \in Specs, Creatable(d)
  PROVE  /\ With(t, d) \in [Live \cup {t} -> Endpoints]
         /\ DOMAIN With(t, d) = Live \cup {t}
         /\ \A e \in Live : With(t, d)[e] = endpoints[e]
<1>1. NewEndpoint(d) \in Endpoints
  BY EndpointAssumption DEF NewEndpoint, Endpoints, Specs, Creatable
<1> QED BY <1>1 DEF With, TypeOK

LEMMA EndType ==
  ASSUME TypeOK, ReconcileError \/ ReconcileLost
  PROVE  cr' \in Objects /\ ctl' = Idle /\ work' = NoWork /\ queued' = TRUE
<1>1. CASE cr' = cr
  BY <1>1 DEF TypeOK, ReconcileError, ReconcileLost
<1>2. CASE cr' = [cr EXCEPT !.synced = FALSE]
  BY <1>2 DEF TypeOK, ReconcileError, ReconcileLost, Objects
<1> QED BY <1>1, <1>2 DEF ReconcileError, ReconcileLost

\* A failing call ends the reconcile, or only the rest of SyncIPAddresses.
LEMMA FailType ==
  ASSUME TypeOK, OperationFails
  PROVE  /\ cr' \in Objects /\ work' = NoWork /\ queued' \in BOOLEAN
         /\ ctl' = Idle \/ ctl' = ctl
<1>1. CASE ReconcileError
  BY <1>1, EndType
<1>2. CASE ~ReconcileError
  BY <1>2 DEF OperationFails, TypeOK
<1> QED BY <1>1, <1>2
-----------------------------------------------------------------------------
(* Types *)

LEMMA InitType == Init => TypeInv
<1> SUFFICES ASSUME Init PROVE TypeInv
  OBVIOUS
<1>1. cr \in Objects
  BY DEF Init, Objects
<1>2. ctl \in Reconciles /\ work \in Work /\ work = NoWork /\ ctl.pc = "idle"
  BY IdleType, NoWorkType DEF Init
<1>3. endpoints \in [Live -> Endpoints] /\ Live = {}
  BY DEF Init, Live
<1> QED BY <1>1, <1>2, <1>3, EndpointBounds DEF Init, TypeInv, TypeOK, WorkOfPc

LEMMA NextType == TypeInv /\ [Next]_vars => TypeInv'
<1> SUFFICES ASSUME TypeInv, [Next]_vars PROVE TypeInv'
  OBVIOUS
<1> USE IdleType, NoWorkType, EndpointBounds DEF TypeInv, WorkOfPc
<1>1. CASE UNCHANGED vars
  BY <1>1 DEF vars, TypeOK, Live
<1>2. CASE EditSpec
  BY <1>2 DEF EditSpec, TypeOK, Live, Objects
<1>3. CASE DeleteResource
  BY <1>3 DEF DeleteResource, TypeOK, Live, Objects
<1>4. ASSUME NEW e \in Live, EndpointSettles(e)
      PROVE  TypeInv'
  <2>1. endpoints' \in [Live -> Endpoints] /\ DOMAIN endpoints' = Live
    BY <1>4 DEF EndpointSettles, TypeOK, Endpoints
  <2> QED BY <1>4, <2>1 DEF EndpointSettles, TypeOK, Live
<1>5. CASE StartReconcile
  <2>1. ctl' \in Reconciles /\ ctl'.pc \in {"find", "idle"} /\ work = NoWork
    BY <1>5 DEF StartReconcile, TypeOK, Objects, Reconciles
  <2> QED BY <1>5, <2>1 DEF StartReconcile, TypeOK, Live
<1>6. CASE Resync
  BY <1>6 DEF Resync, TypeOK, Live
<1>7. CASE FindNothing
  BY <1>7 DEF FindNothing, TypeOK, Live, Reconciles
<1>8. ASSUME NEW l \in SUBSET Addresses, FoundWith(l), faults' \in 0..MaxFaults,
             UNCHANGED <<cr, queued, endpoints, edits>>
      PROVE  TypeInv'
  <2>1. /\ ctl' \in Reconciles /\ ctl'.pc = "work" /\ ctl.id \in Live
        /\ ctl'.id = ctl.id /\ ctl'.mode = ctl.mode /\ ctl.id \in EndpointIds
    BY <1>8 DEF FoundWith, TypeOK, Reconciles
  <2>2. work' \in Work /\ (ctl.mode = "delete" => work' = NoWork)
    <3>1. endpoints[ctl.id] \in Endpoints /\ ctl.desired \in Specs
      BY <2>1 DEF TypeOK, Reconciles
    <3>2. sdkUpdate(ctl.desired, Observed(ctl.id, l)) \in Work
      BY <3>1, PlanType DEF Observed, Endpoints
    <3> QED BY <1>8, <3>2 DEF FoundWith
  <2> QED BY <1>8, <2>1, <2>2 DEF TypeOK, Live
<1>9. CASE FindEndpoint
  <2>1. endpoints[ctl.id].attached \in SUBSET Addresses
    BY <1>9 DEF FindEndpoint, TypeOK, Endpoints
  <2> QED BY <1>8, <1>9, <2>1 DEF FindEndpoint, TypeOK
<1>10. CASE FindWithoutAddresses
  <2>1. ctl.desired.addresses \in SUBSET Addresses
    BY EndpointAssumption DEF TypeOK, Reconciles, Specs
  <2>2. faults' \in 0..MaxFaults
    BY <1>10 DEF FindWithoutAddresses, TypeOK
  <2> QED BY <1>8, <1>10, <2>1, <2>2 DEF FindWithoutAddresses
<1>11. CASE MarkManaged
  <2>1. CASE ReconcileError
    BY <1>11, <2>1, EndType DEF MarkManaged, TypeOK, Live
  <2>2. CASE ~ReconcileError
    BY <1>11, <2>2 DEF MarkManaged, TypeOK, Live, Objects, Reconciles
  <2> QED BY <2>1, <2>2
<1>12. CASE CreatePanics
  BY <1>12, EndType DEF CreatePanics, TypeOK, Live
<1>13. CASE PrepareCreate
  BY <1>13 DEF PrepareCreate, getCreatorRequestId, TypeOK, Live, Reconciles
<1>14. CASE CreateResolverEndpoint \/ CreateRetried
  <2>1. /\ ctl.pc = "creating" /\ ctl.id \in EndpointIds
        /\ ctl.desired \in Specs /\ Creatable(ctl.desired)
    BY <1>14 DEF CreateResolverEndpoint, CreateRetried, TypeOK, Reconciles
  <2>2. /\ endpoints' \in [Live \cup {ctl.id} -> Endpoints]
        /\ DOMAIN endpoints' = Live \cup {ctl.id}
    <3>1. endpoints' = With(ctl.id, ctl.desired)
      BY <1>14 DEF CreateResolverEndpoint, CreateRetried
    <3> QED BY <2>1, <3>1, WithType
  <2>3. /\ work' = NoWork /\ ctl' \in Reconciles /\ ctl'.id = ctl.id
        /\ UNCHANGED <<cr, queued, faults, edits>>
    BY <1>14, <2>1 DEF CreateResolverEndpoint, CreateRetried, TypeOK, Reconciles
  <2> QED BY <2>1, <2>2, <2>3 DEF TypeOK, Live
<1>15. CASE TagResource \/ UntagResource
  <2>1. ctl.id \in Live /\ endpoints[ctl.id] \in Endpoints /\ work \in Work
    BY <1>15 DEF TagResource, UntagResource, Updating, TypeOK
  <2>2. PICK t \in SUBSET TagKeys :
          endpoints' = [endpoints EXCEPT ![ctl.id].tags = t]
    BY <1>15, <2>1 DEF TagResource, UntagResource, Endpoints, Work
  <2>3. [endpoints[ctl.id] EXCEPT !.tags = t] \in Endpoints
    BY <2>1 DEF Endpoints
  <2>4. endpoints' \in [Live -> Endpoints] /\ DOMAIN endpoints' = Live
    BY <2>1, <2>2, <2>3 DEF TypeOK
  <2>5. work' \in Work /\ ctl.pc = "work" /\ ctl.mode = "sync"
    BY <1>15, <2>1 DEF TagResource, UntagResource, Work, Updating
  <2> QED BY <1>15, <2>4, <2>5 DEF TagResource, UntagResource, TypeOK, Live
<1>16. CASE UpdateResolverEndpoint
  <2> DEFINE sent == ctl.desired.name
             name == IF sent = NoName THEN endpoints[ctl.id].name ELSE sent
  <2>1. /\ ctl.id \in Live /\ endpoints[ctl.id] \in Endpoints /\ work \in Work
        /\ ctl.pc = "work" /\ ctl.mode = "sync" /\ ctl.id \in EndpointIds
    BY <1>16 DEF UpdateResolverEndpoint, Updating, TypeOK
  <2>2. name \in Names
    BY <2>1 DEF TypeOK, Reconciles, Specs, Endpoints
  <2>3. /\ endpoints' = [endpoints EXCEPT ![ctl.id].name = name]
        /\ ctl' = [ctl EXCEPT !.updated.name = name,
                              !.updated.fixed = endpoints[ctl.id].fixed]
        /\ work' = [work EXCEPT !.update = FALSE]
        /\ UNCHANGED <<cr, queued, faults, edits>>
    BY <1>16 DEF UpdateResolverEndpoint
  <2> HIDE DEF name
  <2>4. endpoints' \in [Live -> Endpoints] /\ DOMAIN endpoints' = Live
    <3>1. [endpoints[ctl.id] EXCEPT !.name = name] \in Endpoints
      BY <2>1, <2>2 DEF Endpoints
    <3> QED BY <2>1, <2>3, <3>1 DEF TypeOK
  <2>5. /\ ctl' \in Reconciles /\ ctl'.pc = "work" /\ ctl'.mode = "sync"
        /\ ctl'.id = ctl.id
    <3>1. [ctl.updated EXCEPT !.name = name, !.fixed = endpoints[ctl.id].fixed]
            \in Specs
      BY <2>1, <2>2 DEF TypeOK, Reconciles, Specs, Endpoints
    <3>2. ctl' = [ctl EXCEPT !.updated =
            [ctl.updated EXCEPT !.name = name, !.fixed = endpoints[ctl.id].fixed]]
      BY <2>3 DEF TypeOK, Reconciles, Specs
    <3> QED BY <2>1, <3>1, <3>2 DEF TypeOK, Reconciles
  <2>6. work' \in Work
    BY <2>1, <2>3 DEF Work
  <2> QED BY <2>1, <2>3, <2>4, <2>5, <2>6 DEF TypeOK, Live
<1>17. ASSUME NEW a \in Addresses,
              \/ AssociateResolverEndpointIpAddress(a)
              \/ DisassociateResolverEndpointIpAddress(a)
       PROVE  TypeInv'
  <2>1. /\ ctl.id \in Live /\ endpoints[ctl.id] \in Endpoints /\ work \in Work
        /\ ctl.pc = "work" /\ ctl.mode = "sync"
    BY <1>17 DEF AssociateResolverEndpointIpAddress, MayAttach, MayDetach,
                 DisassociateResolverEndpointIpAddress, Updating, TypeOK
  <2>2. PICK s \in SUBSET Addresses :
          endpoints' = [endpoints EXCEPT ![ctl.id].attached = s,
                                         ![ctl.id].busy = TRUE]
    BY <1>17, <2>1 DEF AssociateResolverEndpointIpAddress, Endpoints,
                       DisassociateResolverEndpointIpAddress
  <2>3. endpoints' \in [Live -> Endpoints] /\ DOMAIN endpoints' = Live
    <3>1. [endpoints[ctl.id] EXCEPT !.attached = s, !.busy = TRUE] \in Endpoints
      BY <2>1 DEF Endpoints
    <3>2. endpoints' = [endpoints EXCEPT ![ctl.id] =
            [endpoints[ctl.id] EXCEPT !.attached = s, !.busy = TRUE]]
      BY <2>1, <2>2 DEF TypeOK, Endpoints
    <3> QED BY <2>1, <3>1, <3>2 DEF TypeOK
  <2>4. work' \in Work
    BY <1>17, <2>1 DEF AssociateResolverEndpointIpAddress, Work,
                       DisassociateResolverEndpointIpAddress
  <2> QED BY <1>17, <2>1, <2>3, <2>4
          DEF AssociateResolverEndpointIpAddress,
              DisassociateResolverEndpointIpAddress, TypeOK, Live
<1>18. CASE CallRefused
  BY <1>18, FailType DEF CallRefused, TypeOK, Live
<1>19. CASE CallFails
  <2>1. faults' \in 0..MaxFaults
    BY <1>19 DEF CallFails, TypeOK
  <2> QED BY <1>19, <2>1, FailType DEF CallFails, TypeOK, Live
<1>20. CASE PatchSpec
  <2>1. PatchedSpec(cr.spec) \in Specs
    BY DEF PatchedSpec, TypeOK, Objects, Reconciles, Specs
  <2>2. cr' \in Objects /\ queued' \in BOOLEAN
    BY <1>20, <2>1 DEF PatchSpec, TypeOK, Objects
  <2>3. ctl' \in Reconciles /\ ctl'.pc = "status" /\ work' = NoWork
    BY <1>20 DEF PatchSpec, TypeOK, Reconciles
  <2> QED BY <1>20, <2>2, <2>3 DEF PatchSpec, TypeOK, Live
<1>21. CASE PatchStatus
  BY <1>21 DEF PatchStatus, TypeOK, Live, Objects, Reconciles
<1>22. CASE DeleteResolverEndpoint
  <2>1. /\ endpoints' \in [Live \ {ctl.id} -> Endpoints]
        /\ DOMAIN endpoints' = Live \ {ctl.id}
    BY <1>22 DEF DeleteResolverEndpoint, TypeOK
  <2>2. ctl' \in Reconciles /\ ctl'.pc = "unmanage" /\ work = NoWork
    BY <1>22 DEF DeleteResolverEndpoint, TypeOK, Reconciles
  <2> QED BY <1>22, <2>1, <2>2 DEF DeleteResolverEndpoint, TypeOK, Live
<1>23. CASE MarkUnmanaged
  BY <1>23 DEF MarkUnmanaged, TypeOK, Live, Objects, Reconciles
<1>24. CASE Restart
  <2>1. faults' \in 0..MaxFaults
    BY <1>24 DEF Restart, TypeOK
  <2> QED BY <1>24, <2>1, EndType DEF Restart, TypeOK, Live
<1>25. CASE Finished
  BY <1>1, <1>25 DEF Finished
<1> QED
  BY <1>1, <1>2, <1>3, <1>4, <1>5, <1>6, <1>7, <1>9, <1>10, <1>11, <1>12,
     <1>13, <1>14, <1>15, <1>16, <1>17, <1>18, <1>19, <1>20, <1>21, <1>22,
     <1>23, <1>24, <1>25
     DEF Next, User, Aws, Controller, SyncIPAddresses

LEMMA TypeInvariant == Spec => []TypeInv
BY InitType, NextType, PTL DEF Spec

\* Every reachable state is well typed, whatever lists users write: no endpoint
\* in AWS gets the nil name of a spec (newUpdateRequestPayload).
THEOREM EndpointTypeCorrect == Spec => []TypeOK
<1>1. TypeInv => TypeOK
  BY DEF TypeInv
<1> QED BY <1>1, TypeInvariant, PTL
-----------------------------------------------------------------------------
(* Moving addresses *)

LEMMA InitMove == Init => MoveInv
BY NoWorkType DEF Init, MoveInv

\* With no removal left the invariant says nothing.
LEMMA IdleMove == ASSUME work'.removed = {} PROVE MoveInv'
BY DEF MoveInv

\* A step that keeps the reconcile and its removals, and takes no address that
\* the invariant counts on, keeps the invariant.
LEMMA KeepMove ==
  ASSUME MoveInv, ctl'.id = ctl.id, ctl'.desired = ctl.desired,
         work'.removed \subseteq work.removed, work'.added = work.added,
         Live \subseteq Live',
         \A e \in Live : endpoints'[e].attached = endpoints[e].attached
  PROVE  MoveInv'
BY DEF MoveInv, SubnetsOf

\* The plan made by sdkUpdate starts the invariant: with the addresses AWS holds
\* it covers the wanted subnets, and with the desired ones it removes nothing.
LEMMA PlanMove ==
  ASSUME NEW d, NEW e \in Live, NEW l,
         l = endpoints[e].attached \/ l = d.addresses
  PROVE  LET w == sdkUpdate(d, Observed(e, l)) IN
         /\ \A a \in w.removed : a.subnet \notin SubnetsOf(d.addresses)
         /\ w.removed # {} =>
              SubnetsOf(d.addresses) \subseteq
                SubnetsOf(endpoints[e].attached) \cup SubnetsOf(w.added)
<1> DEFINE w == sdkUpdate(d, Observed(e, l))
<1>1. w.added = Missing(d.addresses, l) /\ w.removed = Missing(l, d.addresses)
  BY DEF sdkUpdate, newResourceDelta, GetIPAddressDifference, Observed
<1>2. \A a \in w.removed : a.subnet \notin SubnetsOf(d.addresses)
  BY <1>1, MissingSpec
<1>3. CASE l = endpoints[e].attached
  <2>1. SubnetsOf(d.addresses) \subseteq
          SubnetsOf(l) \cup SubnetsOf(Missing(d.addresses, l))
    BY MissingSpec
  <2> QED BY <1>1, <1>2, <1>3, <2>1
<1>4. CASE l = d.addresses
  <2>1. w.removed = {}
    BY <1>1, <1>4 DEF Missing, SubnetsOf
  <2> QED BY <1>2, <2>1
<1> QED BY <1>3, <1>4

LEMMA NextMove == TypeInv /\ MoveInv /\ [Next]_vars => MoveInv'
<1> SUFFICES ASSUME TypeInv, MoveInv, [Next]_vars PROVE MoveInv'
  OBVIOUS
<1> USE IdleType, NoWorkType DEF TypeInv, WorkOfPc
<1>1. ASSUME ctl' = ctl, work' = work, UNCHANGED endpoints
      PROVE  MoveInv'
  BY <1>1, KeepMove DEF Live
<1>2. CASE UNCHANGED vars \/ User \/ Resync \/ Finished
  BY <1>1, <1>2 DEF vars, User, EditSpec, DeleteResource, Resync, Finished
<1>3. ASSUME NEW e \in Live, EndpointSettles(e)
      PROVE  MoveInv'
  <2>1. /\ DOMAIN endpoints' = Live
        /\ \A x \in Live : endpoints'[x].attached = endpoints[x].attached
    BY <1>3 DEF EndpointSettles, TypeOK, Endpoints
  <2> QED BY <1>3, <2>1, KeepMove DEF EndpointSettles, Live
<1>4. ASSUME work' = NoWork PROVE MoveInv'
  BY <1>4, IdleMove
<1>5. CASE \/ StartReconcile \/ FindNothing \/ MarkManaged \/ CreatePanics
           \/ PrepareCreate \/ CreateResolverEndpoint \/ CreateRetried
           \/ CallRefused \/ CallFails \/ PatchSpec \/ PatchStatus
           \/ MarkUnmanaged \/ Restart \/ DeleteResolverEndpoint
  <2>1. work' = NoWork
    <3>1. CASE CallRefused \/ CallFails
      BY <3>1, FailType DEF CallRefused, CallFails
    <3>2. CASE MarkManaged
      BY <3>2 DEF MarkManaged, ReconcileError
    <3>3. CASE CreatePanics \/ Restart
      BY <3>3 DEF CreatePanics, Restart, ReconcileLost
    <3>4. CASE StartReconcile \/ FindNothing \/ PrepareCreate
      BY <3>4 DEF StartReconcile, FindNothing, PrepareCreate
    <3>5. CASE CreateResolverEndpoint \/ CreateRetried \/ DeleteResolverEndpoint
      BY <3>5 DEF CreateResolverEndpoint, CreateRetried, DeleteResolverEndpoint
    <3>6. CASE PatchSpec \/ PatchStatus \/ MarkUnmanaged
      BY <3>6 DEF PatchSpec, PatchStatus, MarkUnmanaged
    <3> QED BY <1>5, <3>1, <3>2, <3>3, <3>4, <3>5, <3>6
  <2> QED BY <1>4, <2>1
<1>6. CASE FindEndpoint \/ FindWithoutAddresses
  <2>1. PICK l : /\ FoundWith(l)
                 /\ l = endpoints[ctl.id].attached \/ l = ctl.desired.addresses
                 /\ ctl.id \in Live /\ UNCHANGED endpoints
    BY <1>6 DEF FindEndpoint, FindWithoutAddresses, FoundWith
  <2>2. ctl'.id = ctl.id /\ ctl'.desired = ctl.desired
    BY <2>1 DEF FoundWith, TypeOK, Reconciles
  <2>3. CASE ctl.mode = "delete"
    BY <1>4, <2>1, <2>3 DEF FoundWith
  <2>4. CASE ctl.mode # "delete"
    <3>1. work' = sdkUpdate(ctl.desired, Observed(ctl.id, l))
      BY <2>1, <2>4 DEF FoundWith
    <3> QED BY <2>1, <2>2, <3>1, PlanMove DEF MoveInv, Live
  <2> QED BY <2>3, <2>4
<1>7. CASE TagResource \/ UntagResource \/ UpdateResolverEndpoint
  <2>1. ctl.id \in Live /\ endpoints[ctl.id] \in Endpoints
    BY <1>7 DEF TagResource, UntagResource, UpdateResolverEndpoint, Updating,
                TypeOK
  <2>2. /\ DOMAIN endpoints' = Live
        /\ \A x \in Live : endpoints'[x].attached = endpoints[x].attached
    BY <1>7, <2>1 DEF TagResource, UntagResource, UpdateResolverEndpoint,
                      TypeOK, Endpoints
  <2>3. /\ ctl'.id = ctl.id /\ ctl'.desired = ctl.desired
        /\ work'.removed = work.removed /\ work'.added = work.added
    BY <1>7 DEF TagResource, UntagResource, UpdateResolverEndpoint, TypeOK,
                Reconciles, Work
  <2> QED BY <2>2, <2>3, KeepMove DEF Live
<1>8. ASSUME NEW a \in Addresses, AssociateResolverEndpointIpAddress(a)
      PROVE  MoveInv'
  <2>1. ctl.id \in Live /\ endpoints[ctl.id] \in Endpoints /\ work \in Work
    BY <1>8 DEF AssociateResolverEndpointIpAddress, MayAttach, Updating, TypeOK
  <2>2. /\ endpoints'[ctl.id].attached = endpoints[ctl.id].attached \cup {a}
        /\ DOMAIN endpoints' = Live
    BY <1>8, <2>1 DEF AssociateResolverEndpointIpAddress, TypeOK, Endpoints
  <2>3. /\ work'.removed = work.removed /\ work'.added = work.added \ {a}
        /\ ctl' = ctl
    BY <1>8, <2>1 DEF AssociateResolverEndpointIpAddress, Work
  <2> QED BY <2>1, <2>2, <2>3 DEF MoveInv, SubnetsOf, Live
<1>9. ASSUME NEW a \in Addresses, DisassociateResolverEndpointIpAddress(a)
      PROVE  MoveInv'
  <2>1. /\ ctl.id \in Live /\ endpoints[ctl.id] \in Endpoints /\ work \in Work
        /\ a \in work.removed
    BY <1>9 DEF DisassociateResolverEndpointIpAddress, MayDetach, Updating, TypeOK
  <2>2. /\ endpoints'[ctl.id].attached = endpoints[ctl.id].attached \ {a}
        /\ DOMAIN endpoints' = Live
    BY <1>9, <2>1 DEF DisassociateResolverEndpointIpAddress, TypeOK, Endpoints
  <2>3. /\ work'.removed = work.removed \ {a} /\ work'.added = work.added
        /\ ctl' = ctl
    BY <1>9, <2>1 DEF DisassociateResolverEndpointIpAddress, Work
  <2>4. a.subnet \notin SubnetsOf(ctl.desired.addresses)
    BY <2>1 DEF MoveInv
  <2> QED BY <2>1, <2>2, <2>3, <2>4 DEF MoveInv, SubnetsOf, Live
<1> QED
  BY <1>2, <1>3, <1>5, <1>6, <1>7, <1>8, <1>9
     DEF Next, Aws, Controller, SyncIPAddresses

\* Only a detachment takes an address from an endpoint that stays, and the
\* invariant gives what the property asks of it.
LEMMA StepDetach ==
  ASSUME TypeInv, MoveInv, [Next]_vars,
         NEW e \in Live, e \in DOMAIN endpoints',
         NEW a \in endpoints[e].attached \ endpoints'[e].attached
  PROVE  /\ a.subnet \notin SubnetsOf(ctl.desired.addresses)
         /\ SubnetsOf(ctl.desired.addresses) \subseteq
              SubnetsOf(endpoints[e].attached)
<1> USE DEF TypeInv, WorkOfPc
<1>1. endpoints' # endpoints /\ endpoints[e] \in Endpoints
  BY DEF TypeOK, Live
<1>2. ASSUME NEW x \in Addresses, DisassociateResolverEndpointIpAddress(x)
      PROVE  /\ a.subnet \notin SubnetsOf(ctl.desired.addresses)
             /\ SubnetsOf(ctl.desired.addresses) \subseteq
                  SubnetsOf(endpoints[e].attached)
  <2>1. ctl.id \in Live /\ x \in work.removed /\ work.added = {}
    BY <1>2 DEF DisassociateResolverEndpointIpAddress, MayDetach, Updating
  <2>2. e = ctl.id /\ a = x
    BY <1>1, <1>2, <2>1 DEF DisassociateResolverEndpointIpAddress, TypeOK, Endpoints
  <2> QED BY <2>1, <2>2 DEF MoveInv, SubnetsOf
<1>3. ASSUME NEW x \in Addresses, AssociateResolverEndpointIpAddress(x)
      PROVE  FALSE
  BY <1>1, <1>3 DEF AssociateResolverEndpointIpAddress, TypeOK, Endpoints
<1>4. CASE TagResource \/ UntagResource \/ UpdateResolverEndpoint
  BY <1>1, <1>4 DEF TagResource, UntagResource, UpdateResolverEndpoint, TypeOK,
                    Endpoints
<1>5. ASSUME NEW x \in Live, EndpointSettles(x) PROVE FALSE
  BY <1>1, <1>5 DEF EndpointSettles, TypeOK, Endpoints
<1>6. CASE CreateResolverEndpoint \/ CreateRetried
  <2>1. \A x \in Live : With(ctl.id, ctl.desired)[x] = endpoints[x]
    BY DEF With
  <2> QED BY <1>6, <2>1 DEF CreateResolverEndpoint, CreateRetried
<1>7. CASE DeleteResolverEndpoint
  BY <1>7 DEF DeleteResolverEndpoint
<1>8. CASE \/ UNCHANGED vars \/ User \/ Resync \/ Restart \/ Finished
           \/ StartReconcile \/ FindNothing \/ FindEndpoint
           \/ FindWithoutAddresses \/ MarkManaged \/ CreatePanics
           \/ PrepareCreate \/ CallRefused \/ CallFails \/ PatchSpec
           \/ PatchStatus \/ MarkUnmanaged
  <2>1. UNCHANGED endpoints
    BY <1>8 DEF vars, User, EditSpec, DeleteResource, Resync, Restart, Finished,
       StartReconcile, FindNothing, FindEndpoint, FindWithoutAddresses,
       MarkManaged, CreatePanics, PrepareCreate, CallRefused, CallFails,
       PatchSpec, PatchStatus, MarkUnmanaged
  <2> QED BY <1>1, <2>1
<1> QED
  BY <1>2, <1>3, <1>4, <1>5, <1>6, <1>7, <1>8
     DEF Next, User, Aws, Controller, SyncIPAddresses

\* The addresses of an endpoint are moved without a gap, for any lists, faults
\* and edits: AttachBeforeDetach, from the order of the loops and the early
\* return of SyncIPAddresses.
THEOREM AddressesMoveWithoutGap == Spec => AttachBeforeDetach
<1>1. TypeInv /\ MoveInv /\ [Next]_vars =>
        \A e \in Live : e \in DOMAIN endpoints' =>
          \A a \in endpoints[e].attached \ endpoints'[e].attached :
            /\ a.subnet \notin SubnetsOf(ctl.desired.addresses)
            /\ SubnetsOf(ctl.desired.addresses) \subseteq
                 SubnetsOf(endpoints[e].attached)
  BY StepDetach
<1>2. Spec => []MoveInv
  BY InitMove, NextMove, TypeInvariant, PTL DEF Spec
<1> QED BY <1>1, <1>2, TypeInvariant, PTL DEF Spec, AttachBeforeDetach
-----------------------------------------------------------------------------
(* The promise of every manager *)

\* Where the worker is, what it takes the object for, and what it may count on.
Life ==
  /\ ctl.pc \in {"manage", "create", "creating", "status"} => ctl.mode = "sync"
  /\ ctl.pc = "unmanage" => ctl.mode = "delete"
  /\ ctl.pc # "idle" /\ ctl.mode = "delete" =>
       cr.phase = "deleting" /\ ctl.id = cr.id
  /\ ctl.pc \in {"find", "manage", "create"} => ctl.id = cr.id
  /\ ctl.pc \in {"manage", "create", "unmanage"} => cr.id \notin Live
  /\ ctl.pc \in {"create", "creating"} => Exists /\ cr.finalizer
  /\ ctl.pc \in {"creating", "work", "status"} /\ ctl.id # cr.id =>
       ctl.id \in EndpointIds /\ cr.id \notin Live /\ Exists /\ cr.finalizer
  /\ cr.id \in Live => Exists /\ cr.finalizer

Bound == TypeInv /\ Life

ManagedVars == <<cr.phase, cr.finalizer, cr.id, PendingId, Live, 0>>

LEMMA BoundFacts ==
  ASSUME Bound
  PROVE  /\ TypeOK /\ Life /\ ctl \in Reconciles /\ cr \in Objects
         /\ Live \subseteq EndpointIds
         /\ NoId \notin Live /\ NoId \notin EndpointIds
BY EndpointAssumption DEF Bound, TypeInv, TypeOK

\* A step that leaves the worker where it is, the object's metadata and the set
\* of endpoints alone.
LEMMA QuietStep ==
  ASSUME Bound, ctl' = ctl, cr'.id = cr.id, cr'.phase = cr.phase,
         cr'.finalizer = cr.finalizer, Live' = Live
  PROVE  Life' /\ UNCHANGED ManagedVars
BY DEF Bound, Life, Exists, PendingId, ManagedVars

\* A reconcile that ends early leaves nothing for the worker to remember.
LEMMA ForgetStep ==
  ASSUME Bound, ReconcileError \/ ReconcileLost, Live' = Live
  PROVE  Life' /\ Managed!Next
<1>1. /\ ctl' = Idle /\ cr'.id = cr.id /\ cr'.phase = cr.phase
      /\ cr'.finalizer = cr.finalizer
  BY BoundFacts DEF ReconcileError, ReconcileLost, Objects
<1>2. PendingId' = NoId
  BY <1>1, IdleType DEF PendingId
<1>3. Managed!Forget
  BY <1>1, <1>2 DEF Managed!Forget
<1>4. Life'
  BY <1>1, IdleType DEF Bound, Life, Exists
<1> QED BY <1>3, <1>4 DEF Managed!Next

LEMMA FailStep ==
  ASSUME Bound, OperationFails, Live' = Live
  PROVE  Life' /\ [Managed!Next]_ManagedVars
BY ForgetStep, QuietStep DEF OperationFails

LEMMA MakeStep ==
  ASSUME Bound, CreateResolverEndpoint \/ CreateRetried
  PROVE  Life' /\ [Managed!Next]_ManagedVars
<1>1. /\ ctl.pc = "creating" /\ ctl.mode = "sync" /\ cr' = cr
      /\ endpoints' = With(ctl.id, ctl.desired)
      /\ ctl'.pc \in {"creating", "work"} /\ ctl'.id = ctl.id
      /\ ctl'.mode = ctl.mode
  BY BoundFacts DEF CreateResolverEndpoint, CreateRetried, Life, Reconciles
<1>2. Live' = Live \cup {ctl.id}
  BY <1>1 DEF With, Live
<1>3. ctl.id \in EndpointIds /\ Exists /\ cr.finalizer
  BY <1>1 DEF Bound, TypeInv, WorkOfPc, Life
<1>4. Life'
  BY <1>1, <1>2, <1>3, BoundFacts DEF Life, Exists
<1>5. CASE ctl.id \in Live
  BY <1>1, <1>2, <1>4, <1>5 DEF PendingId, ManagedVars
<1>6. CASE ctl.id \notin Live
  <2>1. cr.id \notin Live
    BY <1>1, <1>6, BoundFacts DEF Life
  <2>2. PendingId = NoId /\ PendingId' \in {ctl.id, NoId}
    BY <1>1, <1>6 DEF PendingId
  <2>3. Managed!Create(ctl.id)
    BY <1>1, <1>2, <1>3, <1>6, <2>1, <2>2 DEF Managed!Create, Exists
  <2> QED BY <1>3, <1>4, <2>3 DEF Managed!Next
<1> QED BY <1>5, <1>6

LEMMA PromisedStep ==
  ASSUME Bound, [Next]_vars
  PROVE  Life' /\ [Managed!Next]_ManagedVars
<1>a. TypeOK /\ Life /\ ctl \in Reconciles /\ cr \in Objects
      /\ NoId \notin Live /\ NoId \notin EndpointIds
  BY BoundFacts
<1>1. CASE UNCHANGED vars \/ EditSpec \/ Resync \/ Finished
  <2>1. /\ ctl' = ctl /\ cr'.id = cr.id /\ cr'.phase = cr.phase
        /\ cr'.finalizer = cr.finalizer /\ Live' = Live
    BY <1>1, <1>a DEF vars, EditSpec, Resync, Finished, Objects, Live
  <2> QED BY <2>1, QuietStep
<1>2. CASE DeleteResource
  <2>1. /\ UNCHANGED <<ctl, endpoints>> /\ cr'.id = cr.id
        /\ cr.phase = "live" /\ cr'.finalizer = cr.finalizer
        /\ cr'.phase = IF cr.finalizer THEN "deleting" ELSE "gone"
    BY <1>2, <1>a DEF DeleteResource, Objects
  <2>2. Managed!Delete
    BY <2>1 DEF Managed!Delete, Live, PendingId
  <2> QED BY <1>a, <2>1, <2>2 DEF Life, Live, Exists, Managed!Next
<1>3. ASSUME NEW e \in Live, EndpointSettles(e)
      PROVE  Life' /\ [Managed!Next]_ManagedVars
  <2>1. Live' = Live
    BY <1>3, <1>a DEF EndpointSettles, TypeOK, Live
  <2> QED BY <1>3, <2>1, QuietStep DEF EndpointSettles
<1>4. CASE StartReconcile
  <2>1. UNCHANGED <<cr, endpoints>> /\ ctl.pc = "idle"
    BY <1>4 DEF StartReconcile
  <2>2. \/ ctl' = Idle
        \/ /\ ctl'.pc = "find" /\ ctl'.id = cr.id
           /\ ctl'.mode = "delete" => cr.phase = "deleting"
    BY <1>4 DEF StartReconcile
  <2> QED
    BY <1>a, <2>1, <2>2, IdleType DEF Life, Live, Exists, ManagedVars, PendingId
<1>5. CASE FindNothing
  <2>1. /\ UNCHANGED <<cr, endpoints>> /\ ctl.pc = "find"
        /\ ctl.id \notin Live /\ ctl'.mode = ctl.mode /\ ctl'.id = ctl.id
        /\ ctl'.pc = IF ctl.mode = "delete" THEN "unmanage" ELSE "manage"
        /\ ctl.mode \in {"sync", "delete"}
    BY <1>5, <1>a DEF FindNothing, Reconciles
  <2> QED BY <1>a, <2>1 DEF Life, Live, Exists, ManagedVars, PendingId
<1>6. CASE FindEndpoint \/ FindWithoutAddresses
  <2>1. /\ UNCHANGED <<cr, endpoints>> /\ ctl.pc = "find" /\ ctl'.pc = "work"
        /\ ctl'.mode = ctl.mode /\ ctl'.id = ctl.id
    BY <1>6, <1>a DEF FindEndpoint, FindWithoutAddresses, FoundWith, Reconciles
  <2> QED BY <1>a, <2>1 DEF Life, Live, Exists, ManagedVars, PendingId
<1>7. CASE MarkManaged
  <2>1. CASE Exists /\ cr' = [cr EXCEPT !.finalizer = TRUE]
                    /\ ctl' = [ctl EXCEPT !.pc = "create"]
    <3>1. /\ UNCHANGED endpoints /\ ctl.pc = "manage"
          /\ ctl'.pc = "create" /\ ctl'.id = ctl.id /\ ctl'.mode = ctl.mode
          /\ cr'.finalizer = TRUE /\ cr'.id = cr.id /\ cr'.phase = cr.phase
      BY <1>7, <1>a, <2>1 DEF MarkManaged, Objects, Reconciles
    <3>2. Managed!Guard
      BY <2>1, <3>1 DEF Managed!Guard, Live, PendingId, Exists
    <3> QED BY <1>a, <2>1, <3>1, <3>2 DEF Life, Live, Exists, Managed!Next
  <2>2. CASE ReconcileError
    BY <1>7, <2>2, ForgetStep DEF MarkManaged, Live
  <2> QED BY <1>7, <2>1, <2>2 DEF MarkManaged
<1>8. CASE CreatePanics \/ Restart
  BY <1>8, ForgetStep DEF CreatePanics, Restart, Live
<1>9. CASE PrepareCreate
  <2>1. /\ UNCHANGED <<cr, endpoints>> /\ ctl.pc = "create"
        /\ ctl'.pc = "creating" /\ ctl'.mode = ctl.mode
        /\ ctl'.id \in EndpointIds \ Live
    BY <1>9, <1>a DEF PrepareCreate, getCreatorRequestId, Reconciles
  <2> QED BY <1>a, <2>1 DEF Life, Live, Exists, ManagedVars, PendingId
<1>10. CASE CreateResolverEndpoint \/ CreateRetried
  BY <1>10, MakeStep
<1>11. CASE TagResource \/ UntagResource \/ UpdateResolverEndpoint
  <2>1. /\ cr' = cr /\ Live' = Live /\ ctl'.pc = ctl.pc /\ ctl'.id = ctl.id
        /\ ctl'.mode = ctl.mode
    BY <1>11, <1>a DEF TagResource, UntagResource, UpdateResolverEndpoint, TypeOK,
                       Live, Reconciles
  <2> QED BY <1>a, <2>1 DEF Life, Exists, ManagedVars, PendingId
<1>12. ASSUME NEW a \in Addresses,
              \/ AssociateResolverEndpointIpAddress(a)
              \/ DisassociateResolverEndpointIpAddress(a)
       PROVE  Life' /\ [Managed!Next]_ManagedVars
  <2>1. Live' = Live
    BY <1>12, <1>a DEF AssociateResolverEndpointIpAddress,
                       DisassociateResolverEndpointIpAddress, TypeOK, Live
  <2> QED
    BY <1>12, <2>1, QuietStep DEF AssociateResolverEndpointIpAddress,
                                  DisassociateResolverEndpointIpAddress
<1>13. CASE CallRefused \/ CallFails
  BY <1>13, FailStep DEF CallRefused, CallFails, Live
<1>14. CASE PatchSpec
  <2>1. /\ UNCHANGED endpoints /\ ctl.pc = "work" /\ ctl.mode = "sync"
        /\ ctl'.pc = "status" /\ ctl'.id = ctl.id /\ ctl'.mode = ctl.mode
        /\ cr'.id = cr.id /\ cr'.phase = cr.phase /\ cr'.finalizer = cr.finalizer
    BY <1>14, <1>a DEF PatchSpec, Objects, Reconciles
  <2> QED BY <1>a, <2>1 DEF Life, Live, Exists, ManagedVars, PendingId
<1>15. CASE PatchStatus
  <2>1. /\ ctl' = Idle /\ UNCHANGED endpoints /\ ctl.pc = "status"
        /\ ctl.mode = "sync" /\ PendingId' = NoId
    BY <1>15, <1>a, IdleType DEF PatchStatus, PendingId, Life
  <2>2. CASE ctl.id = cr.id \/ ~Exists
    <3>1. ctl.id = cr.id
      BY <1>a, <2>1, <2>2 DEF Life
    <3>2. cr'.id = cr.id /\ cr'.phase = cr.phase /\ cr'.finalizer = cr.finalizer
      BY <1>15, <1>a, <3>1 DEF PatchStatus, Objects
    <3> QED
      BY <1>a, <2>1, <3>1, <3>2, IdleType
         DEF Life, Live, Exists, ManagedVars, PendingId
  <2>3. CASE ctl.id # cr.id /\ Exists
    <3>1. /\ cr'.id = ctl.id /\ cr'.phase = cr.phase
          /\ cr'.finalizer = cr.finalizer
      BY <1>15, <1>a, <2>3 DEF PatchStatus, Objects
    <3>2. ctl.id # NoId /\ cr.id \notin Live /\ cr.finalizer
      BY <1>a, <2>1, <2>3 DEF Life
    <3>3. Managed!Bind
      BY <2>1, <2>3, <3>1, <3>2 DEF Managed!Bind, PendingId, Live, Exists
    <3> QED
      BY <2>1, <2>3, <3>1, <3>2, <3>3, IdleType DEF Life, Live, Exists, Managed!Next
  <2> QED BY <2>2, <2>3
<1>16. CASE DeleteResolverEndpoint
  <2>1. /\ cr' = cr /\ ctl.pc = "work" /\ ctl.mode = "delete"
        /\ ctl'.pc = "unmanage" /\ ctl'.id = ctl.id /\ ctl'.mode = ctl.mode
        /\ Live' = Live \ {ctl.id}
    BY <1>16, <1>a DEF DeleteResolverEndpoint, Reconciles, Live
  <2>2. Managed!Destroy
    BY <1>a, <2>1 DEF Managed!Destroy, PendingId, Life
  <2> QED BY <1>a, <2>1, <2>2 DEF Life, Exists, Managed!Next
<1>17. CASE MarkUnmanaged
  <2>1. /\ ctl' = Idle /\ UNCHANGED endpoints /\ cr'.id = cr.id
        /\ cr'.phase = "gone" /\ cr'.finalizer = FALSE
    BY <1>17, <1>a DEF MarkUnmanaged, Objects
  <2>2. cr.phase = "deleting" /\ cr.id \notin Live /\ PendingId = NoId
    BY <1>17, <1>a DEF MarkUnmanaged, Life, PendingId
  <2>3. Managed!Release
    BY <2>1, <2>2, IdleType DEF Managed!Release, PendingId, Live
  <2> QED BY <2>1, <2>2, <2>3, IdleType DEF Life, Live, Managed!Next
<1> QED
  BY <1>1, <1>2, <1>3, <1>4, <1>5, <1>6, <1>7, <1>8, <1>9, <1>10, <1>11, <1>12,
     <1>13, <1>14, <1>15, <1>16, <1>17
     DEF Next, User, Aws, Controller, SyncIPAddresses

LEMMA InitBound == Init => Bound /\ Managed!Init
<1> SUFFICES ASSUME Init PROVE Bound /\ Managed!Init
  OBVIOUS
<1>1. cr.phase = "live" /\ cr.finalizer = FALSE /\ cr.id = NoId
  BY DEF Init
<1>2. Live = {} /\ PendingId = NoId
  BY IdleType DEF Init, Live, PendingId
<1>3. Life
  BY <1>1, <1>2, IdleType DEF Init, Life
<1>4. Managed!Init
  BY <1>1, <1>2 DEF Managed!Init
<1> QED BY <1>3, <1>4, InitType DEF Bound

\* Each step around an endpoint is one that ManagedResource allows, or none: it
\* is made only under the finalizer and beside no other, deleted only with the
\* object, and the object goes only after it, with any calls failing, panics,
\* retries and dropped errors (MarkManaged, sdkFind, sdkCreate, sdkDelete and
\* MarkUnmanaged in the order of the runtime).
THEOREM EndpointIsManaged == Spec => RefinesManaged
<1>1. Bound /\ [Next]_vars => Bound'
  BY NextType, PromisedStep DEF Bound
<1>2. Bound /\ [Next]_vars => [Managed!Next]_(Managed!vars)
  BY PromisedStep DEF ManagedVars, Managed!vars
<1> QED
  BY InitBound, <1>1, <1>2, PTL DEF Spec, RefinesManaged, Managed!Spec
-----------------------------------------------------------------------------
(* Honesty *)

\* Whatever the worker holds is in line with the object, unless the key is queued
\* or the object is being deleted: its copy of the spec, and, after the patch of
\* the spec, also the fields that AWS answered with.
CopyIsCurrent ==
  ctl.pc # "idle" /\ ~queued /\ cr.phase = "live" =>
    /\ ctl.desired = cr.spec
    /\ ctl.pc = "status" => ctl.updated.name = ctl.desired.name
                            /\ ctl.updated.fixed = ctl.desired.fixed

\* The resource that the operation will return has the fields of the spec s.
Returns(s) == ctl.updated.name = s.name /\ ctl.updated.fixed = s.fixed

\* What a create makes is what was asked for, and what it will return.
CreatePlan ==
  /\ ctl.pc \in {"find", "manage", "create", "creating"} => Returns(ctl.desired)
  /\ ctl.pc = "creating" /\ ctl.id \in Live =>
       /\ Returns(endpoints[ctl.id])
       /\ endpoints[ctl.id].tags = ctl.desired.tags

\* An update brings the tags to those of the spec, and, once its request is made
\* or was not needed, returns the fields that AWS holds.
UpdateLeads ==
  ctl.pc \in {"work", "status"} /\ ctl.mode = "sync" /\ ctl.id \in Live =>
    /\ ~work.update => Returns(endpoints[ctl.id])
    /\ ctl.desired.tags = (endpoints[ctl.id].tags \cup work.tag) \ work.untag

Honest == CopyIsCurrent /\ CreatePlan /\ UpdateLeads /\ SyncedFieldsAgree

HonestInv == TypeInv /\ Honest

\* The fields of the endpoint that a spec has too are as before.
SameFields(e) ==
  /\ endpoints'[e].name = endpoints[e].name
  /\ endpoints'[e].fixed = endpoints[e].fixed
  /\ endpoints'[e].tags = endpoints[e].tags

\* Where the worker stays and the fields in AWS do, so does its honesty: an edit
\* or a deletion of the object queues the key.
LEMMA KeepHonest ==
  ASSUME Honest, ctl' = ctl, Live' \subseteq Live, cr'.id = cr.id,
         work'.tag = work.tag, work'.untag = work.untag,
         work'.update = work.update,
         queued' = TRUE \/ (cr' = cr /\ queued' = queued),
         \A e \in Live' : SameFields(e)
  PROVE  Honest'
<1>1. CopyIsCurrent'
  BY DEF Honest, CopyIsCurrent
<1>2. CreatePlan' /\ UpdateLeads'
  BY DEF Honest, CreatePlan, UpdateLeads, Returns, SameFields
<1>3. SyncedFieldsAgree'
  <2>1. SUFFICES ASSUME Settled' PROVE SyncedFieldsAgree'
    BY DEF SyncedFieldsAgree
  <2>2. Settled /\ cr' = cr /\ cr.id \in Live /\ SameFields(cr.id)
    BY <2>1 DEF Settled
  <2>3. Observed(cr.id, {})' = Observed(cr.id, {})
    BY <2>2 DEF Observed, SameFields
  <2> QED BY <2>2, <2>3 DEF Honest, SyncedFieldsAgree
<1> QED BY <1>1, <1>2, <1>3 DEF Honest

LEMMA QueuedIsHonest ==
  ASSUME ctl' = Idle, queued' = TRUE
  PROVE  Honest'
BY IdleType
   DEF Honest, CopyIsCurrent, CreatePlan, UpdateLeads, SyncedFieldsAgree, Settled

\* The steps before the first call to change anything.
LEMMA BeforeWorkIsHonest ==
  ASSUME Honest, ctl'.pc \in {"manage", "create", "creating", "unmanage"},
         ctl.pc # "idle", ctl'.desired = ctl.desired, ctl'.updated = ctl.updated,
         ctl.pc \in {"find", "manage", "create"} \/ ctl'.pc = "unmanage",
         ctl'.pc = "creating" => ctl'.id \notin Live',
         cr'.spec = cr.spec, cr'.phase = cr.phase, queued' = queued
  PROVE  Honest'
BY DEF Honest, CopyIsCurrent, CreatePlan, UpdateLeads, Returns,
       SyncedFieldsAgree, Settled

\* The find that begins an update: without a difference in the fields the
\* operation returns those of the spec, which are those of AWS.
LEMMA FindIsHonest ==
  ASSUME HonestInv, NEW l, FoundWith(l), UNCHANGED <<cr, queued, endpoints>>
  PROVE  Honest'
<1>a. ctl \in Reconciles /\ TypeOK
  BY DEF HonestInv, TypeInv, TypeOK
<1>1. /\ ctl'.pc = "work" /\ ctl'.mode = ctl.mode /\ ctl'.desired = ctl.desired
      /\ ctl'.id = ctl.id /\ ctl'.updated = ctl.updated /\ ctl.pc = "find"
      /\ Returns(ctl.desired)
  BY <1>a DEF FoundWith, Reconciles, HonestInv, Honest, CreatePlan
<1>2. CopyIsCurrent' /\ CreatePlan' /\ SyncedFieldsAgree'
  BY <1>1 DEF HonestInv, Honest, CopyIsCurrent, CreatePlan, SyncedFieldsAgree,
              Settled
<1>3. UpdateLeads'
  <2>1. SUFFICES ASSUME ctl.mode = "sync" PROVE UpdateLeads'
    BY <1>1 DEF UpdateLeads
  <2>2. /\ work'.tag = ctl.desired.tags \ endpoints[ctl.id].tags
        /\ work'.untag = endpoints[ctl.id].tags \ ctl.desired.tags
        /\ work'.update = (ctl.desired # Observed(ctl.id, l))
    BY <2>1 DEF FoundWith, sdkUpdate, newResourceDelta, Observed
  <2>3. ~work'.update => /\ ctl.desired.name = endpoints[ctl.id].name
                         /\ ctl.desired.fixed = endpoints[ctl.id].fixed
    <3>1. CASE ctl.desired = Observed(ctl.id, l)
      BY <3>1 DEF Observed
    <3>2. CASE ctl.desired # Observed(ctl.id, l)
      BY <3>2, <2>2
    <3> QED BY <3>1, <3>2
  <2> QED BY <1>1, <2>2, <2>3 DEF UpdateLeads, Returns
<1> QED BY <1>2, <1>3 DEF Honest

LEMMA CreateIsHonest ==
  ASSUME HonestInv, CreateResolverEndpoint \/ CreateRetried
  PROVE  Honest'
<1>a. /\ TypeOK /\ ctl \in Reconciles /\ ctl.pc = "creating" /\ work = NoWork
      /\ ctl.desired \in Specs
  BY DEF HonestInv, TypeInv, TypeOK, WorkOfPc, CreateResolverEndpoint,
         CreateRetried, Reconciles
<1>1. /\ ctl'.pc \in {"creating", "work"} /\ ctl'.desired = ctl.desired
      /\ ctl'.id = ctl.id /\ ctl'.updated = ctl.updated
      /\ UNCHANGED <<cr, queued, work>>
  BY <1>a DEF CreateResolverEndpoint, CreateRetried, Reconciles
<1>2. /\ endpoints'[ctl.id].name = ctl.desired.name
      /\ endpoints'[ctl.id].fixed = ctl.desired.fixed
      /\ endpoints'[ctl.id].tags = ctl.desired.tags /\ Returns(ctl.desired)
  <2>1. endpoints' = With(ctl.id, ctl.desired)
    BY DEF CreateResolverEndpoint, CreateRetried
  <2> QED BY <1>a, <2>1 DEF With, NewEndpoint, HonestInv, Honest, CreatePlan,
                            Returns
<1>3. CreatePlan' /\ UpdateLeads'
  BY <1>1, <1>2, <1>a DEF CreatePlan, UpdateLeads, Returns, NoWork
<1>4. CopyIsCurrent' /\ SyncedFieldsAgree'
  BY <1>1, <1>a DEF HonestInv, Honest, CopyIsCurrent, SyncedFieldsAgree, Settled
<1> QED BY <1>3, <1>4 DEF Honest

\* The calls of an update.
LEMMA CallIsHonest ==
  ASSUME HonestInv, TagResource \/ UntagResource \/ UpdateResolverEndpoint
  PROVE  Honest'
<1>a. /\ TypeOK /\ ctl \in Reconciles /\ work \in Work
      /\ ctl.pc = "work" /\ ctl.mode = "sync" /\ ctl.id \in Live
      /\ endpoints \in [Live -> Endpoints] /\ endpoints[ctl.id] \in Endpoints
      /\ UNCHANGED <<cr, queued>>
  BY DEF HonestInv, TypeInv, TypeOK, TagResource, UntagResource,
         UpdateResolverEndpoint, Updating
<1>1. /\ ~work.update => Returns(endpoints[ctl.id])
      /\ ctl.desired.tags = (endpoints[ctl.id].tags \cup work.tag) \ work.untag
  BY <1>a DEF HonestInv, Honest, UpdateLeads
<1>2. CASE TagResource
  <2>1. /\ endpoints'[ctl.id] = [endpoints[ctl.id] EXCEPT !.tags = @ \cup work.tag]
        /\ work' = [work EXCEPT !.tag = {}] /\ ctl' = ctl
    BY <1>2, <1>a DEF TagResource
  <2>2. UpdateLeads'
    BY <1>a, <1>1, <2>1 DEF UpdateLeads, Returns, Work, Endpoints
  <2>3. CopyIsCurrent' /\ CreatePlan' /\ SyncedFieldsAgree'
    BY <1>a, <2>1 DEF HonestInv, Honest, CopyIsCurrent, CreatePlan,
                      SyncedFieldsAgree, Settled
  <2> QED BY <2>2, <2>3 DEF Honest
<1>3. CASE UntagResource
  <2>1. /\ endpoints'[ctl.id] = [endpoints[ctl.id] EXCEPT !.tags = @ \ work.untag]
        /\ work' = [work EXCEPT !.untag = {}] /\ ctl' = ctl /\ work.tag = {}
    BY <1>3, <1>a DEF UntagResource
  <2>2. UpdateLeads'
    BY <1>a, <1>1, <2>1 DEF UpdateLeads, Returns, Work, Endpoints
  <2>3. CopyIsCurrent' /\ CreatePlan' /\ SyncedFieldsAgree'
    BY <1>a, <2>1 DEF HonestInv, Honest, CopyIsCurrent, CreatePlan,
                      SyncedFieldsAgree, Settled
  <2> QED BY <2>2, <2>3 DEF Honest
<1>4. CASE UpdateResolverEndpoint
  <2>1. PICK name :
          /\ endpoints' = [endpoints EXCEPT ![ctl.id].name = name]
          /\ ctl' = [ctl EXCEPT !.updated.name = name,
                                !.updated.fixed = endpoints[ctl.id].fixed]
    BY <1>4 DEF UpdateResolverEndpoint
  <2>2. /\ endpoints'[ctl.id].name = name
        /\ endpoints'[ctl.id].fixed = endpoints[ctl.id].fixed
        /\ endpoints'[ctl.id].tags = endpoints[ctl.id].tags
    BY <1>a, <2>1 DEF Endpoints
  <2>3. /\ ctl'.updated.name = name /\ ctl'.updated.fixed = endpoints[ctl.id].fixed
        /\ ctl'.pc = "work" /\ ctl'.id = ctl.id /\ ctl'.desired = ctl.desired
        /\ ctl'.mode = ctl.mode
    BY <1>a, <2>1 DEF Reconciles, Specs
  <2>4. work'.tag = work.tag /\ work'.untag = work.untag
    BY <1>4, <1>a DEF UpdateResolverEndpoint, Work
  <2>5. UpdateLeads'
    BY <1>1, <2>2, <2>3, <2>4 DEF UpdateLeads, Returns
  <2>6. CopyIsCurrent' /\ CreatePlan' /\ SyncedFieldsAgree'
    BY <1>a, <2>3 DEF HonestInv, Honest, CopyIsCurrent, CreatePlan,
                      SyncedFieldsAgree, Settled
  <2> QED BY <2>5, <2>6 DEF Honest
<1> QED BY <1>2, <1>3, <1>4

\* A change of the addresses changes nothing else that is in a spec.
LEMMA AddressIsHonest ==
  ASSUME HonestInv, NEW a \in Addresses,
         \/ AssociateResolverEndpointIpAddress(a)
         \/ DisassociateResolverEndpointIpAddress(a)
  PROVE  Honest'
<1>a. /\ TypeOK /\ work \in Work /\ ctl.id \in Live
      /\ endpoints \in [Live -> Endpoints] /\ UNCHANGED <<cr, queued, ctl>>
  BY DEF HonestInv, TypeInv, TypeOK, AssociateResolverEndpointIpAddress,
         MayAttach, DisassociateResolverEndpointIpAddress, MayDetach, Updating
<1>1. /\ work'.tag = work.tag /\ work'.untag = work.untag
      /\ work'.update = work.update
  BY <1>a DEF AssociateResolverEndpointIpAddress, Work,
              DisassociateResolverEndpointIpAddress
<1>2. Live' = Live /\ \A e \in Live : SameFields(e)
  BY <1>a DEF AssociateResolverEndpointIpAddress, SameFields, Live, Endpoints,
              DisassociateResolverEndpointIpAddress
<1> QED BY <1>a, <1>1, <1>2, KeepHonest DEF HonestInv

\* SyncIPAddresses comes after everything else: its dropped error leaves
\* addresses behind, and nothing else.
LEMMA DropIsHonest ==
  ASSUME HonestInv, OperationFails, endpoints' = endpoints
  PROVE  Honest'
<1>1. CASE ReconcileError
  BY <1>1, QueuedIsHonest DEF ReconcileError
<1>2. CASE ~ReconcileError
  <2>1. SyncsAddresses /\ work' = NoWork /\ UNCHANGED <<cr, queued, ctl>>
    BY <1>2 DEF OperationFails
  <2>2. /\ work.tag = {} /\ work.untag = {} /\ work.update = FALSE
    BY <2>1 DEF SyncsAddresses, MayAttach, MayDetach, TagsDone, HonestInv, TypeInv,
                TypeOK, Work
  <2>3. /\ work'.tag = work.tag /\ work'.untag = work.untag
        /\ work'.update = work.update
    BY <2>1, <2>2 DEF NoWork
  <2>4. Live' = Live /\ \A e \in Live : SameFields(e)
    BY DEF SameFields, Live
  <2> QED BY <2>1, <2>3, <2>4, KeepHonest DEF HonestInv
<1> QED BY <1>1, <1>2

\* The patch of the spec takes the fields back that AWS did not change, and then
\* queues the key; without one the copy, the answer and the object agree.
LEMMA PatchSpecIsHonest ==
  ASSUME HonestInv, PatchSpec
  PROVE  Honest'
<1>a. /\ TypeOK /\ cr \in Objects /\ ctl \in Reconciles /\ cr.spec \in Specs
      /\ ctl.pc = "work" /\ ctl.mode = "sync" /\ work = NoWork /\ work' = work
      /\ endpoints' = endpoints /\ ctl' = [ctl EXCEPT !.pc = "status"]
  BY DEF HonestInv, TypeInv, TypeOK, PatchSpec, Objects
<1>1. /\ ctl'.pc = "status" /\ ctl'.mode = ctl.mode /\ ctl'.desired = ctl.desired
      /\ ctl'.updated = ctl.updated /\ ctl'.id = ctl.id
  BY <1>a DEF Reconciles
<1>2. CopyIsCurrent'
  <2>1. SUFFICES ASSUME ~queued', cr'.phase = "live" PROVE CopyIsCurrent'
    BY DEF CopyIsCurrent
  <2>2. /\ ~queued /\ cr.phase = "live" /\ PatchedSpec(cr.spec) = cr.spec
        /\ cr'.spec = cr.spec
    BY <1>a, <2>1 DEF PatchSpec, Exists, Objects
  <2>3. ctl.desired = cr.spec
    BY <1>a, <2>2 DEF HonestInv, Honest, CopyIsCurrent
  <2>4. Returns(ctl.desired)
    BY <1>a, <2>2, <2>3 DEF PatchedSpec, Specs, Returns
  <2> QED BY <1>1, <2>2, <2>3, <2>4 DEF CopyIsCurrent, Returns
<1>3. CreatePlan' /\ SyncedFieldsAgree'
  BY <1>1 DEF CreatePlan, SyncedFieldsAgree, Settled
<1>4. UpdateLeads'
  BY <1>a, <1>1 DEF HonestInv, Honest, UpdateLeads, Returns, Live
<1> QED BY <1>2, <1>3, <1>4 DEF Honest

\* The last patch says synced.
LEMMA PatchStatusIsHonest ==
  ASSUME HonestInv, PatchStatus, ctl.mode = "sync"
  PROVE  Honest'
<1>a. /\ TypeOK /\ cr \in Objects /\ ctl \in Reconciles /\ ctl.pc = "status"
      /\ work = NoWork /\ ctl' = Idle /\ UNCHANGED <<queued, endpoints>>
  BY DEF HonestInv, TypeInv, TypeOK, WorkOfPc, PatchStatus
<1>1. CopyIsCurrent' /\ CreatePlan' /\ UpdateLeads'
  BY <1>a, IdleType DEF CopyIsCurrent, CreatePlan, UpdateLeads
<1>2. SyncedFieldsAgree'
  <2>1. SUFFICES ASSUME Settled' PROVE SyncedFieldsAgree'
    BY DEF SyncedFieldsAgree
  <2>2. /\ cr'.id = ctl.id /\ ctl.id \in Live /\ cr'.spec = cr.spec
        /\ cr.phase = "live" /\ ~queued
    BY <1>a, <2>1 DEF PatchStatus, Settled, Exists, Objects, Live
  <2>3. ctl.desired = cr.spec /\ Returns(ctl.desired)
    BY <1>a, <2>2 DEF HonestInv, Honest, CopyIsCurrent, Returns
  <2>4. Returns(endpoints[ctl.id]) /\ endpoints[ctl.id].tags = ctl.desired.tags
    BY <1>a, <2>2 DEF HonestInv, Honest, UpdateLeads, NoWork
  <2>5. /\ endpoints[ctl.id].name = cr.spec.name
        /\ endpoints[ctl.id].fixed = cr.spec.fixed
        /\ endpoints[ctl.id].tags = cr.spec.tags
    BY <2>3, <2>4 DEF Returns
  <2>6. [cr.spec EXCEPT !.addresses = {}] =
          [name |-> cr.spec.name, fixed |-> cr.spec.fixed,
           tags |-> cr.spec.tags, addresses |-> {}]
    BY <1>a DEF Objects, Specs
  <2>7. Observed(cr.id, {})' = [cr.spec EXCEPT !.addresses = {}]
    BY <1>a, <2>2, <2>5, <2>6 DEF Observed
  <2> QED BY <2>2, <2>7 DEF SyncedFieldsAgree
<1> QED BY <1>1, <1>2 DEF Honest

LEMMA InitHonest == Init => HonestInv /\ Life
<1> SUFFICES ASSUME Init PROVE HonestInv /\ Life
  OBVIOUS
<1>1. TypeInv /\ Life
  BY InitType, InitBound DEF Bound
<1>2. Idle.updated = Idle.desired /\ ctl = Idle /\ queued = TRUE
  BY DEF Idle, Init
<1> QED
  BY <1>1, <1>2, IdleType
     DEF HonestInv, Honest, CopyIsCurrent, CreatePlan, UpdateLeads, Returns,
         SyncedFieldsAgree, Settled

LEMMA NextHonest == HonestInv /\ Life /\ [Next]_vars => Honest'
<1> SUFFICES ASSUME HonestInv, Life, [Next]_vars PROVE Honest'
  OBVIOUS
<1>a. /\ TypeOK /\ TypeInv /\ Honest /\ ctl \in Reconciles /\ cr \in Objects
      /\ Live \subseteq EndpointIds
  BY DEF HonestInv, TypeInv, TypeOK
<1>1. ASSUME ctl' = ctl, work' = work, endpoints' = endpoints, cr'.id = cr.id,
             queued' = TRUE \/ (cr' = cr /\ queued' = queued)
      PROVE  Honest'
  <2>1. Live' = Live /\ \A e \in Live' : SameFields(e)
    BY <1>1 DEF SameFields, Live
  <2> QED BY <1>1, <1>a, <2>1, KeepHonest
<1>2. CASE UNCHANGED vars \/ EditSpec \/ DeleteResource \/ Resync \/ Finished
  BY <1>1, <1>2, <1>a
     DEF vars, EditSpec, DeleteResource, Resync, Finished, Objects
<1>3. ASSUME NEW e \in Live, EndpointSettles(e) PROVE Honest'
  <2>1. Live' = Live /\ \A f \in Live : SameFields(f)
    BY <1>3, <1>a DEF EndpointSettles, SameFields, Live, TypeOK, Endpoints
  <2> QED BY <1>3, <1>a, <2>1, KeepHonest DEF EndpointSettles
<1>4. CASE StartReconcile
  <2>1. UNCHANGED <<cr, work, endpoints>>
    BY <1>4 DEF StartReconcile
  <2>2. CASE Exists
    <3>1. ctl'.pc = "find" /\ ctl'.desired = cr.spec /\ ctl'.updated = cr.spec
      BY <1>4, <2>2 DEF StartReconcile
    <3> QED
      BY <2>1, <3>1 DEF Honest, CopyIsCurrent, CreatePlan, UpdateLeads, Returns,
                        SyncedFieldsAgree, Settled
  <2>3. CASE ~Exists
    <3>1. ctl' = Idle /\ cr.phase = "gone"
      BY <1>4, <2>3 DEF StartReconcile, Exists
    <3> QED
      BY <2>1, <3>1, IdleType DEF Honest, CopyIsCurrent, CreatePlan, UpdateLeads,
                                  SyncedFieldsAgree, Settled
  <2> QED BY <2>2, <2>3
<1>5. CASE FindNothing \/ DeleteResolverEndpoint
  BY <1>5, <1>a, BeforeWorkIsHonest
     DEF FindNothing, DeleteResolverEndpoint, Reconciles
<1>6. CASE FindEndpoint \/ FindWithoutAddresses
  BY <1>6, FindIsHonest DEF FindEndpoint, FindWithoutAddresses
<1>7. CASE CreatePanics \/ Restart
  BY <1>7, QueuedIsHonest DEF CreatePanics, Restart, ReconcileLost
<1>8. CASE MarkManaged
  <2>1. CASE ReconcileError
    BY <2>1, QueuedIsHonest DEF ReconcileError
  <2>2. CASE ~ReconcileError
    BY <1>8, <2>2, <1>a, BeforeWorkIsHonest DEF MarkManaged, Objects, Reconciles
  <2> QED BY <2>1, <2>2
<1>9. CASE PrepareCreate
  <2>1. PICK t \in EndpointIds \ Live :
          ctl' = [ctl EXCEPT !.pc = "creating", !.id = t]
    BY <1>9 DEF PrepareCreate, getCreatorRequestId
  <2>2. /\ ctl'.pc = "creating" /\ ctl'.desired = ctl.desired
        /\ ctl'.updated = ctl.updated /\ ctl'.id \notin Live' /\ ctl.pc = "create"
        /\ UNCHANGED <<cr, queued>>
    BY <1>9, <1>a, <2>1 DEF PrepareCreate, Reconciles, Live
  <2> QED BY <1>a, <2>2, BeforeWorkIsHonest
<1>10. CASE CreateResolverEndpoint \/ CreateRetried
  BY <1>10, CreateIsHonest
<1>11. CASE TagResource \/ UntagResource \/ UpdateResolverEndpoint
  BY <1>11, CallIsHonest
<1>12. CASE SyncIPAddresses
  BY <1>12, AddressIsHonest DEF SyncIPAddresses
<1>13. CASE CallRefused \/ CallFails
  BY <1>13, DropIsHonest DEF CallRefused, CallFails
<1>14. CASE PatchSpec
  BY <1>14, PatchSpecIsHonest
<1>15. CASE PatchStatus
  BY <1>15, PatchStatusIsHonest DEF PatchStatus, Life
<1>16. CASE MarkUnmanaged
  <2>1. cr'.phase = "gone" /\ ctl' = Idle
    BY <1>16, <1>a DEF MarkUnmanaged, Objects
  <2> QED
    BY <2>1, IdleType DEF Honest, CopyIsCurrent, CreatePlan, UpdateLeads,
                          SyncedFieldsAgree, Settled
<1> QED
  BY <1>2, <1>3, <1>4, <1>5, <1>6, <1>7, <1>8, <1>9, <1>10, <1>11, <1>12, <1>13,
     <1>14, <1>15, <1>16
     DEF Next, User, Aws, Controller

\* An endpoint whose object says synced, with nothing pending, has the name, the
\* tags and the fixed fields of its spec, for any names, tags, edits and faults:
\* a field no request can change is taken back in the spec, and a patch that
\* changes the spec queues the key (sdkUpdate and the runtime's patches).
THEOREM SyncedEndpointIsHonest == Spec => []SyncedFieldsAgree
<1>1. HonestInv => SyncedFieldsAgree
  BY DEF HonestInv, Honest
<1>2. Bound /\ [Next]_vars => Bound'
  BY NextType, PromisedStep DEF Bound
<1>3. HonestInv /\ Life /\ [Next]_vars => (HonestInv /\ Life)'
  BY <1>2, NextHonest DEF Bound, HonestInv
<1> QED BY InitHonest, <1>1, <1>3, PTL DEF Spec
=============================================================================
