-------------------------- MODULE ResolverEndpoint --------------------------
(***************************************************************************)
(* The life of one ResolverEndpoint custom resource.  What sets it apart   *)
(* from a ResolverRule is the IP addresses, which AWS attaches to subnets  *)
(* and detaches again one call at a time, and two things the manager of    *)
(* src/pkg/resource/resolver_endpoint does: it drops the errors of those   *)
(* calls, and it copies the answer of an update, fields the request never  *)
(* sent included, over the spec, from where the runtime writes it to the   *)
(* object of the user.                                                     *)
(*                                                                         *)
(* A step is one AWS or Kubernetes call.  Operators named Mistake... are   *)
(* variants of the definition that follows each, with a maintainer's error.*)
(***************************************************************************)
EXTENDS Naturals, FiniteSets

CONSTANTS
  EndpointIds,   \* CreatorRequestIds, each naming the endpoint it creates
  NoId,          \* Status.ID is nil
  Subnets, IPs,  \* of an IP address
  AddressLists,  \* the Spec.IPAddresses users write, as sets of addresses
  Names, NoName, \* Name (ResolverEndpointType goes the same way), or nil
  FixedFields,   \* Direction and SecurityGroupIDs, which no request updates
  TagKeys,       \* tags, a key standing for a key/value pair
  MinAddresses,  \* AWS keeps this many addresses in an endpoint: two
  MaxFaults,     \* bound: failed calls and restarts in a behaviour
  MaxEdits       \* bound: spec edits by the user

Addresses == [subnet : Subnets, ip : IPs]

ASSUME EndpointAssumption ==
  /\ NoId \notin EndpointIds /\ NoName \notin Names
  /\ AddressLists \subseteq SUBSET Addresses /\ AddressLists # {}
  /\ FixedFields # {}

ASSUME EndpointBounds ==
  MaxFaults \in Nat /\ MaxEdits \in Nat /\ MinAddresses \in Nat

VARIABLES
  cr,         \* the ResolverEndpoint object in the Kubernetes API
  queued,     \* its key waits in the work queue
  ctl,        \* the reconcile in progress
  work,       \* the calls sdkUpdate or sdkDelete has still to make
  endpoints,  \* the endpoints AWS holds, a function on their ids
  faults, edits

vars == <<cr, queued, ctl, work, endpoints, faults, edits>>
-----------------------------------------------------------------------------
(* Data *)

Specs == [name : Names \cup {NoName}, fixed : FixedFields,
          tags : SUBSET TagKeys, addresses : AddressLists]

\* An endpoint in AWS; busy while it is CREATING or UPDATING.
Endpoints == [name : Names, fixed : FixedFields, tags : SUBSET TagKeys,
              attached : SUBSET Addresses, busy : BOOLEAN]

Work == [tag : SUBSET TagKeys, untag : SUBSET TagKeys, update : BOOLEAN,
         added : SUBSET Addresses, removed : SUBSET Addresses]

NoWork == [tag |-> {}, untag |-> {}, update |-> FALSE,
           added |-> {}, removed |-> {}]

Objects == [phase : {"live", "deleting", "gone"}, finalizer : BOOLEAN,
            id : EndpointIds \cup {NoId}, spec : Specs, synced : BOOLEAN]

\* desired is the copy of the spec the reconcile began with, updated the copy
\* that the operation returns.
Reconciles == [pc : {"idle", "find", "manage", "create", "creating", "work",
                     "status", "unmanage"},
               mode : {"sync", "delete"}, desired : Specs, updated : Specs,
               id : EndpointIds \cup {NoId}]

AnySpec == CHOOSE s \in Specs : TRUE

Idle == [pc |-> "idle", mode |-> "sync", desired |-> AnySpec,
         updated |-> AnySpec, id |-> NoId]

Live == DOMAIN endpoints

Exists == cr.phase # "gone"

SubnetsOf(addresses) == {a.subnet : a \in addresses}

TypeOK ==
  /\ cr \in Objects
  /\ queued \in BOOLEAN
  /\ ctl \in Reconciles
  /\ work \in Work
  /\ Live \subseteq EndpointIds
  /\ endpoints \in [Live -> Endpoints]
  /\ faults \in 0..MaxFaults /\ edits \in 0..MaxEdits

Init ==
  /\ cr \in [phase : {"live"}, finalizer : {FALSE}, id : {NoId},
             spec : Specs, synced : {FALSE}]
  /\ queued = TRUE
  /\ ctl = Idle
  /\ work = NoWork
  /\ endpoints = [e \in {} |-> AnySpec]
  /\ faults = 0 /\ edits = 0
-----------------------------------------------------------------------------
(* The user, and AWS *)

EditSpec ==
  /\ cr.phase = "live" /\ edits < MaxEdits
  /\ \E s \in Specs \ {cr.spec} : cr' = [cr EXCEPT !.spec = s]
  /\ queued' = TRUE
  /\ edits' = edits + 1
  /\ UNCHANGED <<ctl, work, endpoints, faults>>

DeleteResource ==
  /\ cr.phase = "live"
  /\ cr' = [cr EXCEPT !.phase = IF cr.finalizer THEN "deleting" ELSE "gone"]
  /\ queued' = TRUE
  /\ UNCHANGED <<ctl, work, endpoints, faults, edits>>

\* CREATING and UPDATING end in OPERATIONAL.
EndpointSettles(e) ==
  /\ endpoints[e].busy
  /\ endpoints' = [endpoints EXCEPT ![e].busy = FALSE]
  /\ UNCHANGED <<cr, queued, ctl, work, faults, edits>>
-----------------------------------------------------------------------------
(* What the resource manager computes *)

\* The resource sdkFind returns, given the addresses it has.
Observed(e, addresses) ==
  [name |-> endpoints[e].name, fixed |-> endpoints[e].fixed,
   tags |-> endpoints[e].tags, addresses |-> addresses]

\* inIpAddress: addresses are told apart by their subnet.
Missing(wanted, present) ==
  {a \in wanted : a.subnet \notin SubnetsOf(present)}

MistakeKeepsOld(desired, latest) ==
  [added |-> Missing(desired.addresses, latest.addresses), removed |-> {}]

\* The ids of the addresses to detach stand at the same index in the status,
\* which ListAttachedIPAddresses filled in the same loop as the spec.
GetIPAddressDifference(desired, latest) ==
  [added   |-> Missing(desired.addresses, latest.addresses),
   removed |-> Missing(latest.addresses, desired.addresses)]

\* Whether there is any difference, of tags or other fields.
newResourceDelta(desired, latest) == desired # latest

\* The calls of an update.  The runtime leaves sdkUpdate out when nothing
\* differs; a difference in the tags alone does not spare the update request.
sdkUpdate(desired, latest) ==
  LET diff == GetIPAddressDifference(desired, latest) IN
  [tag     |-> desired.tags \ latest.tags,
   untag   |-> latest.tags \ desired.tags,
   update  |-> newResourceDelta(desired, latest),
   added   |-> diff.added,
   removed |-> diff.removed]
-----------------------------------------------------------------------------
(* How a reconcile ends early *)

\* An error: the conditions are patched, or not even they.
ReconcileError ==
  /\ \/ cr' = cr
     \/ Exists /\ cr' = [cr EXCEPT !.synced = FALSE]
  /\ ctl' = Idle
  /\ work' = NoWork
  /\ queued' = TRUE

\* A restart, or a panic that the worker recovers from.
ReconcileLost ==
  /\ ctl' = Idle
  /\ work' = NoWork
  /\ queued' = TRUE
  /\ UNCHANGED cr
-----------------------------------------------------------------------------
(* The reconcile *)

StartReconcile ==
  /\ ctl.pc = "idle" /\ queued
  /\ queued' = FALSE
  /\ ctl' = IF Exists
            THEN [pc |-> "find",
                  mode |-> IF cr.phase = "deleting" THEN "delete" ELSE "sync",
                  desired |-> cr.spec, updated |-> cr.spec, id |-> cr.id]
            ELSE Idle
  /\ UNCHANGED <<cr, work, endpoints, faults, edits>>

Resync ==
  /\ ctl.pc = "idle" /\ ~queued /\ Exists
  /\ queued' = TRUE
  /\ UNCHANGED <<cr, ctl, work, endpoints, faults, edits>>

FindNothing ==
  /\ ctl.pc = "find" /\ ctl.id \notin Live
  /\ ctl' = [ctl EXCEPT !.pc = IF ctl.mode = "delete"
                               THEN "unmanage" ELSE "manage"]
  /\ UNCHANGED <<cr, queued, work, endpoints, faults, edits>>

\* Reads the endpoint and goes on with the update, or with the deletion, which
\* has no calls but DeleteResolverEndpoint.
FoundWith(addresses) ==
  /\ ctl.pc = "find" /\ ctl.id \in Live
  /\ ctl' = [ctl EXCEPT !.pc = "work"]
  /\ work' = IF ctl.mode = "delete" THEN NoWork
             ELSE sdkUpdate(ctl.desired, Observed(ctl.id, addresses))

FindEndpoint ==
  /\ ctl.id \in Live
  /\ FoundWith(endpoints[ctl.id].attached)
  /\ UNCHANGED <<cr, queued, endpoints, faults, edits>>

\* sdkFind drops the error of ListAttachedIPAddresses: the resource keeps the
\* addresses of the object it was copied from.
FindWithoutAddresses ==
  /\ faults < MaxFaults
  /\ faults' = faults + 1
  /\ FoundWith(ctl.desired.addresses)
  /\ UNCHANGED <<cr, queued, endpoints, edits>>

MistakePatchErrorDropped ==
  /\ ctl.pc = "manage"
  /\ cr' = IF Exists THEN [cr EXCEPT !.finalizer = TRUE] ELSE cr
  /\ ctl' = [ctl EXCEPT !.pc = "create"]
  /\ UNCHANGED <<queued, work, endpoints, faults, edits>>

MarkManaged ==
  /\ ctl.pc = "manage"
  /\ \/ /\ Exists
        /\ cr' = [cr EXCEPT !.finalizer = TRUE]
        /\ ctl' = [ctl EXCEPT !.pc = "create"]
        /\ UNCHANGED <<queued, work>>
     \/ ~Exists /\ ReconcileError
  /\ UNCHANGED <<endpoints, faults, edits>>

\* getCreatorRequestId dereferences the name.
CreatePanics ==
  /\ ctl.pc = "create" /\ ctl.desired.name = NoName
  /\ ReconcileLost
  /\ UNCHANGED <<endpoints, faults, edits>>

\* The name and the time of day: no endpoint has this CreatorRequestId.
\* Which one it is makes no difference.
getCreatorRequestId ==
  {t \in EndpointIds \ Live : t = CHOOSE u \in EndpointIds \ Live : TRUE}

\* sdkCreate up to its call.
PrepareCreate ==
  /\ ctl.pc = "create" /\ ctl.desired.name # NoName
  /\ \E t \in getCreatorRequestId :
       ctl' = [ctl EXCEPT !.pc = "creating", !.id = t]
  /\ UNCHANGED <<cr, queued, work, endpoints, faults, edits>>

NewEndpoint(d) ==
  [name |-> d.name, fixed |-> d.fixed, tags |-> d.tags,
   attached |-> d.addresses, busy |-> TRUE]

With(t, d) ==
  [e \in Live \cup {t} |-> IF e \in Live THEN endpoints[e] ELSE NewEndpoint(d)]

Creatable(spec) ==
  spec.name # NoName /\ Cardinality(spec.addresses) >= MinAddresses

\* The answer repeats what was sent, and so does the list of addresses that
\* follows, which is written over the spec's and whose error is dropped.
CreateResolverEndpoint ==
  /\ ctl.pc = "creating" /\ Creatable(ctl.desired)
  /\ endpoints' = With(ctl.id, ctl.desired)
  /\ ctl' = [ctl EXCEPT !.pc = "work"]
  /\ UNCHANGED <<cr, queued, work, faults, edits>>

\* The reply is lost and the SDK client repeats the request.
CreateRetried ==
  /\ ctl.pc = "creating" /\ Creatable(ctl.desired) /\ ctl.id \notin Live
  /\ endpoints' = With(ctl.id, ctl.desired)
  /\ UNCHANGED <<cr, queued, ctl, work, faults, edits>>

Updating == ctl.pc = "work" /\ ctl.mode = "sync" /\ ctl.id \in Live

TagResource ==
  /\ Updating /\ work.tag # {}
  /\ endpoints' = [endpoints EXCEPT ![ctl.id].tags = @ \cup work.tag]
  /\ work' = [work EXCEPT !.tag = {}]
  /\ UNCHANGED <<cr, queued, ctl, faults, edits>>

UntagResource ==
  /\ Updating /\ work.tag = {} /\ work.untag # {}
  /\ endpoints' = [endpoints EXCEPT ![ctl.id].tags = @ \ work.untag]
  /\ work' = [work EXCEPT !.untag = {}]
  /\ UNCHANGED <<cr, queued, ctl, faults, edits>>

TagsDone == work.tag = {} /\ work.untag = {}

MistakeResponseIgnored ==
  /\ Updating /\ TagsDone /\ work.update
  /\ LET sent == ctl.desired.name
         name == IF sent = NoName THEN endpoints[ctl.id].name ELSE sent
     IN endpoints' = [endpoints EXCEPT ![ctl.id].name = name]
  /\ work' = [work EXCEPT !.update = FALSE]
  /\ UNCHANGED <<cr, queued, ctl, faults, edits>>

MistakeNilNameSent ==
  /\ Updating /\ TagsDone /\ work.update
  /\ LET sent == ctl.desired.name
     IN /\ endpoints' = [endpoints EXCEPT ![ctl.id].name = sent]
        /\ ctl' = [ctl EXCEPT !.updated.name = sent,
                              !.updated.fixed = endpoints[ctl.id].fixed]
  /\ work' = [work EXCEPT !.update = FALSE]
  /\ UNCHANGED <<cr, queued, faults, edits>>

\* The request carries the name, unless it is nil.  The answer has the fields
\* of the endpoint as they are now, and goes into the updated resource.
UpdateResolverEndpoint ==
  /\ Updating /\ TagsDone /\ work.update
  /\ LET sent == ctl.desired.name
         name == IF sent = NoName THEN endpoints[ctl.id].name ELSE sent
     IN /\ endpoints' = [endpoints EXCEPT ![ctl.id].name = name]
        /\ ctl' = [ctl EXCEPT !.updated.name = name,
                              !.updated.fixed = endpoints[ctl.id].fixed]
  /\ work' = [work EXCEPT !.update = FALSE]
  /\ UNCHANGED <<cr, queued, faults, edits>>

\* SyncIPAddresses: all additions, then all removals, once the update is made.
MayAttach(a) == Updating /\ TagsDone /\ ~work.update /\ a \in work.added

MistakeDetachesFirst(a) ==
  Updating /\ TagsDone /\ ~work.update /\ a \in work.removed

MayDetach(a) ==
  Updating /\ TagsDone /\ ~work.update /\ work.added = {} /\ a \in work.removed

AssociateResolverEndpointIpAddress(a) ==
  /\ MayAttach(a) /\ a \notin endpoints[ctl.id].attached
  /\ endpoints' = [endpoints EXCEPT ![ctl.id].attached = @ \cup {a},
                                    ![ctl.id].busy = TRUE]
  /\ work' = [work EXCEPT !.added = @ \ {a}]
  /\ UNCHANGED <<cr, queued, ctl, faults, edits>>

DisassociateResolverEndpointIpAddress(a) ==
  /\ MayDetach(a) /\ Cardinality(endpoints[ctl.id].attached) > MinAddresses
  /\ endpoints' = [endpoints EXCEPT ![ctl.id].attached = @ \ {a},
                                    ![ctl.id].busy = TRUE]
  /\ work' = [work EXCEPT !.removed = @ \ {a}]
  /\ UNCHANGED <<cr, queued, ctl, faults, edits>>

SyncsAddresses == \E a \in Addresses : MayAttach(a) \/ MayDetach(a)

\* AWS may refuse to change or to delete an endpoint that is not OPERATIONAL,
\* keeps the last addresses of an endpoint, and has each address once.
Refused ==
  \/ ctl.pc = "creating" /\ ~Creatable(ctl.desired)
  \/ SyncsAddresses /\ endpoints[ctl.id].busy
  \/ \E a \in Addresses :
       \/ MayAttach(a) /\ a \in endpoints[ctl.id].attached
       \/ MayDetach(a)
          /\ Cardinality(endpoints[ctl.id].attached) <= MinAddresses
  \/ ctl.pc = "work" /\ ctl.mode = "delete" /\ endpoints[ctl.id].busy

\* sdkUpdate drops the error of SyncIPAddresses, which stops at the first one.
OperationFails ==
  IF SyncsAddresses
  THEN work' = NoWork /\ UNCHANGED <<cr, queued, ctl>>
  ELSE ReconcileError

CallRefused ==
  /\ Refused
  /\ OperationFails
  /\ UNCHANGED <<endpoints, faults, edits>>

\* Any call may fail for reasons of its own.
CallFails ==
  /\ ctl.pc \notin {"idle", "create"} /\ faults < MaxFaults
  /\ faults' = faults + 1
  /\ OperationFails
  /\ UNCHANGED <<endpoints, edits>>

\* The runtime's patch of the object has the fields in which the updated
\* resource differs from the desired one; the others stay as they are by now.
PatchedSpec(spec) ==
  [spec EXCEPT
     !.name  = IF ctl.updated.name # ctl.desired.name
               THEN ctl.updated.name ELSE @,
     !.fixed = IF ctl.updated.fixed # ctl.desired.fixed
               THEN ctl.updated.fixed ELSE @]

\* The object has changed if the patch has anything in it, and is queued.
PatchSpec ==
  /\ ctl.pc = "work" /\ ctl.mode = "sync" /\ work = NoWork
  /\ LET spec == PatchedSpec(cr.spec) IN
     /\ cr' = IF Exists THEN [cr EXCEPT !.spec = spec] ELSE cr
     /\ queued' = (queued \/ (Exists /\ spec # cr.spec))
  /\ ctl' = [ctl EXCEPT !.pc = "status"]
  /\ UNCHANGED <<work, endpoints, faults, edits>>

\* IsSynced is constantly true.
PatchStatus ==
  /\ ctl.pc = "status"
  /\ cr' = IF Exists THEN [cr EXCEPT !.id = ctl.id, !.synced = TRUE] ELSE cr
  /\ ctl' = Idle
  /\ UNCHANGED <<queued, work, endpoints, faults, edits>>

\* The endpoint is DELETING from here on, and nobody waits for its end.
DeleteResolverEndpoint ==
  /\ ctl.pc = "work" /\ ctl.mode = "delete" /\ ctl.id \in Live
  /\ endpoints' = [e \in Live \ {ctl.id} |-> endpoints[e]]
  /\ ctl' = [ctl EXCEPT !.pc = "unmanage"]
  /\ UNCHANGED <<cr, queued, work, faults, edits>>

MarkUnmanaged ==
  /\ ctl.pc = "unmanage"
  /\ cr' = [cr EXCEPT !.finalizer = FALSE, !.phase = "gone"]
  /\ ctl' = Idle
  /\ UNCHANGED <<queued, work, endpoints, faults, edits>>

Restart ==
  /\ faults < MaxFaults
  /\ faults' = faults + 1
  /\ ReconcileLost
  /\ UNCHANGED <<endpoints, edits>>
-----------------------------------------------------------------------------
User == EditSpec \/ DeleteResource

Aws == \E e \in Live : EndpointSettles(e)

SyncIPAddresses ==
  \E a \in Addresses : \/ AssociateResolverEndpointIpAddress(a)
                       \/ DisassociateResolverEndpointIpAddress(a)

Controller ==
  \/ StartReconcile \/ FindNothing \/ FindEndpoint \/ FindWithoutAddresses
  \/ MarkManaged \/ CreatePanics \/ PrepareCreate
  \/ CreateResolverEndpoint \/ CreateRetried
  \/ TagResource \/ UntagResource \/ UpdateResolverEndpoint \/ SyncIPAddresses
  \/ CallRefused \/ CallFails \/ PatchSpec \/ PatchStatus
  \/ DeleteResolverEndpoint \/ MarkUnmanaged

Finished ==
  /\ ~Exists /\ ctl.pc = "idle" /\ ~queued
  /\ UNCHANGED vars

Next == User \/ Aws \/ Controller \/ Resync \/ Restart \/ Finished

Spec == Init /\ [][Next]_vars

\* As for a rule: workers go on, AWS ends what it began, resyncs come round.
FairSpec ==
  Spec /\ WF_vars(Controller) /\ WF_vars(Aws) /\ WF_vars(Resync)
-----------------------------------------------------------------------------
(* Properties *)

Settled ==
  cr.phase = "live" /\ cr.synced /\ ~queued /\ ctl.pc = "idle" /\ cr.id \in Live

\* Of an endpoint reported as synced, with no event pending, the name, the tags,
\* the direction and the security groups are those of the spec: fields that no
\* request can change because the spec was taken back to AWS's value (sdkUpdate
\* merges the answer, the runtime patches the object), whatever else the user
\* has edited meanwhile.
SyncedFieldsAgree ==
  Settled =>
    Observed(cr.id, {}) = [cr.spec EXCEPT !.addresses = {}]

\* What "IsSynced returns true if the resource is synced" says of the
\* addresses, where no call failed.
SyncedMeansAttached ==
  Settled /\ faults = 0 => cr.spec.addresses \subseteq endpoints[cr.id].attached

\* The addresses of an endpoint are moved without a gap: one is detached only
\* when its subnet is unwanted and every wanted subnet is attached, whether or
\* not the listing failed, and after a failed attachment none is (sdkFind and
\* sdkUpdate drop those errors, SyncIPAddresses stops at the first).
AttachBeforeDetach ==
  [][\A e \in Live : e \in DOMAIN endpoints' =>
       \A a \in endpoints[e].attached \ endpoints'[e].attached :
         /\ a.subnet \notin SubnetsOf(ctl.desired.addresses)
         /\ SubnetsOf(ctl.desired.addresses) \subseteq
              SubnetsOf(endpoints[e].attached)]_vars

\* The id of an endpoint that the create in progress has brought, not yet
\* written to the object's status.
PendingId ==
  IF ctl.mode = "sync" /\ ctl.id # cr.id
     /\ (ctl.pc \in {"work", "status"} \/ (ctl.pc = "creating" /\ ctl.id \in Live))
  THEN ctl.id ELSE NoId

Managed ==
  INSTANCE ManagedResource WITH
    Ids <- EndpointIds, phase <- cr.phase, finalizer <- cr.finalizer,
    bound <- cr.id, pending <- PendingId, existing <- Live, drift <- 0

\* Through every edit, failed call, dropped error, panic and restart an endpoint
\* is made only under the finalizer and while the object has none, destroyed only
\* for an object being deleted, which goes only when nothing it knows of is left
\* (ReadOne, Create, Update and Delete of manager.go under MarkManaged and
\* MarkUnmanaged).
RefinesManaged == Managed!Spec

\* Once edits and faults stop, the endpoint stands in the subnets of its spec,
\* in spite of AWS refusing changes while an earlier one is under way and of
\* sdkUpdate reporting success nonetheless: each resync gets one call further.
SubnetsConverge ==
  <>[](/\ cr.phase = "live" /\ Creatable(cr.spec)
       /\ Cardinality(SubnetsOf(cr.spec.addresses)) >= MinAddresses
       => /\ cr.id \in Live
          /\ SubnetsOf(endpoints[cr.id].attached) = SubnetsOf(cr.spec.addresses))

=============================================================================
