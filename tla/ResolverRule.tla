---------------------------- MODULE ResolverRule ----------------------------
(***************************************************************************)
(* The life of one ResolverRule custom resource: the reconciles that bring *)
(* a Route 53 Resolver rule and its VPC associations to the spec of the    *)
(* resource, and the deletion that takes them away again.                  *)
(*                                                                         *)
(* Four parties act on the state: the user of the Kubernetes API, AWS, the *)
(* ACK runtime that sequences a reconcile, and the resource manager of     *)
(* src/pkg/resource/resolver_rule that it calls.  Every AWS or Kubernetes  *)
(* call is a step of its own, so that user edits, AWS's own progress,      *)
(* failed calls and restarts of the controller fall between any two.       *)
(*                                                                         *)
(* AWS identifies a rule by the CreatorRequestId of the call that made it: *)
(* a call that repeats a CreatorRequestId gets the rule of the first one.  *)
(***************************************************************************)
EXTENDS Integers, FiniteSets

CONSTANTS
  RuleIds,       \* CreatorRequestIds, each naming the rule it would create
  NoId,          \* Status.ID is nil
  Vpcs,          \* VPCs a rule can be associated with
  TagKeys,       \* tags, a key standing for a key/value pair
  Names, NoName, \* values of Name, and nil
  Configs,       \* the names and ports users write: what an update can send
  MaxInt32,      \* the largest int32, the width of a port in a request
  Endpoints,     \* values of ResolverEndpointID
  Domains,       \* values of DomainName and RuleType, the fixed fields
  MaxFaults,     \* bound: failed calls and restarts in a behaviour
  MaxEdits,      \* bound: spec edits by the user
  MaxDrift       \* bound: rules deleted behind the controller's back

ASSUME SetsAssumption ==
  /\ NoId \notin RuleIds
  /\ NoName \notin Names
  /\ Configs \subseteq [name : Names \cup {NoName}, port : Int]
  /\ Configs # {} /\ Endpoints # {} /\ Domains # {}

ASSUME BoundsAssumption ==
  /\ MaxFaults \in Nat /\ MaxEdits \in Nat /\ MaxDrift \in Nat
  /\ MaxInt32 \in Nat

VARIABLES
  cr,      \* the ResolverRule object in the Kubernetes API
  queued,  \* the object's key waits in the controller's work queue
  ctl,     \* the reconcile in progress, lost by a restart
  work,    \* the calls the manager's operation in progress has still to make
  rules,   \* the rules AWS holds, a function on the ids of the existing ones
  used,    \* the CreatorRequestIds that reached AWS or may have
  faults, edits, drift   \* how much of each bound is spent

(* Operators named Mistake... are not part of the specification: each is the *)
(* definition that follows it with an error a maintainer could make, there   *)
(* to show which property tells the two apart.                               *)

vars == <<cr, queued, ctl, work, rules, used, faults, edits, drift>>
-----------------------------------------------------------------------------
(* Data *)

Int32 == -(MaxInt32 + 1)..MaxInt32

\* The part of ResolverRuleSpec that reconciles act on; the port stands for all
\* of TargetIPs.
Specs == [config : Configs, endpoint : Endpoints, domain : Domains,
          tags : SUBSET TagKeys, vpcs : SUBSET Vpcs]

AssocStatus == {"NONE", "CREATING", "COMPLETE", "DELETING"}

\* A rule in AWS.
Rules == [config : [name : Names, port : Int32],
          endpoint : Endpoints, domain : Domains, tags : SUBSET TagKeys,
          assoc : [Vpcs -> AssocStatus]]

\* The calls left to make, in the order of the fields.
Work == [tag : SUBSET TagKeys, untag : SUBSET TagKeys,
         add : SUBSET Vpcs, del : SUBSET Vpcs, config : BOOLEAN]

NoWork == [tag |-> {}, untag |-> {}, add |-> {}, del |-> {}, config |-> FALSE]

\* The custom resource: its metadata, spec, Status.ID and whether its condition
\* ACK.ResourceSynced is True.
Objects == [phase : {"live", "deleting", "gone"}, finalizer : BOOLEAN,
            id : RuleIds \cup {NoId}, spec : Specs, synced : BOOLEAN]

\* A reconcile: the next call, the operation it belongs to, and the copy of the
\* object it works on.
Reconciles == [pc : {"idle", "find", "manage", "create", "creating", "work",
                     "unmanage"},
               mode : {"sync", "create", "update", "delete"},
               desired : Specs, id : RuleIds \cup {NoId}, requeue : BOOLEAN]

AnySpec == CHOOSE s \in Specs : TRUE

Idle == [pc |-> "idle", mode |-> "sync", desired |-> AnySpec, id |-> NoId,
         requeue |-> FALSE]

Live == DOMAIN rules

Exists == cr.phase # "gone"

Attached(r) == {v \in Vpcs : rules[r].assoc[v] # "NONE"}

TypeOK ==
  /\ cr \in Objects
  /\ queued \in BOOLEAN
  /\ ctl \in Reconciles
  /\ work \in Work
  /\ used \in SUBSET RuleIds
  /\ Live \subseteq used
  /\ rules \in [Live -> Rules]
  /\ faults \in 0..MaxFaults /\ edits \in 0..MaxEdits /\ drift \in 0..MaxDrift

\* A user has just applied the resource.
Init ==
  /\ cr \in [phase : {"live"}, finalizer : {FALSE}, id : {NoId},
             spec : Specs, synced : {FALSE}]
  /\ queued = TRUE
  /\ ctl = Idle
  /\ work = NoWork
  /\ rules = [r \in {} |-> AnySpec]
  /\ used = {}
  /\ faults = 0 /\ edits = 0 /\ drift = 0
-----------------------------------------------------------------------------
(* The user, and AWS *)

EditSpec ==
  /\ cr.phase = "live" /\ edits < MaxEdits
  /\ \E s \in Specs \ {cr.spec} : cr' = [cr EXCEPT !.spec = s]
  /\ queued' = TRUE
  /\ edits' = edits + 1
  /\ UNCHANGED <<ctl, work, rules, used, faults, drift>>

\* An object with a finalizer is only marked; one without is gone at once.
DeleteResource ==
  /\ cr.phase = "live"
  /\ cr' = [cr EXCEPT !.phase = IF cr.finalizer THEN "deleting" ELSE "gone"]
  /\ queued' = TRUE
  /\ UNCHANGED <<ctl, work, rules, used, faults, edits, drift>>

\* Associating and disassociating end some time after the call that began them.
AssociationSettles(r, v) ==
  /\ rules[r].assoc[v] \in {"CREATING", "DELETING"}
  /\ rules' = [rules EXCEPT ![r].assoc[v] =
                 IF @ = "CREATING" THEN "COMPLETE" ELSE "NONE"]
  /\ UNCHANGED <<cr, queued, ctl, work, used, faults, edits, drift>>

Without(r) == [s \in Live \ {r} |-> rules[s]]

\* Someone deletes the rule in AWS, not through its custom resource.
RuleDrifts(r) ==
  /\ drift < MaxDrift /\ Attached(r) = {}
  /\ rules' = Without(r)
  /\ drift' = drift + 1
  /\ UNCHANGED <<cr, queued, ctl, work, used, faults, edits>>
-----------------------------------------------------------------------------
(* What the resource manager computes *)

\* getAttachedVPC: an association on its way out counts as absent.
getAttachedVPC(r) ==
  {v \in Vpcs : rules[r].assoc[v] \notin {"NONE", "DELETING"}}

\* The resource ReadOne returns: the spec fields as AWS holds them.
Observed(r) ==
  [config |-> rules[r].config, endpoint |-> rules[r].endpoint,
   domain |-> rules[r].domain, tags |-> rules[r].tags,
   vpcs |-> getAttachedVPC(r)]

Nameless(config) == config.name = NoName

Overflows(config) == config.port \notin Int32

\* Go's conversion: a number that does not fit keeps its low bits.
int32(port) ==
  IF port \in Int32 THEN port
  ELSE ((port + MaxInt32 + 1) % (2 * (MaxInt32 + 1))) - (MaxInt32 + 1)

\* What a request carries of a config.
Sent(config) == [config EXCEPT !.port = int32(@)]

toAdd(desired, latest) == desired \ latest

toDelete(desired, latest) == latest \ desired

MistakeDeltaSkipsEndpoint(a, b) ==
  a.config # b.config \/ a.domain # b.domain

\* newResourceDelta, less the fields named in customUpdateResolverRule's
\* DifferentExcept.
DifferentExceptTagsAssociations(a, b) ==
  a.config # b.config \/ a.endpoint # b.endpoint \/ a.domain # b.domain

MistakeUpdateWithoutLatest(desired, latest) ==
  [tag    |-> desired.tags \ latest.tags,
   untag  |-> latest.tags \ desired.tags,
   add    |-> toAdd(desired.vpcs, {}),
   del    |-> toDelete(desired.vpcs, latest.vpcs),
   config |-> desired.config # latest.config]

\* customUpdateResolverRule: what it has to call, given desired and latest.
customUpdateResolverRule(desired, latest) ==
  [tag    |-> desired.tags \ latest.tags,
   untag  |-> latest.tags \ desired.tags,
   add    |-> toAdd(desired.vpcs, latest.vpcs),
   del    |-> toDelete(desired.vpcs, latest.vpcs),
   config |-> desired.config # latest.config]

\* sdkCreate after CreateResolverRule: associate everything that is wanted.
createAssociation(desired) == [NoWork EXCEPT !.add = toAdd(desired.vpcs, {})]

MistakeKeepsAssociations(latest) == NoWork

\* sdkDelete before DeleteResolverRule: disassociate everything observed.
disassociateAll(latest) == [NoWork EXCEPT !.del = toDelete({}, latest.vpcs)]
-----------------------------------------------------------------------------
(* How a reconcile ends *)

\* The operation returned an error: the runtime patches the status conditions,
\* or fails at that too, and puts the key back in the queue.
ReconcileError ==
  /\ \/ cr' = cr
     \/ Exists /\ cr' = [cr EXCEPT !.synced = FALSE]
  /\ ctl' = Idle
  /\ work' = NoWork
  /\ queued' = TRUE

\* The worker is gone, by a restart or a recovered panic, with what it knew.
\* The key comes back, by the initial list of the restarted controller or by
\* the work queue's rate limiter.
ReconcileLost ==
  /\ ctl' = Idle
  /\ work' = NoWork
  /\ queued' = TRUE
  /\ UNCHANGED cr
-----------------------------------------------------------------------------
(* The reconcile *)

\* The runtime takes the key and reads the object.
StartReconcile ==
  /\ ctl.pc = "idle" /\ queued
  /\ queued' = FALSE
  /\ ctl' = IF Exists
            THEN [Idle EXCEPT !.pc = "find", !.desired = cr.spec, !.id = cr.id,
                              !.mode = IF cr.phase = "deleting"
                                       THEN "delete" ELSE "sync"]
            ELSE Idle
  /\ UNCHANGED <<cr, work, rules, used, faults, edits, drift>>

\* After RequeueAfter or the resync period the key is queued again.
Resync ==
  /\ ctl.pc = "idle" /\ ~queued /\ Exists
  /\ queued' = TRUE
  /\ UNCHANGED <<cr, ctl, work, rules, used, faults, edits, drift>>

MistakeErrorIsNotFound ==
  /\ ctl.pc = "find"
  /\ ctl' = [ctl EXCEPT !.pc = IF ctl.mode = "delete"
                               THEN "unmanage" ELSE "manage"]
  /\ UNCHANGED <<cr, queued, work, rules, used, faults, edits, drift>>

\* sdkFind finds no rule: Status.ID is nil, or AWS does not know it.  A sync
\* goes on to create one, a deletion is done.
FindNothing ==
  /\ ctl.pc = "find" /\ ctl.id \notin Live
  /\ ctl' = [ctl EXCEPT !.pc = IF ctl.mode = "delete"
                               THEN "unmanage" ELSE "manage"]
  /\ UNCHANGED <<cr, queued, work, rules, used, faults, edits, drift>>

\* sdkFind finds the rule: a sync updates it, a deletion dismantles it.
FindRule ==
  /\ ctl.pc = "find" /\ ctl.id \in Live
  /\ \/ /\ ctl.mode = "sync"
        /\ ctl' = [ctl EXCEPT
             !.pc = "work", !.mode = "update",
             !.requeue = DifferentExceptTagsAssociations(ctl.desired,
                                                         Observed(ctl.id))]
        /\ work' = customUpdateResolverRule(ctl.desired, Observed(ctl.id))
     \/ /\ ctl.mode = "delete"
        /\ ctl' = [ctl EXCEPT !.pc = "work"]
        /\ work' = disassociateAll(Observed(ctl.id))
  /\ UNCHANGED <<cr, queued, rules, used, faults, edits, drift>>

\* getAttachedVPC does not look at the error of its call and dereferences the
\* nil response: the reconcile ends in a panic, without a status patch.
FindPanics ==
  /\ ctl.pc = "find" /\ ctl.id \in Live /\ faults < MaxFaults
  /\ faults' = faults + 1
  /\ ReconcileLost
  /\ UNCHANGED <<rules, used, edits, drift>>

MistakePatchErrorDropped ==
  /\ ctl.pc = "manage"
  /\ cr' = IF Exists THEN [cr EXCEPT !.finalizer = TRUE] ELSE cr
  /\ ctl' = [ctl EXCEPT !.pc = "create"]
  /\ UNCHANGED <<queued, work, rules, used, faults, edits, drift>>

\* The finalizer goes on before anything is created in AWS.  The object may be
\* gone by now, and the patch fails.
MarkManaged ==
  /\ ctl.pc = "manage"
  /\ \/ /\ Exists
        /\ cr' = [cr EXCEPT !.finalizer = TRUE]
        /\ ctl' = [ctl EXCEPT !.pc = "create"]
        /\ UNCHANGED <<queued, work>>
     \/ ~Exists /\ ReconcileError
  /\ UNCHANGED <<rules, used, faults, edits, drift>>

\* newCreateRequestPayload refuses a port that int32 cannot hold, and
\* getCreatorRequestId panics on a nil name: no call is made.
CreateRefused ==
  /\ ctl.pc = "create"
  /\ \/ Overflows(ctl.desired.config) /\ ReconcileError
     \/ /\ Nameless(ctl.desired.config) /\ ~Overflows(ctl.desired.config)
        /\ ReconcileLost
  /\ UNCHANGED <<rules, used, faults, edits, drift>>

\* The name and the time of day: no earlier call had this CreatorRequestId.
\* Which one it is makes no difference.
getCreatorRequestId ==
  {t \in RuleIds \ used : t = CHOOSE u \in RuleIds \ used : TRUE}

Payable(spec) == ~Overflows(spec.config) /\ ~Nameless(spec.config)

MistakeIdDrawnAgain ==
  /\ ctl.pc = "create" /\ Payable(ctl.desired)
  /\ \E t \in getCreatorRequestId :
       ctl' = [ctl EXCEPT !.pc = "creating", !.mode = "create", !.id = t]
  /\ UNCHANGED <<cr, queued, work, rules, used, faults, edits, drift>>

\* sdkCreate up to its call: it draws a CreatorRequestId, and forgets any id
\* the resource had.
PrepareCreate ==
  /\ ctl.pc = "create" /\ Payable(ctl.desired)
  /\ \E t \in getCreatorRequestId :
       /\ ctl' = [ctl EXCEPT !.pc = "creating", !.mode = "create", !.id = t]
       /\ used' = used \cup {t}
  /\ UNCHANGED <<cr, queued, work, rules, faults, edits, drift>>

NewRule(d) ==
  [config |-> Sent(d.config), endpoint |-> d.endpoint, domain |-> d.domain,
   tags |-> d.tags, assoc |-> [v \in Vpcs |-> "NONE"]]

With(t, d) ==
  [s \in Live \cup {t} |-> IF s \in Live THEN rules[s] ELSE NewRule(d)]

MistakeIdNotMerged ==
  /\ ctl.pc = "creating"
  /\ rules' = With(ctl.id, ctl.desired)
  /\ ctl' = [ctl EXCEPT !.pc = "work", !.id = cr.id]
  /\ work' = createAssociation(ctl.desired)
  /\ UNCHANGED <<cr, queued, used, faults, edits, drift>>

\* The id of the rule is known from here on, to the worker alone.
CreateResolverRule ==
  /\ ctl.pc = "creating"
  /\ rules' = With(ctl.id, ctl.desired)
  /\ ctl' = [ctl EXCEPT !.pc = "work"]
  /\ work' = createAssociation(ctl.desired)
  /\ UNCHANGED <<cr, queued, used, faults, edits, drift>>

\* The reply is lost and the SDK client sends the same request again.
CreateRetried ==
  /\ ctl.pc = "creating" /\ ctl.id \notin Live
  /\ rules' = With(ctl.id, ctl.desired)
  /\ UNCHANGED <<cr, queued, ctl, work, used, faults, edits, drift>>

TagResource ==
  /\ ctl.pc = "work" /\ work.tag # {} /\ ctl.id \in Live
  /\ rules' = [rules EXCEPT ![ctl.id].tags = @ \cup work.tag]
  /\ work' = [work EXCEPT !.tag = {}]
  /\ UNCHANGED <<cr, queued, ctl, used, faults, edits, drift>>

UntagResource ==
  /\ ctl.pc = "work" /\ work.tag = {} /\ work.untag # {} /\ ctl.id \in Live
  /\ rules' = [rules EXCEPT ![ctl.id].tags = @ \ work.untag]
  /\ work' = [work EXCEPT !.untag = {}]
  /\ UNCHANGED <<cr, queued, ctl, used, faults, edits, drift>>

TagsDone == work.tag = {} /\ work.untag = {}

MistakeDeletesFirst(v) == ctl.pc = "work" /\ TagsDone /\ v \in work.del

\* upsertNewAssociations and deleteOldAssociations take their VPCs in the order
\* of a Go map, that is, in any order; all additions come first.
MayAssociate(v) == ctl.pc = "work" /\ TagsDone /\ v \in work.add

MayDisassociate(v) ==
  ctl.pc = "work" /\ TagsDone /\ work.add = {} /\ v \in work.del

AssociateResolverRule(v) ==
  /\ MayAssociate(v) /\ ctl.id \in Live /\ rules[ctl.id].assoc[v] = "NONE"
  /\ rules' = [rules EXCEPT ![ctl.id].assoc[v] = "CREATING"]
  /\ work' = [work EXCEPT !.add = @ \ {v}]
  /\ UNCHANGED <<cr, queued, ctl, used, faults, edits, drift>>

DisassociateResolverRule(v) ==
  /\ MayDisassociate(v) /\ ctl.id \in Live
  /\ rules[ctl.id].assoc[v] \in {"CREATING", "COMPLETE"}
  /\ rules' = [rules EXCEPT ![ctl.id].assoc[v] = "DELETING"]
  /\ work' = [work EXCEPT !.del = @ \ {v}]
  /\ UNCHANGED <<cr, queued, ctl, used, faults, edits, drift>>

AssociationsDone == TagsDone /\ work.add = {} /\ work.del = {}

\* The config of a rule that gets this request: without a name it keeps its own.
Updated(config, sent) ==
  IF Nameless(sent) THEN [sent EXCEPT !.name = config.name] ELSE sent

MistakePortUnchecked ==
  /\ ctl.pc = "work" /\ AssociationsDone /\ work.config /\ ctl.id \in Live
  /\ rules' = [rules EXCEPT
       ![ctl.id].config = Updated(@, Sent(ctl.desired.config)),
       ![ctl.id].endpoint = ctl.desired.endpoint]
  /\ work' = [work EXCEPT !.config = FALSE]
  /\ UNCHANGED <<cr, queued, ctl, used, faults, edits, drift>>

\* syncResolverRuleConfig sends the endpoint along with the name and targets.
UpdateResolverRule ==
  /\ ctl.pc = "work" /\ AssociationsDone /\ work.config /\ ctl.id \in Live
  /\ ~Overflows(ctl.desired.config)
  /\ rules' = [rules EXCEPT
       ![ctl.id].config = Updated(@, Sent(ctl.desired.config)),
       ![ctl.id].endpoint = ctl.desired.endpoint]
  /\ work' = [work EXCEPT !.config = FALSE]
  /\ UNCHANGED <<cr, queued, ctl, used, faults, edits, drift>>

WorkDone == ctl.pc = "work" /\ work = NoWork

MistakeDeleteIgnoresError ==
  /\ WorkDone /\ ctl.mode = "delete" /\ ctl.id \in Live
  /\ rules' = IF Attached(ctl.id) = {} THEN Without(ctl.id) ELSE rules
  /\ ctl' = [ctl EXCEPT !.pc = "unmanage"]
  /\ UNCHANGED <<cr, queued, work, used, faults, edits, drift>>

\* AWS deletes a rule only when it has no association left, not even one that
\* is being removed.
DeleteResolverRule ==
  /\ WorkDone /\ ctl.mode = "delete"
  /\ ctl.id \in Live /\ Attached(ctl.id) = {}
  /\ rules' = Without(ctl.id)
  /\ ctl' = [ctl EXCEPT !.pc = "unmanage"]
  /\ UNCHANGED <<cr, queued, work, used, faults, edits, drift>>

\* The next call of the operation is one that cannot succeed: the rule is gone,
\* an association is in the way of a new one, even one that AWS is removing, or
\* another party has removed it first, the port does not fit, or a rule still has
\* associations.
Refused ==
  /\ ctl.pc = "work"
  /\ \/ ctl.id \notin Live /\ (work # NoWork \/ ctl.mode = "delete")
     \/ \E v \in Vpcs : MayAssociate(v) /\ ctl.id \in Live
                        /\ rules[ctl.id].assoc[v] # "NONE"
     \/ \E v \in Vpcs : MayDisassociate(v) /\ ctl.id \in Live
                        /\ rules[ctl.id].assoc[v] \in {"NONE", "DELETING"}
     \/ AssociationsDone /\ work.config /\ Overflows(ctl.desired.config)
     \/ WorkDone /\ ctl.mode = "delete" /\ ctl.id \in Live
        /\ Attached(ctl.id) # {}

\* sdkCreate only logs the error of createAssociation; every other operation
\* returns the first error it meets, and makes no further call.
OperationFails ==
  IF ctl.pc = "work" /\ ctl.mode = "create" /\ work # NoWork
  THEN work' = NoWork /\ UNCHANGED <<cr, queued, ctl>>
  ELSE ReconcileError

CallRefused ==
  /\ Refused
  /\ OperationFails
  /\ UNCHANGED <<rules, used, faults, edits, drift>>

\* Any call may fail for reasons of its own: throttling, the network, a
\* conflict, an access policy.
CallFails ==
  /\ ctl.pc \notin {"idle", "create"} /\ faults < MaxFaults
  /\ faults' = faults + 1
  /\ OperationFails
  /\ UNCHANGED <<rules, used, edits, drift>>

\* The operation returned: the runtime writes the id and the conditions to the
\* status.  RequeueOnUpdate makes it an error and queues the key again.
PatchStatus ==
  /\ WorkDone /\ ctl.mode \in {"create", "update"}
  /\ cr' = IF Exists
           THEN [cr EXCEPT !.id = ctl.id, !.synced = ~ctl.requeue] ELSE cr
  /\ queued' = (queued \/ ctl.requeue)
  /\ ctl' = Idle
  /\ UNCHANGED <<work, rules, used, faults, edits, drift>>

\* With its finalizer removed a deleted object disappears.
MarkUnmanaged ==
  /\ ctl.pc = "unmanage"
  /\ cr' = [cr EXCEPT !.finalizer = FALSE, !.phase = "gone"]
  /\ ctl' = Idle
  /\ UNCHANGED <<queued, work, rules, used, faults, edits, drift>>

Restart ==
  /\ faults < MaxFaults
  /\ faults' = faults + 1
  /\ ReconcileLost
  /\ UNCHANGED <<rules, used, edits, drift>>
-----------------------------------------------------------------------------
User == EditSpec \/ DeleteResource

Aws == \E r \in Live, v \in Vpcs : AssociationSettles(r, v)

Associations ==
  \E v \in Vpcs : AssociateResolverRule(v) \/ DisassociateResolverRule(v)

Controller ==
  \/ StartReconcile \/ FindNothing \/ FindRule \/ FindPanics \/ MarkManaged
  \/ CreateRefused \/ PrepareCreate \/ CreateResolverRule \/ CreateRetried
  \/ TagResource \/ UntagResource \/ Associations \/ UpdateResolverRule
  \/ DeleteResolverRule \/ CallRefused \/ CallFails
  \/ PatchStatus \/ MarkUnmanaged

\* Nothing is left to do for an object that is gone.
Finished ==
  /\ ~Exists /\ ctl.pc = "idle" /\ ~queued
  /\ UNCHANGED vars

Next ==
  \/ User \/ Aws \/ Controller \/ Resync \/ Restart
  \/ (\E r \in Live : RuleDrifts(r)) \/ Finished

Spec == Init /\ [][Next]_vars

\* The worker takes its next step, AWS finishes what it began, and the resync
\* period of the controller (ten hours by default) comes round.  Users promise
\* nothing; faults are bounded.
FairSpec ==
  Spec /\ WF_vars(Controller) /\ WF_vars(Aws) /\ WF_vars(Resync)
-----------------------------------------------------------------------------
(* Safety *)

\* Rules nobody will find again: neither the object's status nor the worker in
\* progress has the id.
Orphans == Live \ (IF Exists THEN {cr.id, ctl.id} ELSE {ctl.id})

\* A rule that the object or the worker knows is guarded by the finalizer of an
\* object that is still there: deleting the resource at any moment, a create in
\* progress included, cannot leave the rule behind (MarkManaged before
\* sdkCreate, the error returns of sdkDelete, MarkUnmanaged last).
KnownRuleIsGuarded ==
  \A r \in Live \cap {cr.id, ctl.id} : Exists /\ cr.finalizer

\* Each orphaned rule is the price of one failed call or restart: a behaviour
\* without any leaves no rule behind, whatever the user does, and the SDK's own
\* retries of CreateResolverRule, which repeat the CreatorRequestId that
\* sdkCreate drew, never cost a rule.
OrphansBoundedByFaults == Cardinality(Orphans) <= faults

\* The reconciles of the object are over and ACK.ResourceSynced is True.
Settled ==
  cr.phase = "live" /\ cr.synced /\ ~queued /\ ctl.pc = "idle" /\ cr.id \in Live

\* A resource reported as synced, with no event pending, has in AWS what its
\* spec says, save that VPCs may be missing, and that only when a call failed
\* (the error of createAssociation that sdkCreate only logs).
SyncedIsHonest ==
  Settled =>
    LET o == Observed(cr.id) IN
    /\ [o EXCEPT !.vpcs = {}] = [cr.spec EXCEPT !.vpcs = {}]
    /\ o.vpcs \subseteq cr.spec.vpcs
    /\ faults = 0 => o.vpcs = cr.spec.vpcs

\* AWS sends queries to no port but one that a user wrote: a port that does not
\* fit the request is refused on create and, after tags and VPCs of the same
\* update have been changed, on update; it is never cut to the width of the
\* request (the range checks before int32 in newCreateRequestPayload and
\* syncResolverRuleConfig).
PortsAreAsWritten ==
  \A r \in Live : \E c \in Configs : rules[r].config.port = c.port

\* What "IsSynced returns true if the resource is synced" (manager.go) says of
\* the associations.
SyncedMeansAssociated == Settled => cr.spec.vpcs \subseteq Observed(cr.id).vpcs

\* What sdkCreate's comment on CreatorRequestId says: failed requests are
\* retried without the risk of running the operation twice.
CreatedOnce == drift = 0 => Cardinality(Live) <= 1
-----------------------------------------------------------------------------
(* Steps *)

\* Once bound to a rule the object stays bound to it for as long as the rule
\* exists: no reconcile takes another rule in its place (sdkFind creates only
\* on NotFound, and the status carries the id that was read or created).
StableBinding == [][cr.id \in Live => cr'.id = cr.id]_vars

\* While it updates a rule the controller takes a VPC away only when it is not
\* wanted and every wanted VPC is there: VPCs are moved without a gap
\* (syncAssociation adds before it deletes, and stops at the first error).
AddBeforeRemove ==
  [][\A r \in Live, v \in Vpcs :
       (ctl.mode # "delete" /\ r \in DOMAIN rules'
        /\ rules[r].assoc[v] # "DELETING" /\ rules'[r].assoc[v] = "DELETING")
       => v \notin ctl.desired.vpcs /\ ctl.desired.vpcs \subseteq getAttachedVPC(r)
    ]_vars
-----------------------------------------------------------------------------
(* What every resource manager promises *)

\* The id of a rule that the create in progress has brought, not yet written to
\* the object's status.
PendingId ==
  IF ctl.mode = "create" /\ (ctl.pc = "work" \/ ctl.id \in Live)
  THEN ctl.id ELSE NoId

Managed ==
  INSTANCE ManagedResource WITH
    Ids <- RuleIds, phase <- cr.phase, finalizer <- cr.finalizer,
    bound <- cr.id, pending <- PendingId, existing <- Live, drift <- drift

\* Through every edit, failed call, panic and restart the manager and the
\* runtime keep that promise: no rule is made without the finalizer or while the
\* object's own one exists, none is destroyed before the object is deleted, and
\* the object goes only when nothing it knows of is left (ReadOne, Create,
\* Update and Delete of manager.go under MarkManaged and MarkUnmanaged).
RefinesManaged == Managed!Spec
-----------------------------------------------------------------------------
(* Liveness *)

\* Once users and faults stop, a resource that stays is bound to a rule with
\* its name, targets, tags and VPCs, in spite of additions that AWS refuses
\* while a removal is under way.
Converges ==
  <>[](cr.phase = "live" /\ Payable(cr.spec) =>
         /\ cr.id \in Live
         /\ rules[cr.id].config = cr.spec.config
         /\ rules[cr.id].tags = cr.spec.tags
         /\ getAttachedVPC(cr.id) = cr.spec.vpcs)

\* What the comment of customUpdateResolverRule says of an update that returned:
\* desired.Spec reflects the latest resource state, its endpoint included.
EndpointConverges ==
  <>[](cr.phase = "live" /\ cr.id \in Live =>
         rules[cr.id].endpoint = cr.spec.endpoint)

\* A deletion ends, although AWS refuses to delete the rule until it has
\* removed the associations that sdkDelete took away.
DeletionCompletes == cr.phase = "deleting" ~> ~Exists
=============================================================================
