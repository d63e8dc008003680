# A model of the Route 53 Resolver controller

The repository is an ACK service controller: it watches Kubernetes custom
resources (CRs) of five kinds and calls the Route 53 Resolver API until AWS
holds what they say. This directory holds TLA+ modules translated from its
source, TLC configurations that check them on small instances, and TLAPS proofs
of what matters most for every instance.

Paths below are relative to the repository root; these stand for the five kinds under
`src/pkg/resource/`: `R/` for `resolver_rule/`, `E/` for `resolver_endpoint/`, `A/` for
`resolver_rule_association/`, `Q/` for `resolver_query_log_config/` and `QA/` for
`resolver_query_log_config_association/`.

## 1. Inventory

### The parts and how they interact

| part | state | operations | modelled by |
|---|---|---|---|
| ResolverRule manager (`R/`) | none of its own; acts on the CR and on AWS | sdkFind, sdkCreate, sdkUpdate, sdkDelete, association and tag sync | `ResolverRule` |
| ResolverEndpoint manager (`E/`) | the same | the same four, with IP addresses in place of associations | `ResolverEndpoint` |
| ResolverRuleAssociation manager (`A/`) | the same | references, read, create, delete; an update is a terminal error | `RuleAssociation`, beside `ResolverRule` |
| ResolverQueryLogConfig manager (`Q/`) | the same | read, create, tag update, delete; asynchronous status; terminal errors | `QueryLogConfig` |
| ResolverQueryLogConfigAssociation manager (`QA/`) | the same | references, read, create, delete; asynchronous status; terminal errors | `QueryLogAssociation`, beside `QueryLogConfig` |
| resource manager factories (one per kind) | `rmCache` under an RWMutex | ManagerFor | `ManagerFactory` |
| tag synchronisation (`src/pkg/tags`, `*/tags.go`) | none | SyncTags, GetTags, conversion, controller and AWS tags | `QueryLogConfig`; as plain sets in `ResolverRule` and `ResolverEndpoint` |
| references (`*/references.go`) | none; reads other CRs | ResolveReferences, ClearResolvedReferences | `RuleAssociation`, `QueryLogAssociation` |
| conditions (`updateConditions`, `onError`, `onSuccess`) | `Status.Conditions` | set Terminal, Recoverable, ResourceSynced | Synced everywhere, Terminal in the three newer kinds |
| registry, `main.go`, generated types, helm | written once at start | wiring | not modelled |
| ACK runtime, controller-runtime, Kubernetes API, AWS | CR, work queue, rules | sequence of a reconcile, retries, restarts, asynchronous progress | external, as far as the managers depend on it |

The runtime takes the key of a CR from the work queue, reads the CR, asks the
kind's factory for a manager (`ManagerFor`), and calls ReadOne. If that says
NotFound it puts the finalizer on the CR and calls Create; otherwise it compares
the observed resource with the desired one (`newResourceDelta`) and calls Update
if they differ. For a CR marked as deleted it calls ReadOne, then Delete, then
removes the finalizer. Afterwards it patches the status. An error, a
`requeue.Needed` among them, puts the key back into the queue; a success leaves it
to the resync period, or to a shorter delay if `IsSynced` says no. A terminal error is
written into the conditions, and the key is not queued again. One key is never reconciled
by two workers at once;
different keys are, by as many workers as the deployment configures.

### What is hard

* AWS and Kubernetes calls follow one another with anything in between: an edit,
  a deletion, a restart, a call that fails after it took effect.
* AWS works asynchronously: an association is CREATING before it is COMPLETE and
  DELETING before it is gone, and in between it is in the way.
* Nothing is persisted but the CR: what a worker learned, the id of a rule it has
  just created in particular, is lost with it.
* Some errors are dropped or only logged, and the reconcile goes on; others count as
  terminal and stop the retries of a deletion that could succeed later.
* Two kinds act on the same association: what one makes, the other takes away.
* Tags belong to three parties at once: the user, the controller and AWS.

The hazards are listed, line by line, in `PROJECT.json`; the few that no property
covers carry a note.

### What makes each component correct

* **ResolverRule**: a rule that somebody still knows is never left behind by a
  deletion (`KnownRuleIsGuarded`); a rule nobody knows any more has a fault to
  account for it (`OrphansBoundedByFaults`); the CR never changes from one
  existing rule to another (`StableBinding`); "synced" means what it says
  (`SyncedIsHonest`); VPCs are moved without a gap (`AddBeforeRemove`); a port is
  refused or sent as it is written, never cut to the width of the request
  (`PortsAreAsWritten`); specs converge (`Converges`) and deletions end (`DeletionCompletes`).
* **ManagerFactory**: no concurrent map access, no worker builds a manager twice,
  every call returns.
* **ResolverEndpoint**: a synced endpoint has the name, tags, direction and security
  groups of its spec, also where no request can change them (`SyncedFieldsAgree`);
  addresses are moved without a gap although two errors are dropped
  (`AttachBeforeDetach`); an update that reports success has moved every address, or
  the next one gets further (`SubnetsConverge`).
* **ResolverRuleAssociation**: an association that its object knows of is guarded by the
  finalizer (`KnownAssociationIsGuarded`); a synced object is bound to the name, rule and VPC that
  its spec asks for, by id or by reference (`SyncedAssociationIsHonest`); nobody takes an association away without a right to
  (`RemovedByRight`); a deletion ends whatever the rule's controller does
  (`AssociationDeletionCompletes`), and what that one takes away comes back
  (`AssociationComesBack`).
* **ResolverQueryLogConfig**: no AWS tag is ever sent or removed (`SystemTagsUntouched`), no
  wanted tag is lost on the way (`WantedTagsStay`), the calls of an update lead to exactly the
  wanted tags (`TagCallsLead`), and tags converge (`TagsConverge`); synced means created
  (`SyncedConfigIsHonest`); only a refusal that the code calls terminal stops a deletion
  (`GivenUpWhenRefused`), and otherwise it ends (`ConfigDeletionEnds`).
* **ResolverQueryLogConfigAssociation**: the same guard and the same honesty, where a failed
  association is never synced; `AssociationGivenUpWhenRefused`, `AssociationDeletionEnds`.
* **References**: an association is asked for only once both references are resolved (part of both
  `AssociationTypeOK`); what was resolved is used calls later, and a synced association is
  nonetheless one with the resource that the referenced object has now
  (`SyncedAssociationIsHonest`).
* **Every kind with a resource of its own** keeps the promise of `ManagedResource`
  (`RefinesManaged`).

## 2. Modules

### `ManagedResource`

The abstract specification: what every manager promises of the one AWS resource behind a
CR, whatever its kind. Its state is the object's phase, finalizer and status id, the id that
a create has brought and the status does not have yet, and the set of ids that exist in AWS.
A resource is made only under the finalizer and while the object has none (`Create`), bound
only from a create of its own (`Bind`), destroyed only for an object being deleted
(`Destroy`), and the object goes only when nothing it knows of is left (`Release`).
`Forget` is what a failed call or a restart may cost. `Drift` is the removal by another
party, and counts itself in a variable, so that no step of the controller can pass for one.

`ResolverRule`, `ResolverEndpoint` and `QueryLogConfig` instantiate it as `Managed`:

| abstract | rule | endpoint | query log config |
|---|---|---|---|
| `phase`, `finalizer`, `bound` | of `cr` | of `cr` | of `cr` |
| `pending` | `PendingId`: the id in `ctl` of a create whose rule exists | the same | the id in `ctl` at the final patch, if the status lacks it |
| `existing` | `Live` | `Live` | those that are not DELETING |
| `drift` | `drift` | constant 0 | `drift` |

The two associations are not instances of it: AWS's id of an association is not what a
deletion names, and each has a second party with the right to remove it.

### `ResolverRule`

One CR of kind ResolverRule and the rules made for it.

| variable | in the code |
|---|---|
| `cr` | the object in the Kubernetes API: phase (live, marked deleted, gone), finalizer, `Spec`, `Status.ID`, and whether `ACK.ResourceSynced` is True |
| `queued` | the key is in the work queue |
| `ctl` | the reconcile in progress: next call, operation, its copy of spec and id, whether it will return `RequeueOnUpdate` |
| `work` | the calls the manager's operation has still to make: tags to add and remove, VPCs to add and remove, UpdateResolverRule |
| `rules` | the rules AWS holds, a function on the ids of those that exist |
| `used` | CreatorRequestIds drawn so far |
| `faults`, `edits`, `drift` | counters for the bounds, nothing else reads them but the properties |

| action | code |
|---|---|
| StartReconcile, Resync, ReconcileError, ReconcileLost, PatchStatus | the runtime around `R/manager.go` |
| FindNothing, FindRule, FindPanics | `sdkFind` with `getAttachedVPC` |
| MarkManaged, MarkUnmanaged | `R/descriptor.go` |
| CreateRefused, PrepareCreate, CreateResolverRule, CreateRetried | `sdkCreate`; the SDK client repeats a request with the id it carries |
| TagResource, UntagResource | `SyncTags` |
| AssociateResolverRule, DisassociateResolverRule | `syncAssociation`, one call each, in any order within a loop since the loops run over Go maps |
| UpdateResolverRule | `syncResolverRuleConfig` |
| DeleteResolverRule | `sdkDelete` after its `syncAssociation` |
| CallRefused, CallFails | an error answer of AWS that the state explains, and one it does not |
| EditSpec, DeleteResource, AssociationSettles, RuleDrifts, Restart | user, AWS, another party, Kubernetes |

`customUpdateResolverRule`, `createAssociation` and `disassociateAll` compute the
calls an operation makes; `OperationFails` says what a failed call does to the
operation: everywhere it ends the reconcile with an error, except in `sdkCreate`
after the rule exists, where the error of `createAssociation` is logged and the
operation succeeds.

AWS identifies a create by its CreatorRequestId: two requests with the same one
are one rule. The id of a rule and the CreatorRequestId that made it are therefore one
value in the model.

Abstractions: `Name` and `TargetIPs`, which an update sends, are one record `config` of
a name and a port: the port stands for the whole of the targets, and is what the code
checks before it converts it to `int32` (`R/hook.go:131`, the same in
`newCreateRequestPayload`). The width of that type is a constant, `MaxInt32`, and the
conversion keeps the low bits as Go does. An update request without a name
leaves AWS's name as it is and sends the targets. `DomainName` and `RuleType`, which only a
create sends, are one value `domain`; a tag is one value, key and value together; the order
of lists, which may cause a comparison to differ without any call being made, is left out. The
DELETING state of a rule is folded into its deletion.

`Mistake...` operators are not part of the specification. Each is a variant of
the definition after it with a plausible error, and serves to show that the
property named in `PROJECT.json` notices the error.

### `MCResolverRule`

The symmetry set for the safety run: VPCs and tags are interchangeable.

### `ResolverEndpoint`

One CR of kind ResolverEndpoint and the endpoints made for it. `cr`, `queued`,
`ctl`, `faults` and `edits` are as in `ResolverRule`; the rest is its own:

| variable | in the code |
|---|---|
| `ctl.updated` | the resource `sdkUpdate` returns: the desired one with the answer of UpdateResolverEndpoint merged over its spec |
| `work` | the calls `sdkUpdate` has still to make: tags, the update request, addresses to attach and to detach |
| `endpoints` | the endpoints AWS holds, with their addresses and whether AWS is still busy with a change (CREATING, UPDATING) |

| action | code |
|---|---|
| FindNothing, FindEndpoint, FindWithoutAddresses | `sdkFind`; the last one when `ListAttachedIPAddresses` fails, an error that `E/sdk.go:163` drops |
| CreatePanics, PrepareCreate, CreateResolverEndpoint, CreateRetried | `sdkCreate`; `getCreatorRequestId` dereferences the name |
| TagResource, UntagResource | `SyncTags` |
| UpdateResolverEndpoint | the request of `sdkUpdate` and the merging of its answer |
| AssociateResolverEndpointIpAddress, DisassociateResolverEndpointIpAddress | `SyncIPAddresses`, a call each, all additions first |
| DeleteResolverEndpoint | `sdkDelete` |
| PatchSpec, PatchStatus | the runtime's two patches at the end: the fields of the spec that the operation changed, then id and conditions |
| CallRefused, CallFails | as in `ResolverRule`; `OperationFails` drops the error of a call of `SyncIPAddresses` |
| EditSpec, DeleteResource, EndpointSettles, Restart | user, AWS, Kubernetes |

`sdkUpdate` (the operator) is the plan of an update: `newResourceDelta` decides on the
request, `GetIPAddressDifference` on the addresses.

What AWS does is external and modelled loosely. It may refuse to attach, detach
or delete while it is busy, and may as well accept; it never leaves an endpoint with
fewer than `MinAddresses` addresses, nor attaches one twice.

Abstractions: `Name` stands for `Name` and `ResolverEndpointType`, the two fields that
the update request carries when they are not nil; `fixed` for `Direction` and
`SecurityGroupIDs`, which it never carries. A list of addresses is a set, so that a
reordered list, which makes an update without a call for any address, is no edit.
Every address has its IP: with one that AWS chooses the listing differs from the spec
for ever, which is left for later. The id of an attached address is identified
with the address, because `ListAttachedIPAddresses` fills the list of addresses and
the list of ids in one loop and assigns both or neither. A CreatorRequestId that no
endpoint has may be drawn again, which keeps the state space small and differs from a
fresh one in nothing the model can observe.

### `MCResolverEndpoint`

Lists of addresses: `Moves` (out of one subnet into another, with a changed address in the
one that stays), `Crowded` (lists AWS refuses, two addresses in a subnet) and `Exchange` (an
address replaced by another one of its subnet).

### `RuleAssociation`

Extends `ResolverRule` with a ResolverRuleAssociation CR and its controller. Both act on
`rules[r].assoc[v]`; every step of `ResolverRule` is a step here (`RuleStep`).

| variable | in the code |
|---|---|
| `acr` | the object: phase, finalizer, `Status.ID`, spec (name, and each of rule and VPC by reference or by id), `ACK.ResourceSynced`, `ACK.Terminal` |
| `aqueued` | whether the queue of the kind hands its key out now, after a delay, or never |
| `actl` | the reconcile in progress: next call, sync or deletion, the resolved rule and VPC, the association's id, how it will end |
| `assocId`, `assocName` | the ids and names of the associations in AWS; `TrackIds` says how each step changes them |
| `vpcReady` | whether the VPC object, which another controller owns, is synced and has an id |

| action | code |
|---|---|
| ResolveReferences | `ResolveReferences`, `validateReferenceFields` and both `resolveReferenceFor...` on the referenced objects as they are at that moment |
| FindNoAssociation, FindAssociation | `sdkFind`, then `newResourceDelta` and, on a difference, `sdkUpdate`, which returns a terminal error |
| CreateAssociation, CreateAssociationLost | `sdkCreate`; a lost answer costs the id, as the request has no token |
| DeleteTheAssociation | `sdkDelete`, by the rule and the VPC that were read |
| ACallRefused, ACallFails | errors that the state explains, and others; this kind has no terminal AWS error codes |
| PatchAssociationStatus, PatchTerminal | `onSuccess`, `onError`, `IsSynced` and the runtime's patch and requeue |
| ManageAssociation, UnmanageAssociation | `A/descriptor.go` |
| EditAssociation, DeleteAssociation, ApplyRuleAgain, VpcSettles, RestartBoth | users, Kubernetes and the controller of the VPC |

The validation rules of the CRD let an id field be set or removed but not changed. The name can be
edited; a difference ends in the terminal update like the others. The rule's controller
makes its associations without a name, so that an object that names its own finds a
difference when it meets one of those.

### `MCRuleAssociation`

Specs by reference, by id, by id with a name, and with both reference and id, which `validateReferenceFields` refuses. `MCNext`
bounds a behaviour to either a failure and an edit, or a rule deleted by others.

### `QueryLogConfig`

One CR of kind ResolverQueryLogConfig. `cr`, `ctl`, `work`, `faults`, `edits`, `drift` are as
in `ResolverRule`; `queued` has three values as above; `configs` are the configurations in AWS
with status, tags and their association with the one VPC; `used` are the ids that AWS has given,
none of which it gives again.

| action or operator | code |
|---|---|
| GetResolverQueryLogConfig, FindNothing | `sdkFind` up to the tags |
| getTags | the call for the tags, then all that follows on it: `mirrorAWSTags`, `newResourceDelta` and the plan of `customUpdateResolverQueryLogConfig` |
| convertToOrderedACKTags, EnsureTags, mirrorAWSTags, SyncTags | the functions of those names, on maps from keys to values |
| TagResource, UntagResource | the two calls of `SyncTags` |
| CreateResolverQueryLogConfig, CreateLost | `sdkCreate` |
| DeleteResolverQueryLogConfig | `sdkDelete`; AWS begins to delete, the object need not wait |
| TerminallyRefused | `terminalAWSError`: InvalidParameterException for a destination AWS cannot use, InvalidRequestException for a deletion while associated or deleting |
| CallRefused, CallFails, PatchStatus, ReconcileError, ReconcileTerminal | `onError`, `onSuccess`, `updateConditions` and the runtime around them |
| EditTags, DeleteResource | user |
| ConfigSettles, AssociationSettles, TaggedByOthers, AssociatedByOthers, DeletedByOthers | AWS and others |

An update returns the desired resource with the status the object had before, not the one
just read (`Q/hooks.go:22`); the model does the same. A terminal error leaves the key out of
the queue; its patch of the conditions may be lost without anybody noticing. An error that is not
terminal takes `ACK.Terminal` away (`updateConditions`); of a deletion only that of `sdkDelete`'s
own call does, since the runtime writes no condition when the read before it fails. The two association
kinds do the same.

A user may write a tag with a key of the controller's: the merge in `EnsureTags` prefers the
user's value.

### `QueryLogAssociation`, `MCQueryLogging`

Extends `QueryLogConfig` with a ResolverQueryLogConfigAssociation CR in the way
`RuleAssociation` extends `ResolverRule`. It differs in the error codes held to be terminal, in
the reference, which a terminal configuration blocks, and in the status FAILED.

`MCInit` has three parts: a configuration with everything that can happen to its tags and
no association object; a configuration left alone with an association object whose
calls may fail and whose VPC takes its time; and the same when others delete
configurations and the association is edited or removed by others. One instance with all of it at once is
out of TLC's reach in the time of a run.

### `ManagerFactory`

`ManagerFor`, one action per lock operation and map access, for any number of
workers. `rmCache` holds, by key, which worker made the cached manager; `made`
counts. A reader waits while a writer waits, as in Go's RWMutex.

### The `...Proofs` modules

The theorems; see section 4. Each extends the module it is about, and those of a composition
(`RuleAssociationProofs`, `QueryLogAssociationProofs`) extend the proofs about the controller that they compose
with, whose lemmas on single steps they use again.

## 3. Runs

| run | question | result |
|---|---|---|
| `rule_safety` | safety, step properties and the refinement: 2 VPCs, 2 endpoints, 1 tag, 2 faults, 1 edit, 1 rule lost | holds |
| `rule_liveness` | convergence and deletion, ports as written: 2 VPCs, 4 configs of which 2 cannot be sent, 1 fault, 1 edit, 1 rule lost | holds |
| `rule_created_twice` | is a failed create retried without the risk of running twice | violated |
| `rule_synced_unassociated` | is a synced rule associated with its VPCs | violated |
| `rule_endpoint_edit` | is an edited endpoint ever sent | violated |
| `endpoint_safety` | honest fields, addresses without a gap and where the spec wants them, the refinement: 4 lists, 2 names and nil, 2 fixed values, 1 tag, 1 fault, 1 edit | holds |
| `endpoint_same_subnet` | is a synced endpoint's address attached, no call having failed | violated |
| `manager_factory` | race freedom, one manager per worker and key, every call returns | holds |
| `manager_factory_race` | is there one manager per key | violated |
| `rule_association` | both controllers on one rule and one VPC: guards of rule and association, stable binding, orphans, honesty by id, by name and by reference, right to remove, deletion, return; 4 specs, 1 edit or rule object applied again, 1 fault or 1 rule lost | holds |
| `rule_association_contended` | does each controller keep to its own associations | violated |
| `query_logging` | tags and the calls that set them, status, terminal errors and deletion of a configuration, its refinement, and the association that refers to it; 4 tag lists, 1 edit, 1 fault, 1 removal | holds |

**Bounds.** Two VPCs are what it takes to move from one to another, and to have
an operation fail half-way. `RuleIds` must be one more than what faults and drift
can use up, so that the supply never ends before they do: every create that starts
costs an id, and it is repeated only after a fault or a lost rule. One edit after
any state reaches every pair of specs, as the initial spec is arbitrary. Two
faults allow a fault in the handling of a fault. In `rule_liveness` there is a
config of each sort: two that can be sent, one with a port that does not fit,
one without a name. `MaxInt32` is 3 there, and the port that does not fit is 8: cut to the
width it would be 0, which no spec has. `rule_safety` has one config: that a synced rule has the
config of its spec is for the theorem to say, and that it ends up with it for `Converges`. For an endpoint one fault loses
one call or one worker, and one edit moves addresses, fields or both. `MinAddresses` is two as in AWS; one of the lists of
`Moves` has three addresses, so that an address can be detached before anything
is attached, which is what `AttachBeforeDetach` forbids. Two workers are enough for a race, and two keys for a worker
that comes back with another key. For an association one rule and one VPC are contended for; three rule
ids allow the rule to be lost and its object applied again. The tag lists are the empty one, one with a tag of the user's and one
that gives a tag of the controller's another value, a key given twice, and tags without a key or a value; of the
keys one is the user's, one the controller's and one AWS's. The rule runs have at most one tag: what
`SyncTags` does with several at once, by key and value, is checked in `query_logging` and
proved for any number. `AssocIds` has
two more ids than there are places for an association (a rule and a VPC, or a configuration), so that
one is free when all others are taken and two more remembered (`FreshIdAssumption`,
`FreshAssociationAssumption`).

**Fairness.** `FairSpec` of ResolverRule has weak fairness on the controller's own
steps (a worker that has begun goes on, and a queued key is taken up), on
AWS (a begun association ends) and on Resync (the runtime's resync period, ten hours in
`src/helm/values.yaml`). `FairSpec` of ResolverEndpoint
is the same. Calls that AWS refuses are steps of the controller, so
nothing says that AWS accepts a call; once it is no longer busy it has no reason
to refuse one, and that is what `SubnetsConverge` rests on. None is assumed for users, faults, restarts, drift or others, and the
counters bound them; nor for the VPC object, which may never become ready. In the two
compositions each worker has weak fairness of its own, since each kind has its own queue
and workers, and one does not wait for another. `FairSpec` of ManagerFactory has weak fairness on a call that
has begun, and strong fairness on obtaining either lock: Go's RWMutex
lets neither readers nor writers starve.

`AssociationComesBack` says that a VPC is associated again and again, not that it stays so:
with a rule whose spec does not list it the two controllers go on for ever.
`ConfigDeletionEnds` and `AssociationDeletionEnds` admit that the controller gives a deletion
up. When it may is the subject of `GivenUpWhenRefused` and `AssociationGivenUpWhenRefused`: in the
very step in which AWS refuses the call for a reason that `terminalAWSError` calls terminal. A configuration that was deleted while associated is not looked
at again when the association goes, until the process restarts.

`SubnetsConverge` speaks of specs that AWS can create and whose
addresses lie in at least two subnets. With fewer, the last address of an unwanted
subnet may be one of the two that AWS keeps, and the update reports success for ever.
`Converges` speaks of a spec whose config can be sent; a resource without a name
makes every create panic. It leaves out `ResolverEndpointID`, which
`rule_endpoint_edit` shows not to converge, and the fields of `domain`, which no
update can change in AWS.

**Findings.** Six places where a comment or a document of the repository says more than the
code does; each is a violation run:

1. `R/sdk.go:237` on CreatorRequestId: failed requests can be retried without the
   risk of running the operation twice. The id contains the time of the attempt
   (`R/hook.go:28`), so a create whose answer is lost is run twice.
2. `R/manager.go:266`, "IsSynced returns true if the resource is synced": it always
   returns true, and `R/sdk.go:346` drops the error of a failed association.
3. `R/hook.go:92`: after an update without error the spec reflects the latest
   state. An edit of the endpoint alone makes no call, for ever.
4. `E/manager.go:266`, the same words for an endpoint: addresses are compared by their
   subnet (`E/hook.go:151`), so an address exchanged for another of its subnet is never
   attached, and the resource is synced nonetheless.
5. `R/manager_factory.go:58`: one manager per account, region and role. Two workers that
   miss together make two. Harmless, managers keep no state of their own.
6. `src/documentation.yaml:30`: with ResolverRuleAssociation objects each consumer manages
   its own association without contending over the rule's spec. The rule's controller
   disassociates every VPC that its own spec does not list (`R/hook.go:194`), that of a
   live association object too, whose controller makes it again.

## 4. Proofs

All theorems hold for arbitrary constants subject to the named assumptions of the modules
they are about:

| module | assumptions | what they say |
|---|---|---|
| `ResolverRule` | `SetsAssumption`, `BoundsAssumption` | there are specs to write, of a name or none and a port of any size; `NoId` is no id, bounds and `MaxInt32` are numbers |
| `ResolverEndpoint` | `EndpointAssumption`, `EndpointBounds` | the same |
| `RuleAssociation` | `AssociationAssumption`, `FreshIdAssumption`, and those of `ResolverRule` | the nil values are no ids; AWS does not run out of association ids |
| `QueryLogConfig` | `KeysAssumption`, `TagListsAssumption`, `ConfigIdsAssumption`, `ConfigBoundsAssumption` | users write no keys of AWS, though they may write the controller's; lists are sequences of tags |
| `QueryLogAssociation` | `QueryLogAssociationAssumption`, `FreshAssociationAssumption`, and those of `QueryLogConfig` | as for `RuleAssociation` |
| `ManagerFactory` | `WorkersAssumption` | `NoWorker` is no worker |

That an id of an association is free whenever one is made is what AWS provides; without it the
model's `CHOOSE` would say nothing of the id, and two associations could share one.
`OrphansBounded` needs no finiteness assumption on `RuleIds`,
since an orphan count within `faults` is itself shown finite.

### One controller at a time

* `TypeCorrect` rests on `TypeInv`: `TypeOK` alone does not say that the worker in a create has drawn
  its id, nor that what it is about to send has a name and a port that fits (`PayableCreated`). `Bound` adds
  the finalizer guard, the modes of each program counter and the ids they imply.
* `PortsAreKept`: `PayableCreated` is what a create needs, and the check in `UpdateResolverRule` what an
  update needs, for the conversion to `int32` to give back the port as written (`SentAsWritten`).
* `FinalizerGuards` follows: MarkManaged precedes the first call that creates, and
  MarkUnmanaged comes only when the rule is gone.
* `BindingIsStable`: only PatchStatus writes the id, and it writes that of the copy unless the
  copy's rule was not found.
* `OrphansBounded`: the inductive invariant carries finiteness of the orphan set; the only
  steps that make an orphan spend a fault, and each makes at most one.
* `VpcsMoveWithoutGap`: the invariant relates `work` to the associations in AWS
  while an update is in progress: what is still to be added, together with what is
  attached, covers the desired VPCs, and what is to be removed is not desired.
* `EndpointTypeCorrect` rests on `TypeInv`: `TypeOK`, that calls are left over only
  within an update, and that an operation under way has an id.
* `AddressesMoveWithoutGap` rests on `MoveInv`: while an update has something to detach, the
  subnets still to be attached, together with those in AWS, cover the wanted ones, and
  what is to be detached lies in unwanted subnets. When the listing failed, there is
  nothing to detach, and the invariant holds trivially. Detaching needs `work.added`
  to be empty, and a failed attachment empties `work`.
* `FactoryRaceFree` and `WorkerMakesOne` follow from the lock invariant: readers
  and writers are exactly the workers whose program counter says so, and a worker
  that has made a manager of a key finds the key cached.

* `RuleIsManaged`, `EndpointIsManaged` and `ConfigIsManaged` show the refinement of
  `ManagedResource`: initial states map to initial states, and each action to a step or a
  stutter, under an inductive invariant. That of the rule is `Bound`, which ties the id the worker
  carries to the one in the status at each program counter; that of the two others adds
  `Life`: an id that the worker has and the status has not belongs to a create under the
  finalizer while the id in the status is none that exists, and a deletion in progress is that
  of an object being deleted. Without it the final patch could not be shown to be `Bind`,
  nor the removal of the finalizer to be `Release`.
* `GuardedAlways`: `ManagedResource` entails that a resource in the status or on its way to it
  has an object with the finalizer. Its invariant adds only that `existing` consists of ids.
* `ConfigTypeOK` and `AwsTagsAreLeftAlone` rest on `TagsInv`: the tags the worker wants are, before
  the tags are read, without any of AWS's, and the calls left over never mention one. For the
  former the conversion of a tag list must be shown to have a last place for each key,
  by well-founded induction on its places.
* `WantedTagsAreKept`: while there is something to untag, none of it is wanted; `SyncTags`
  takes out of the removals what it sends.
* `TagCallsAreEnough`: `SyncLeads` says of `SyncTags`, for any two tag maps, that its calls turn
  the one into the other; `TagsStep`, that each call done and struck off leaves the outcome as it was.
* `SyncedRuleIsHonest` needs to know where AWS stands in the middle of every operation. `Honest`
  says four things besides `PlanInv`: unless the key is queued the worker's copy is the spec of
  the object (`CopyIsCurrent`, since whoever edits the object queues the key); a create has given
  the new rule all its fields and left only associations to make (`CreatePlan`); the calls left over
  of an update lead from AWS's fields to those of the copy, or the reconcile will end
  in `RequeueOnUpdate`, which puts the key back (`UpdateLeads`: this is where the endpoint and the
  domain, which no call sets, are accounted for); and the property itself.
* `SyncedEndpointIsHonest` is the same for `ResolverEndpoint`, with two differences: the fields that
  no request carries agree because the object is patched with the answer of the update, and the
  patch of the spec comes before that of the status, so that a lead of either must be
  tracked through both.
* `SyncedConfigIsTrue`: an update reports the status that the object had, not the one read.
  `StatusLeads` says of each place where a status is kept that once it says CREATED, AWS is
  past CREATING for good: a status once made stays made (`MadeStays`). Of an object being deleted it
  says nothing about `ACK.Terminal`, which a failed deletion takes back.
* `ConfigIsGivenUpWhenRefused`: an object deleted while a sync goes on is in the queue until the
  sync is over (`DeletionIsQueued`), so that a sync refused for good does not cost the deletion.

### Two controllers at once

* `OnlyRemovedByRight`: `SharedInv` of both controllers together says that what the rule's
  worker has to take away is not in the spec it works on, and that a deletion of the association's
  worker is one of an object being deleted. A step of one controller leaves the other's
  half alone.
* In both compositions the theorems about the association (`AssociationTypeCorrect`,
  `AssociationIsGuarded`, and what `SyncedAssociationIsTrue` says of ids) rest on `AssociationInv`. Its parts: each
  association has one id and no two the same (`Identified`); where the worker is says what its
  record holds (`Course`); what the worker found of the association that has its id is still so,
  or AWS is removing it (`AssociationFound`, in `RuleAssociationProofs` `Found`); and the two
  properties themselves. What the other controller, AWS and other parties may do is
  needed in one form only, `KeepsKnown`: a known id stays with its place, and from there the
  association moves as `StatusMoves` allows. `IdsStep` derives it from `TrackIds` once for all
  actions. Of a rule association a known id keeps its name as well.
* What `SyncedAssociationIsTrue` says of references is about two objects and AWS at different
  times. `ReferenceHolds` says that the resource found through a reference is still the
  referenced object's, as long as it exists, while the worker is busy with it and once it has reported
  success. For a rule that is `LedTo`: the id has been drawn, if its rule exists the object has
  it, and no create in progress can bring it, all of which the steps of both controllers
  preserve (`LedToStays`), also when the object is replaced by another of its name. For a
  configuration it takes `OldIdIsGone`: when the worker is about to put a new id into the status, the
  configuration of the old one is gone. Both rest on ids not being given twice (`used`).
* `RuleIsGuardedStill`, `BindingIsStableStill` and `OrphansBoundedStill` carry the theorems about the
  rule over to the composition, which is more than that `ResolverRule` allows: another object may
  be applied under the name of one that is gone while the reconcile of the old one goes on.
  `NotYetBound` is what makes that harmless: an object without the finalizer has no id, so
  that the reconcile left behind looks for a rule by none.
* `ConfigIsManagedStill`, `ConfigIsTrueStill`, `WantedTagsAreKeptStill`, `TagCallsAreEnoughStill` and
  `ConfigIsGivenUpWhenRefusedStill` do the same for the configuration: a step of
  the association's side is `Beside`, and changes neither the states nor the tags of a configuration.
* `AssociationIsGivenUpWhenRefused` follows like its counterpart for configurations.

### What stays with TLC

Every liveness property: there is no proof of ENABLED, and hence of fairness, for the prover at hand.
Every other property of a passing run is a theorem. `RefinesManaged`, `SyncedIsHonest` and
`AddBeforeRemove` of a rule are theorems about `ResolverRule` and do not carry over to `RuleAssociation`: the
two latter do not hold there, which is the sixth finding above, and an object applied again under
an old name is a new life that `ManagedResource` does not know.

## 5. Not modelled

* Adoption and read-only resources (`identifiers.go`, `resource.go`): field access on behalf
  of the runtime, by annotations that no module has. `LateInitialize` returns at once, as
  no kind has fields to initialise.
* `FilterSystemTags` and `ignoreSystemTags`: what the runtime leaves out of its patches of the
  CR's spec. The modules never write tags to a spec.
* `ACK.Recoverable` and all messages: nobody acts on them.
* Pages of a listing, as a model of a few elements has one: a rule's associations are read from
  the first page only, an endpoint's IP addresses from all of them (`E/hook.go:36`).
* The states FAILED, OVERRIDDEN and ACTION_NEEDED of rules, rule associations and endpoints, which only
  AWS can bring about and no code of these kinds looks at (the FAILED of a query log config
  association is modelled).
* References of rules and endpoints: the same generated code as the two that are modelled.
* Start-up, registration, generated types and deep copies, deployment files, tests: no state
  that changes while the controller runs.

## 6. Plan

1. Liveness by hand where it matters most: the measure by which each reconcile of a deletion
   gets further, as an action property over the calls left over, which can be proved where
   the liveness itself cannot.
2. The reference of a rule to its endpoint, with both modules composed.
3. Pages of associations, with a page size as a constant.
4. Adoption, as another way into the lifecycle.
