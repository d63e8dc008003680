--------------------------- MODULE QueryLogConfig ---------------------------
(***************************************************************************)
(* The life of one ResolverQueryLogConfig custom resource under the        *)
(* manager of src/pkg/resource/resolver_query_log_config: its name and     *)
(* destination never change, so that what is left to reconcile are tags.   *)
(*                                                                         *)
(* Three parties tag the configuration in AWS: the user, by the list in    *)
(* the spec; the controller, which adds keys of its own to what the user   *)
(* wants; and AWS, whose keys begin with "aws:" and which nobody else may  *)
(* change.  Others may tag it by hand.                                     *)
(*                                                                         *)
(* AWS makes a configuration in the background, and it may fail.  It       *)
(* refuses to delete one that is associated with a VPC; the manager holds  *)
(* such a refusal to be terminal, and the runtime then leaves the object   *)
(* alone until its spec changes or the controller restarts.                *)
(*                                                                         *)
(* Operators named Mistake... are variants of the definition that follows  *)
(* each, with a maintainer's error.                                        *)
(***************************************************************************)
EXTENDS Naturals, Sequences

CONSTANTS
  ConfigIds,      \* ids AWS gives to configurations
  NoId,           \* Status.ID is nil
  UserKeys, ControllerKeys, AwsKeys,   \* tag keys, by who sets them unasked
  NoKey,          \* a tag of the spec without a key
  Values, EmptyValue, ControllerValue, \* values of tags
  NoValue,        \* a tag of the spec without a value
  Absent,         \* no tag with this key
  TagLists,       \* the tag lists users write
  MaxFaults,      \* bound: failed calls and restarts in a behaviour
  MaxEdits,       \* bound: edits by the user, and of AWS by others
  MaxDrift        \* bound: what is removed in AWS by others

Keys == UserKeys \cup ControllerKeys \cup AwsKeys

ASSUME KeysAssumption ==
  /\ UserKeys \cap ControllerKeys = {} /\ UserKeys \cap AwsKeys = {}
  /\ ControllerKeys \cap AwsKeys = {} /\ NoKey \notin Keys
  /\ {EmptyValue, ControllerValue} \subseteq Values
  /\ NoValue \notin Values /\ Absent \notin Values

\* Users may give the controller's tags other values, and leave AWS's alone.
ASSUME TagListsAssumption ==
  TagLists \subseteq Seq([key : UserKeys \cup ControllerKeys \cup {NoKey},
                         value : Values \cup {NoValue}])

ASSUME ConfigIdsAssumption == NoId \notin ConfigIds

ASSUME ConfigBoundsAssumption ==
  MaxFaults \in Nat /\ MaxEdits \in Nat /\ MaxDrift \in Nat

VARIABLES
  cr,       \* the ResolverQueryLogConfig object in the Kubernetes API
  queued,   \* when the work queue hands its key out again
  ctl,      \* the reconcile in progress, lost by a restart
  work,     \* the tag calls it has still to make
  configs,  \* the configurations in AWS, a function on their ids
  used,     \* the ids that AWS has given
  faults, edits, drift   \* how much of each bound is spent

vars == <<cr, queued, ctl, work, configs, used, faults, edits, drift>>
-----------------------------------------------------------------------------
(* Data *)

\* The tags of a configuration, by key.
TagMaps == [Keys -> Values \cup {Absent}]

NoTags == [k \in Keys |-> Absent]

Present(tags) == {k \in Keys : tags[k] # Absent}

ConfigStatus == {"CREATING", "CREATED", "FAILED", "DELETING"}

AssociationStatus == {"NONE", "CREATING", "ACTIVE", "FAILED", "DELETING"}

\* A configuration, and its association with the one VPC there is.
QueryLogConfigs ==
  [status : ConfigStatus, tags : TagMaps, assoc : AssociationStatus]

Work == [tag : TagMaps, untag : SUBSET Keys]

NoWork == [tag |-> NoTags, untag |-> {}]

\* Metadata, the spec's tags and whether AWS can take its destination, the
\* status and two of the conditions.
Objects ==
  [phase : {"live", "deleting", "gone"}, finalizer : BOOLEAN,
   tags : TagLists, valid : BOOLEAN,
   id : ConfigIds \cup {NoId}, status : ConfigStatus \cup {"nil"},
   synced : BOOLEAN, terminal : BOOLEAN]

\* A reconcile: the next call, the tags the desired resource has, the id and
\* the status of the latest one.
Reconciles ==
  [pc : {"idle", "find", "tags", "manage", "create", "work", "delete", "patch",
         "unmanage"},
   mode : {"sync", "delete"}, tags : TagMaps,
   id : ConfigIds \cup {NoId}, status : ConfigStatus \cup {"nil"}]

Idle == [pc |-> "idle", mode |-> "sync", tags |-> NoTags, id |-> NoId,
         status |-> "nil"]

\* The key waits, is to wait after a delay, or is forgotten.
QueueStates == {"now", "later", "never"}

Live == DOMAIN configs

Exists == cr.phase # "gone"

\* AWS gives an id once.  Which one it is makes no difference.
FreshConfigs ==
  {i \in ConfigIds \ used : i = CHOOSE j \in ConfigIds \ used : TRUE}

\* Besides the types: an id that is known to anybody has been given by AWS.
TypeOK ==
  /\ cr \in Objects
  /\ queued \in QueueStates
  /\ ctl \in Reconciles
  /\ work \in Work
  /\ used \subseteq ConfigIds /\ Live \subseteq used
  /\ {cr.id, ctl.id} \subseteq used \cup {NoId}
  /\ configs \in [Live -> QueryLogConfigs]
  /\ faults \in 0..MaxFaults /\ edits \in 0..MaxEdits /\ drift \in 0..MaxDrift

\* The user has just applied the resource.  A behaviour may have less than the
\* bounds to spend.
Init ==
  /\ cr \in [phase : {"live"}, finalizer : {FALSE}, tags : TagLists,
             valid : BOOLEAN, id : {NoId}, status : {"nil"},
             synced : {FALSE}, terminal : {FALSE}]
  /\ queued = "now"
  /\ ctl = Idle
  /\ work = NoWork
  /\ configs = [c \in {} |-> NoTags]
  /\ used = {}
  /\ faults \in 0..MaxFaults /\ edits \in 0..MaxEdits /\ drift \in 0..MaxDrift
-----------------------------------------------------------------------------
(* The user, AWS and others *)

EditTags ==
  /\ cr.phase = "live" /\ edits < MaxEdits
  /\ \E list \in TagLists \ {cr.tags} : cr' = [cr EXCEPT !.tags = list]
  /\ queued' = "now"
  /\ edits' = edits + 1
  /\ UNCHANGED <<ctl, work, configs, used, faults, drift>>

DeleteResource ==
  /\ cr.phase = "live"
  /\ cr' = [cr EXCEPT !.phase = IF cr.finalizer THEN "deleting" ELSE "gone"]
  /\ queued' = "now"
  /\ UNCHANGED <<ctl, work, configs, used, faults, edits, drift>>

Without(c) == [d \in Live \ {c} |-> configs[d]]

ConfigSettles(c) ==
  /\ \/ /\ configs[c].status = "CREATING"
        /\ \E s \in {"CREATED", "FAILED"} :
             configs' = [configs EXCEPT ![c].status = s]
     \/ configs[c].status = "DELETING" /\ configs' = Without(c)
  /\ UNCHANGED <<cr, queued, ctl, work, used, faults, edits, drift>>

AssociationSettles(c) ==
  /\ \/ /\ configs[c].assoc = "CREATING"
        /\ \E s \in {"ACTIVE", "FAILED"} :
             configs' = [configs EXCEPT ![c].assoc = s]
     \/ /\ configs[c].assoc = "DELETING"
        /\ configs' = [configs EXCEPT ![c].assoc = "NONE"]
  /\ UNCHANGED <<cr, queued, ctl, work, used, faults, edits, drift>>

\* AWS tags with its keys, or someone by hand with any other.
TaggedByOthers(c) ==
  /\ edits < MaxEdits
  /\ \E k \in Keys, v \in Values \cup {Absent} :
       configs' = [configs EXCEPT ![c].tags[k] = v]
  /\ edits' = edits + 1
  /\ UNCHANGED <<cr, queued, ctl, work, used, faults, drift>>

AssociatedByOthers(c) ==
  /\ edits < MaxEdits
  /\ configs[c].assoc = "NONE" /\ configs[c].status = "CREATED"
  /\ configs' = [configs EXCEPT ![c].assoc = "ACTIVE"]
  /\ edits' = edits + 1
  /\ UNCHANGED <<cr, queued, ctl, work, used, faults, drift>>

DeletedByOthers(c) ==
  /\ drift < MaxDrift
  /\ configs[c].assoc = "NONE" /\ configs[c].status # "DELETING"
  /\ configs' = [configs EXCEPT ![c].status = "DELETING"]
  /\ drift' = drift + 1
  /\ UNCHANGED <<cr, queued, ctl, work, used, faults, edits>>
-----------------------------------------------------------------------------
(* What the manager computes with tags *)

\* convertToOrderedACKTags: a tag without a key is dropped, one without a value
\* has the empty one, and of several with one key the last counts.
convertToOrderedACKTags(list) ==
  [k \in Keys |->
    LET at == {i \in DOMAIN list : list[i].key = k} IN
    IF at = {} THEN Absent
    ELSE LET last == CHOOSE i \in at : \A j \in at : j <= i IN
         IF list[last].value = NoValue THEN EmptyValue ELSE list[last].value]

\* EnsureTags: the controller's tags, where the user has none of that key.
EnsureTags(tags) ==
  [k \in Keys |-> IF k \in ControllerKeys /\ tags[k] = Absent
                  THEN ControllerValue ELSE tags[k]]

MistakeAWSTagsNotMirrored(desired, latest) == desired

\* mirrorAWSTags: what AWS has set is desired as it is.
mirrorAWSTags(desired, latest) ==
  [k \in Keys |-> IF k \in AwsKeys \cap Present(latest)
                  THEN latest[k] ELSE desired[k]]

MistakeKeysCompared(desired, latest) == Present(desired) # Present(latest)

\* newResourceDelta, of the one field that can differ.
newResourceDelta(desired, latest) == desired # latest

MistakeRemovedNotReduced(desired, latest) ==
  [tag   |-> [k \in Keys |-> IF desired[k] # latest[k] THEN desired[k] ELSE Absent],
   untag |-> {k \in Present(latest) : desired[k] # latest[k]}]

MistakeChangedForgotten(desired, latest) ==
  [tag   |-> [k \in Keys |-> IF latest[k] = Absent THEN desired[k] ELSE Absent],
   untag |-> Present(latest) \ Present(desired)]

\* SyncTags: a tag that is new or has another value is sent; one that is not
\* desired is removed, but none that was sent.
SyncTags(desired, latest) ==
  LET added   == {k \in Present(desired) : desired[k] # latest[k]}
      removed == {k \in Present(latest) : desired[k] # latest[k]}
  IN [tag   |-> [k \in Keys |-> IF k \in added THEN desired[k] ELSE Absent],
      untag |-> removed \ added]

MistakeCreatingIsSynced(status) == status \in {"CREATING", "CREATED"}

IsSynced(status) == status = "CREATED"
-----------------------------------------------------------------------------
(* How a reconcile ends *)

\* The runtime patches the conditions, or fails at that.  A deletion leaves
\* them as they are, but sdkDelete's own error takes the terminal one back.  The
\* key goes back to the queue.
ReconcileError ==
  /\ \/ cr' = cr
     \/ /\ Exists /\ ctl.mode = "sync"
        /\ cr' = [cr EXCEPT !.synced = FALSE, !.terminal = FALSE]
     \/ /\ Exists /\ ctl.pc = "delete"
        /\ cr' = [cr EXCEPT !.terminal = FALSE]
  /\ ctl' = Idle
  /\ work' = NoWork
  /\ queued' = "now"

\* onError made the error terminal.  The runtime patches the conditions without
\* looking whether that succeeds, and does not queue the key again.
ReconcileTerminal ==
  /\ \/ cr' = cr
     \/ /\ Exists
        /\ cr' = [cr EXCEPT !.terminal = TRUE,
                            !.synced = ctl.mode = "sync" \/ @]
  /\ ctl' = Idle
  /\ work' = NoWork
  /\ UNCHANGED queued

ReconcileLost ==
  /\ ctl' = Idle
  /\ work' = NoWork
  /\ queued' = "now"
  /\ UNCHANGED cr
-----------------------------------------------------------------------------
(* The reconcile *)

StartReconcile ==
  /\ ctl.pc = "idle" /\ queued = "now"
  /\ queued' = "never"
  /\ ctl' = CASE cr.phase = "gone" -> Idle
              [] cr.phase = "live" ->
                   [Idle EXCEPT !.pc = "find", !.id = cr.id,
                      !.tags = EnsureTags(convertToOrderedACKTags(cr.tags))]
              [] cr.phase = "deleting" ->
                   [Idle EXCEPT !.pc = "find", !.mode = "delete", !.id = cr.id]
  /\ UNCHANGED <<cr, work, configs, used, faults, edits, drift>>

Resync ==
  /\ ctl.pc = "idle" /\ queued = "later"
  /\ queued' = "now"
  /\ UNCHANGED <<cr, ctl, work, configs, used, faults, edits, drift>>

MistakeNotFoundIsAnError ==
  /\ ctl.pc = "find" /\ ctl.id \notin Live
  /\ IF ctl.mode = "sync"
     THEN ctl' = [ctl EXCEPT !.pc = "manage"] /\ UNCHANGED <<cr, queued, work>>
     ELSE ReconcileError
  /\ UNCHANGED <<configs, used, faults, edits, drift>>

\* sdkFind: no id yet, or ResourceNotFoundException.
FindNothing ==
  /\ ctl.pc = "find" /\ ctl.id \notin Live
  /\ ctl' = [ctl EXCEPT !.pc = IF ctl.mode = "delete"
                               THEN "unmanage" ELSE "manage"]
  /\ UNCHANGED <<cr, queued, work, configs, used, faults, edits, drift>>

GetResolverQueryLogConfig ==
  /\ ctl.pc = "find" /\ ctl.id \in Live
  /\ ctl' = [ctl EXCEPT !.pc = "tags", !.status = configs[ctl.id].status]
  /\ UNCHANGED <<cr, queued, work, configs, used, faults, edits, drift>>

\* getTags, a call of its own, and what follows on the whole of what was read.
\* customUpdateResolverQueryLogConfig returns the desired resource, with the
\* status that the object had, not the one just read.
getTags ==
  /\ ctl.pc = "tags" /\ ctl.id \in Live
  /\ LET latest  == configs[ctl.id].tags
         desired == mirrorAWSTags(ctl.tags, latest)
     IN \/ /\ ctl.mode = "sync" /\ newResourceDelta(desired, latest)
           /\ ctl' = [ctl EXCEPT !.pc = "work", !.tags = desired,
                                 !.status = cr.status]
           /\ work' = SyncTags(desired, latest)
        \/ /\ ctl.mode = "sync" /\ ~newResourceDelta(desired, latest)
           /\ ctl' = [ctl EXCEPT !.pc = "patch", !.tags = desired]
           /\ UNCHANGED work
        \/ /\ ctl.mode = "delete"
           /\ ctl' = [ctl EXCEPT !.pc = "delete"]
           /\ UNCHANGED work
  /\ UNCHANGED <<cr, queued, configs, used, faults, edits, drift>>

MistakePatchErrorDropped ==
  /\ ctl.pc = "manage"
  /\ cr' = IF Exists THEN [cr EXCEPT !.finalizer = TRUE] ELSE cr
  /\ ctl' = [ctl EXCEPT !.pc = "create"]
  /\ UNCHANGED <<queued, work, configs, used, faults, edits, drift>>

MarkManaged ==
  /\ ctl.pc = "manage"
  /\ \/ /\ Exists
        /\ cr' = [cr EXCEPT !.finalizer = TRUE]
        /\ ctl' = [ctl EXCEPT !.pc = "create"]
        /\ UNCHANGED <<queued, work>>
     \/ ~Exists /\ ReconcileError
  /\ UNCHANGED <<configs, used, faults, edits, drift>>

Creates(i) ==
  /\ ctl.pc = "create" /\ cr.valid
  /\ configs' = [c \in Live \cup {i} |->
       IF c \in Live THEN configs[c]
       ELSE [status |-> "CREATING", tags |-> ctl.tags, assoc |-> "NONE"]]
  /\ used' = used \cup {i}

CreateResolverQueryLogConfig ==
  /\ \E i \in FreshConfigs :
       Creates(i) /\ ctl' = [ctl EXCEPT !.pc = "patch", !.id = i,
                                       !.status = "CREATING"]
  /\ UNCHANGED <<cr, queued, work, faults, edits, drift>>

\* The answer does not arrive, nor do those to the client's retries, which AWS
\* knows for the same request by the token that the client added.
CreateLost ==
  /\ faults < MaxFaults
  /\ \E i \in FreshConfigs : Creates(i)
  /\ ReconcileError
  /\ faults' = faults + 1
  /\ UNCHANGED <<edits, drift>>

TagResource ==
  /\ ctl.pc = "work" /\ work.tag # NoTags /\ ctl.id \in Live
  /\ configs' = [configs EXCEPT ![ctl.id].tags =
                   [k \in Keys |-> IF k \in Present(work.tag)
                                   THEN work.tag[k] ELSE @[k]]]
  /\ work' = [work EXCEPT !.tag = NoTags]
  /\ UNCHANGED <<cr, queued, ctl, used, faults, edits, drift>>

UntagResource ==
  /\ ctl.pc = "work" /\ work.tag = NoTags /\ work.untag # {}
  /\ ctl.id \in Live
  /\ configs' = [configs EXCEPT ![ctl.id].tags =
                   [k \in Keys |-> IF k \in work.untag THEN Absent ELSE @[k]]]
  /\ work' = [work EXCEPT !.untag = {}]
  /\ UNCHANGED <<cr, queued, ctl, used, faults, edits, drift>>

\* AWS begins to delete the configuration, and the object need not wait for it.
DeleteResolverQueryLogConfig ==
  /\ ctl.pc = "delete" /\ ctl.id \in Live /\ configs[ctl.id].assoc = "NONE"
  /\ configs' = [configs EXCEPT ![ctl.id].status = "DELETING"]
  /\ ctl' = [ctl EXCEPT !.pc = "unmanage"]
  /\ UNCHANGED <<cr, queued, work, used, faults, edits, drift>>

\* terminalAWSError: InvalidParameterException for a destination AWS cannot use,
\* InvalidRequestException for a configuration that is associated or is being
\* deleted already.
DeleteRefusable ==
  /\ ctl.pc = "delete" /\ ctl.id \in Live
  /\ configs[ctl.id].assoc # "NONE" \/ configs[ctl.id].status = "DELETING"

TerminallyRefused ==
  /\ (ctl.pc = "create" /\ ~cr.valid) \/ DeleteRefusable
  /\ ReconcileTerminal
  /\ UNCHANGED <<configs, used, faults, edits, drift>>

MistakeGoneConfigIsTerminal ==
  /\ ctl.id \notin Live
  /\ ctl.pc \in {"tags", "delete"} \/ (ctl.pc = "work" /\ work # NoWork)
  /\ ReconcileTerminal
  /\ UNCHANGED <<configs, used, faults, edits, drift>>

\* The configuration is gone since it was found.
CallRefused ==
  /\ ctl.id \notin Live
  /\ ctl.pc \in {"tags", "delete"} \/ (ctl.pc = "work" /\ work # NoWork)
  /\ ReconcileError
  /\ UNCHANGED <<configs, used, faults, edits, drift>>

CallFails ==
  /\ ctl.pc # "idle" /\ faults < MaxFaults
  /\ faults' = faults + 1
  /\ ReconcileError
  /\ UNCHANGED <<configs, used, edits, drift>>

\* A resource that is not synced comes round after a delay, one that is after
\* the resync period.
PatchStatus ==
  /\ ctl.pc = "patch" \/ (ctl.pc = "work" /\ work = NoWork)
  /\ cr' = IF Exists
           THEN [cr EXCEPT !.id = ctl.id, !.status = ctl.status,
                           !.synced = IsSynced(ctl.status), !.terminal = FALSE]
           ELSE cr
  /\ queued' = IF queued = "now" THEN "now" ELSE "later"
  /\ ctl' = Idle
  /\ UNCHANGED <<work, configs, used, faults, edits, drift>>

MarkUnmanaged ==
  /\ ctl.pc = "unmanage"
  /\ cr' = [cr EXCEPT !.finalizer = FALSE, !.phase = "gone"]
  /\ ctl' = Idle
  /\ UNCHANGED <<queued, work, configs, used, faults, edits, drift>>

Restart ==
  /\ faults < MaxFaults
  /\ faults' = faults + 1
  /\ ReconcileLost
  /\ UNCHANGED <<configs, used, edits, drift>>
-----------------------------------------------------------------------------
User == EditTags \/ DeleteResource

Aws == \E c \in Live : ConfigSettles(c) \/ AssociationSettles(c)

Others ==
  \E c \in Live : \/ TaggedByOthers(c) \/ AssociatedByOthers(c)
                  \/ DeletedByOthers(c)

Controller ==
  \/ StartReconcile \/ FindNothing \/ GetResolverQueryLogConfig \/ getTags
  \/ MarkManaged \/ CreateResolverQueryLogConfig \/ CreateLost
  \/ TagResource \/ UntagResource \/ DeleteResolverQueryLogConfig
  \/ TerminallyRefused \/ CallRefused \/ CallFails
  \/ PatchStatus \/ MarkUnmanaged

\* Nothing is left to do for an object that is gone or given up.
Finished ==
  /\ ctl.pc = "idle" /\ queued = "never"
  /\ UNCHANGED vars

Next == User \/ Aws \/ Others \/ Controller \/ Resync \/ Restart \/ Finished

Spec == Init /\ [][Next]_vars

\* As for the other kinds: the worker goes on, AWS finishes what it began and
\* delays end.
FairSpec ==
  Spec /\ WF_vars(Controller) /\ WF_vars(Aws) /\ WF_vars(Resync)
-----------------------------------------------------------------------------
(* Properties *)

\* The controller never asks AWS to set or to remove a tag of AWS's own, which
\* it would refuse for ever (mirrorAWSTags before each comparison).
SystemTagsUntouched == AwsKeys \cap (Present(work.tag) \cup work.untag) = {}

\* While tags change by a reconcile none that is wanted goes missing, not even
\* one whose value changes: between TagResource and UntagResource, and when the
\* reconcile stops there (the keys SyncTags takes out of "removed").
WantedTagsStay ==
  [][\A c \in Live, k \in Keys :
       /\ c \in DOMAIN configs' /\ edits' = edits
       /\ configs[c].tags[k] # Absent /\ configs'[c].tags[k] = Absent
       => c = ctl.id /\ ctl.tags[k] = Absent]_vars

\* The tags of a configuration that has these, once the calls left over have been
\* answered.
TagsToCome(tags) ==
  [k \in Keys |-> IF k \in work.untag THEN Absent
                  ELSE IF k \in Present(work.tag) THEN work.tag[k] ELSE tags[k]]

TagsInSight ==
  ctl.pc = "work" /\ ctl.id \in Live =>
    TagsToCome(configs[ctl.id].tags) = ctl.tags

\* What an update has done and what it has left to do make the wanted tags, no
\* more and no fewer, from its plan on and after each of its calls, unless
\* somebody else changes a tag meanwhile (SyncTags, and mirrorAWSTags, whose
\* result is both compared and aimed at).
TagCallsLead == [][TagsInSight /\ edits' = edits => TagsInSight']_vars

\* A resource reported as synced, with no event pending, has been created, or
\* somebody else deletes it (IsSynced, which an update asks about a status that
\* was read by an earlier reconcile).
SyncedConfigIsHonest ==
  cr.phase = "live" /\ cr.synced /\ ~cr.terminal /\ queued # "now"
  /\ ctl.pc = "idle" /\ cr.id \in Live
  => configs[cr.id].status \in {"CREATED", "DELETING"}

\* The id of a configuration that the create in progress has brought, not yet
\* in the object's status.
PendingId == IF ctl.pc = "patch" /\ ctl.id # cr.id THEN ctl.id ELSE NoId

Managed ==
  INSTANCE ManagedResource WITH
    Ids <- ConfigIds, phase <- cr.phase, finalizer <- cr.finalizer,
    bound <- cr.id, pending <- PendingId, drift <- drift,
    existing <- {c \in Live : configs[c].status # "DELETING"}

\* A configuration is made only under the finalizer and while the object has
\* none, is deleted only with the object, and the object goes only when AWS has
\* agreed to delete what it knows of: also when the create's answer is lost, a
\* deletion is refused, or the object goes while its create is under way.
RefinesManaged == Managed!Spec

\* The tags a user asks for, and the controller's, are in the end those of the
\* configuration, and no others but AWS's, whatever was changed by hand.
TagsConverge ==
  <>[](cr.phase = "live" /\ cr.valid =>
         /\ cr.id \in Live
         /\ LET tags == configs[cr.id].tags IN
            mirrorAWSTags(EnsureTags(convertToOrderedACKTags(cr.tags)), tags) = tags)

\* An object with nothing left that would make the controller look at it.
GivenUp == cr.phase = "deleting" /\ ctl.pc = "idle" /\ queued = "never"

\* It becomes one only in the step in which AWS refuses the deletion for the sake
\* of an association or of another deletion: never because the configuration is
\* gone, a call failed, or an update of the object was under way when its user
\* deleted it (the codes of terminalAWSError, the queue of the runtime).
GivenUpWhenRefused == [][~GivenUp /\ GivenUp' => DeleteRefusable]_vars

\* A deletion ends, unless the controller gives the object up.
ConfigDeletionEnds == cr.phase = "deleting" ~> ~Exists \/ GivenUp
=============================================================================
