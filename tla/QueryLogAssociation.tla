------------------------- MODULE QueryLogAssociation -------------------------
(***************************************************************************)
(* A ResolverQueryLogConfigAssociation object beside the                   *)
(* ResolverQueryLogConfig object it refers to: every step of the latter's  *)
(* controller, in QueryLogConfig, is a step of this module, and here are   *)
(* those of src/pkg/resource/resolver_query_log_config_association.        *)
(*                                                                         *)
(* The manager reads an association by its id and removes it by the        *)
(* configuration and the VPC.  Unlike that of rule associations it holds   *)
(* some of AWS's errors to be terminal, and an association may fail.       *)
(*                                                                         *)
(* Operators named Mistake... are variants of the definition that follows  *)
(* each, with a maintainer's error.                                        *)
(***************************************************************************)
EXTENDS QueryLogConfig

CONSTANTS
  AssocIds,          \* ids AWS gives to associations
  Vpc, NoVpc,        \* the VPC there is, and a ResourceID that is nil
  AssociationSpecs,  \* the specs users write
  MaxAssociationEdits   \* bound: edits of the object, and removals by others

FullAssociationSpecs ==
  [configRef : BOOLEAN, configId : ConfigIds \cup {NoId},
   vpcRef : BOOLEAN, vpcId : {Vpc, NoVpc}]

ASSUME QueryLogAssociationAssumption ==
  /\ NoId \notin AssocIds /\ Vpc # NoVpc /\ MaxAssociationEdits \in Nat
  /\ AssociationSpecs \subseteq FullAssociationSpecs

VARIABLES
  acr,       \* the ResolverQueryLogConfigAssociation object
  aqueued,   \* when its key is handed out again
  actl,      \* the reconcile of it in progress
  assocId,   \* the ids of the associations in AWS, by configuration
  vpcReady,  \* the VPC object is synced and has an id
  aedits     \* how much of MaxAssociationEdits is spent

configVars == <<cr, queued, ctl, work, configs, used, faults, edits, drift>>
avars == <<acr, aqueued, actl, assocId, vpcReady, aedits>>
allVars == <<configVars, avars>>
-----------------------------------------------------------------------------
(* Data *)

AssociationObjects ==
  [phase : {"live", "deleting", "gone"}, finalizer : BOOLEAN,
   id : AssocIds \cup {NoId}, spec : AssociationSpecs,
   synced : BOOLEAN, terminal : BOOLEAN]

\* A reconcile: the next call, the spec it began with, the configuration and
\* the VPC it is about, the id of their association and how it will end.
AssociationReconciles ==
  [pc : {"idle", "resolve", "find", "manage", "create", "delete", "patch",
         "unmanage"},
   mode : {"sync", "delete"}, spec : AssociationSpecs,
   config : ConfigIds \cup {NoId}, vpc : {Vpc, NoVpc},
   id : AssocIds \cup {NoId}, end : {"synced", "unsynced"}]

AnyAssociationSpec == CHOOSE s \in AssociationSpecs : TRUE

AIdle == [pc |-> "idle", mode |-> "sync", spec |-> AnyAssociationSpec,
          config |-> NoId, vpc |-> NoVpc, id |-> NoId, end |-> "unsynced"]

\* The object is no more; its id is kept for the sake of the properties.
AGone == [phase |-> "gone", finalizer |-> FALSE, id |-> acr.id,
          spec |-> AnyAssociationSpec, synced |-> FALSE, terminal |-> FALSE]

AExists == acr.phase # "gone"

StatusOf(c) == IF c \in Live THEN configs[c].assoc ELSE "NONE"

LiveAssociations == {assocId[c] : c \in ConfigIds} \ {NoId}

ConfigOf(i) == CHOOSE c \in ConfigIds : assocId[c] = i

\* AWS does not run out of ids: for one more association there is one that none
\* has and that neither of two more places remembers.
ASSUME FreshAssociationAssumption ==
  \A ids \in [ConfigIds -> AssocIds \cup {NoId}],
     i, j \in AssocIds \cup {NoId} :
    (\E c \in ConfigIds : ids[c] = NoId) =>
      \E k \in AssocIds \ {i, j} : \A c \in ConfigIds : ids[c] # k

FreshAssociation ==
  CHOOSE i \in AssocIds : i \notin LiveAssociations \cup {acr.id, actl.id}

\* What a step does to the ids, given what it does to the associations.
TrackIds ==
  assocId' = [c \in ConfigIds |->
    CASE c \notin DOMAIN configs' -> NoId
      [] c \in DOMAIN configs' /\ configs'[c].assoc = "NONE" -> NoId
      [] OTHER -> IF assocId[c] # NoId THEN assocId[c] ELSE FreshAssociation]

\* The users have just applied the configuration, and the association or none.
AInit ==
  /\ Init
  /\ acr \in [phase : {"live", "gone"}, finalizer : {FALSE}, id : {NoId},
              spec : {s \in AssociationSpecs : s.configId = NoId},
              synced : {FALSE}, terminal : {FALSE}]
  /\ aqueued = IF AExists THEN "now" ELSE "never"
  /\ actl = AIdle
  /\ assocId = [c \in ConfigIds |-> NoId]
  /\ vpcReady \in BOOLEAN
  /\ aedits \in 0..MaxAssociationEdits
-----------------------------------------------------------------------------
(* The users, others and the controller of the VPC *)

\* Each id field may be set or removed, but not changed.
Admissible(old, new) ==
  /\ old.configId = new.configId \/ NoId \in {old.configId, new.configId}
  /\ old.vpcId = new.vpcId \/ NoVpc \in {old.vpcId, new.vpcId}

EditAssociation ==
  /\ acr.phase = "live" /\ aedits < MaxAssociationEdits
  /\ \E s \in AssociationSpecs \ {acr.spec} :
       /\ Admissible(acr.spec, s) /\ s.configId \in Live \cup {NoId}
       /\ acr' = [acr EXCEPT !.spec = s]
  /\ aqueued' = "now"
  /\ aedits' = aedits + 1
  /\ UNCHANGED <<configVars, actl, assocId, vpcReady>>

DeleteAssociation ==
  /\ acr.phase = "live"
  /\ acr' = IF acr.finalizer THEN [acr EXCEPT !.phase = "deleting"] ELSE AGone
  /\ aqueued' = "now"
  /\ UNCHANGED <<configVars, actl, assocId, vpcReady, aedits>>

DisassociatedByOthers(c) ==
  /\ aedits < MaxAssociationEdits
  /\ configs[c].assoc \in {"CREATING", "ACTIVE", "FAILED"}
  /\ configs' = [configs EXCEPT ![c].assoc = "DELETING"]
  /\ TrackIds
  /\ aedits' = aedits + 1
  /\ UNCHANGED <<cr, queued, ctl, work, used, faults, edits, drift,
                 acr, aqueued, actl, vpcReady>>

VpcSettles ==
  /\ ~vpcReady
  /\ vpcReady' = TRUE
  /\ UNCHANGED <<configVars, acr, aqueued, actl, assocId, aedits>>
-----------------------------------------------------------------------------
(* References *)

\* validateReferenceFields: each field by reference or by id, not both.
validateReferenceFields(s) ==
  s.configRef = (s.configId = NoId) /\ s.vpcRef = (s.vpcId = NoVpc)

MistakeUnsyncedConfigTaken == Exists

\* getReferencedResourceState_ResolverQueryLogConfig: the object is there, is
\* not terminal, is synced and has an id.
ReferencedConfigReady == Exists /\ ~cr.terminal /\ cr.synced /\ cr.id # NoId

Resolvable(s) ==
  /\ validateReferenceFields(s)
  /\ s.configRef => ReferencedConfigReady
  /\ s.vpcRef => vpcReady
-----------------------------------------------------------------------------
(* How a reconcile ends *)

PatchedConditions(synced, terminal) ==
  AExists /\ acr' = [acr EXCEPT !.synced = synced, !.terminal = terminal]

\* A deletion that fails leaves both conditions as they are, but sdkDelete's own
\* error takes the terminal one back.
AError ==
  /\ \/ acr' = acr
     \/ actl.mode = "sync" /\ PatchedConditions(FALSE, FALSE)
     \/ actl.pc = "delete" /\ PatchedConditions(acr.synced, FALSE)
  /\ actl' = AIdle
  /\ aqueued' = "now"

\* A terminal error is written down, if that succeeds, and not tried again.
ATerminal ==
  /\ \/ acr' = acr
     \/ PatchedConditions(actl.mode = "sync" \/ acr.synced, TRUE)
  /\ actl' = AIdle
  /\ UNCHANGED aqueued
-----------------------------------------------------------------------------
(* The reconcile *)

AStart ==
  /\ actl.pc = "idle" /\ aqueued = "now"
  /\ aqueued' = "never"
  /\ actl' = CASE acr.phase = "gone" -> AIdle
               [] acr.phase = "live" ->
                    [AIdle EXCEPT !.pc = "resolve", !.spec = acr.spec, !.id = acr.id]
               [] acr.phase = "deleting" ->
                    [AIdle EXCEPT !.pc = "find", !.mode = "delete",
                                  !.spec = acr.spec, !.id = acr.id]
  /\ UNCHANGED <<configVars, acr, assocId, vpcReady, aedits>>

AResync ==
  /\ actl.pc = "idle" /\ aqueued = "later"
  /\ aqueued' = "now"
  /\ UNCHANGED <<configVars, acr, actl, assocId, vpcReady, aedits>>

ResolveReferences ==
  /\ actl.pc = "resolve"
  /\ \/ /\ Resolvable(actl.spec)
        /\ actl' = [actl EXCEPT
             !.pc = "find",
             !.config = IF actl.spec.configRef THEN cr.id ELSE actl.spec.configId,
             !.vpc = Vpc]
        /\ UNCHANGED <<acr, aqueued>>
     \/ ~Resolvable(actl.spec) /\ AError
  /\ UNCHANGED <<configVars, assocId, vpcReady, aedits>>

MistakeMissingIsAnError ==
  /\ actl.pc = "find" /\ actl.id \notin LiveAssociations
  /\ IF actl.mode = "sync"
     THEN actl' = [actl EXCEPT !.pc = "manage"] /\ UNCHANGED <<acr, aqueued>>
     ELSE AError
  /\ UNCHANGED <<configVars, assocId, vpcReady, aedits>>

\* sdkFind: Status.ID is nil, or AWS answers ResourceNotFoundException.
FindNoAssociation ==
  /\ actl.pc = "find" /\ actl.id \notin LiveAssociations
  /\ actl' = [actl EXCEPT !.pc = IF actl.mode = "delete"
                                 THEN "unmanage" ELSE "manage"]
  /\ UNCHANGED <<configVars, acr, aqueued, assocId, vpcReady, aedits>>

\* newResourceDelta, of the resolved configuration; there is one VPC.
AssociationDiffers(c) == actl.config # c

MistakeFailedIsSynced(status) == status \in {"ACTIVE", "FAILED"}

\* IsSynced, of the status that was read.
AssociationIsSynced(status) == status = "ACTIVE"

\* sdkFind finds it: a sync compares, and sdkUpdate can change nothing and
\* returns a terminal error; a deletion goes on with what was read.
FindAssociation ==
  /\ actl.pc = "find" /\ actl.id \in LiveAssociations
  /\ LET c == ConfigOf(actl.id) IN
     \/ actl.mode = "sync" /\ AssociationDiffers(c) /\ ATerminal
     \/ /\ actl.mode = "sync" /\ ~AssociationDiffers(c)
        /\ actl' = [actl EXCEPT !.pc = "patch",
                                !.end = IF AssociationIsSynced(StatusOf(c))
                                        THEN "synced" ELSE "unsynced"]
        /\ UNCHANGED <<acr, aqueued>>
     \/ /\ actl.mode = "delete"
        /\ actl' = [actl EXCEPT !.pc = "delete", !.config = c, !.vpc = Vpc]
        /\ UNCHANGED <<acr, aqueued>>
  /\ UNCHANGED <<configVars, assocId, vpcReady, aedits>>

ManageAssociation ==
  /\ actl.pc = "manage"
  /\ \/ /\ AExists
        /\ acr' = [acr EXCEPT !.finalizer = TRUE]
        /\ actl' = [actl EXCEPT !.pc = "create"]
        /\ UNCHANGED aqueued
     \/ ~AExists /\ AError
  /\ UNCHANGED <<configVars, assocId, vpcReady, aedits>>

\* Whether AWS takes an association of a configuration that is not created is
\* its own affair.
Associates ==
  /\ actl.pc = "create" /\ actl.config \in Live /\ StatusOf(actl.config) = "NONE"
  /\ configs' = [configs EXCEPT ![actl.config].assoc = "CREATING"]
  /\ TrackIds

\* sdkCreate: the answer brings the id, and CREATING.
CreateAssociation ==
  /\ Associates
  /\ actl' = [actl EXCEPT !.pc = "patch", !.id = FreshAssociation]
  /\ UNCHANGED <<cr, queued, ctl, work, used, faults, edits, drift,
                 acr, aqueued, vpcReady, aedits>>

CreateAssociationLost ==
  /\ faults < MaxFaults
  /\ Associates
  /\ AError
  /\ faults' = faults + 1
  /\ UNCHANGED <<cr, queued, ctl, work, used, edits, drift, vpcReady, aedits>>

MistakeErrorIsGone ==
  /\ actl.pc = "delete"
  /\ configs' = IF StatusOf(actl.config) \in {"ACTIVE", "FAILED"}
                THEN [configs EXCEPT ![actl.config].assoc = "DELETING"]
                ELSE configs
  /\ TrackIds
  /\ actl' = [actl EXCEPT !.pc = "unmanage"]
  /\ UNCHANGED <<cr, queued, ctl, work, used, faults, edits, drift,
                 acr, aqueued, vpcReady, aedits>>

\* sdkDelete names the configuration and the VPC that were read.  AWS may
\* refuse while it still makes the association.
DeleteTheAssociation ==
  /\ actl.pc = "delete"
  /\ StatusOf(actl.config) \in {"CREATING", "ACTIVE", "FAILED"}
  /\ configs' = [configs EXCEPT ![actl.config].assoc = "DELETING"]
  /\ TrackIds
  /\ actl' = [actl EXCEPT !.pc = "unmanage"]
  /\ UNCHANGED <<cr, queued, ctl, work, used, faults, edits, drift,
                 acr, aqueued, vpcReady, aedits>>

\* InvalidRequestException: an association is not in a state for the call, or
\* the configuration is not.
ARefusable ==
  \/ /\ actl.pc = "create" /\ actl.config \in Live
     /\ StatusOf(actl.config) = "NONE" /\ configs[actl.config].status # "CREATED"
  \/ actl.pc = "delete" /\ StatusOf(actl.config) \in {"CREATING", "DELETING"}

ATerminallyRefused ==
  /\ ARefusable
  /\ ATerminal
  /\ UNCHANGED <<configVars, assocId, vpcReady, aedits>>

MistakeGoneIsTerminal ==
  /\ \/ actl.pc = "create" /\ (actl.config \in Live => StatusOf(actl.config) # "NONE")
     \/ actl.pc = "delete" /\ StatusOf(actl.config) = "NONE"
  /\ ATerminal
  /\ UNCHANGED <<configVars, assocId, vpcReady, aedits>>

\* ResourceNotFoundException or ResourceExistsException, which are not terminal:
\* the configuration is gone, has this VPC already, or has it no longer.
ACallRefused ==
  /\ \/ actl.pc = "create" /\ (actl.config \in Live => StatusOf(actl.config) # "NONE")
     \/ actl.pc = "delete" /\ StatusOf(actl.config) = "NONE"
  /\ AError
  /\ UNCHANGED <<configVars, assocId, vpcReady, aedits>>

ACallFails ==
  /\ actl.pc # "idle" /\ faults < MaxFaults
  /\ faults' = faults + 1
  /\ AError
  /\ UNCHANGED <<cr, queued, ctl, work, configs, used, edits, drift,
                 assocId, vpcReady, aedits>>

PatchAssociationStatus ==
  /\ actl.pc = "patch"
  /\ acr' = IF AExists
            THEN [acr EXCEPT !.id = actl.id, !.synced = actl.end = "synced",
                             !.terminal = FALSE]
            ELSE acr
  /\ aqueued' = IF aqueued = "now" THEN "now" ELSE "later"
  /\ actl' = AIdle
  /\ UNCHANGED <<configVars, assocId, vpcReady, aedits>>

UnmanageAssociation ==
  /\ actl.pc = "unmanage"
  /\ acr' = AGone
  /\ actl' = AIdle
  /\ UNCHANGED <<configVars, aqueued, assocId, vpcReady, aedits>>
-----------------------------------------------------------------------------
(* Both controllers *)

\* A step of QueryLogConfig, and what it does to the associations' ids.
ConfigStep(A) == A /\ TrackIds /\ UNCHANGED <<acr, aqueued, actl, vpcReady, aedits>>

AController ==
  \/ AStart \/ ResolveReferences \/ FindNoAssociation \/ FindAssociation
  \/ ManageAssociation \/ CreateAssociation \/ CreateAssociationLost
  \/ DeleteTheAssociation \/ ATerminallyRefused \/ ACallRefused \/ ACallFails
  \/ PatchAssociationStatus \/ UnmanageAssociation

\* One process holds both workers, and lists the objects there are.
RestartBoth ==
  /\ Restart
  /\ actl' = AIdle
  /\ aqueued' = IF AExists THEN "now" ELSE aqueued
  /\ UNCHANGED <<acr, assocId, vpcReady, aedits>>

AFinished ==
  /\ ctl.pc = "idle" /\ queued = "never" /\ actl.pc = "idle" /\ aqueued = "never"
  /\ UNCHANGED allVars

ANext ==
  \/ EditAssociation \/ DeleteAssociation \/ VpcSettles
  \/ (\E c \in Live : DisassociatedByOthers(c))
  \/ AController \/ AResync \/ RestartBoth \/ AFinished
  \/ ConfigStep(User) \/ ConfigStep(Aws) \/ ConfigStep(Others)
  \/ ConfigStep(Controller) \/ ConfigStep(Resync)

ASpec == AInit /\ [][ANext]_allVars

AFairSpec ==
  /\ ASpec
  /\ WF_allVars(AController) /\ WF_allVars(AResync)
  /\ WF_allVars(ConfigStep(Controller)) /\ WF_allVars(ConfigStep(Aws))
  /\ WF_allVars(ConfigStep(Resync))
-----------------------------------------------------------------------------
(* Properties *)

\* Besides the types: an id belongs to each association and to one alone, and
\* none is asked for before its configuration and VPC are known.
AssociationTypeOK ==
  /\ TypeOK
  /\ acr \in AssociationObjects /\ actl \in AssociationReconciles
  /\ aqueued \in QueueStates /\ vpcReady \in BOOLEAN
  /\ aedits \in 0..MaxAssociationEdits
  /\ assocId \in [ConfigIds -> AssocIds \cup {NoId}]
  /\ \A c \in ConfigIds :
       /\ assocId[c] = NoId <=> StatusOf(c) = "NONE"
       /\ \A d \in ConfigIds \ {c} : assocId[c] = assocId[d] => assocId[c] = NoId
  /\ actl.pc \in {"manage", "create", "delete"} =>
       actl.config \in ConfigIds /\ actl.vpc = Vpc

\* An association that the object or the worker knows of, and that nobody has
\* begun to remove, is guarded by the finalizer of an object that is still
\* there: a refused or failed removal never lets the object go.
KnownAssociationIsGuarded ==
  \A c \in ConfigIds :
    assocId[c] \in {acr.id, actl.id} \ {NoId} /\ StatusOf(c) # "DELETING" =>
      AExists /\ acr.finalizer

\* The association that an object reported as synced is bound to is that of the
\* configuration its spec names by id, or of the one that the object it refers to
\* has by now, as long as that is there or AWS is not through with its deletion;
\* and it is active unless another party removes it: one that has failed is never
\* reported as synced.
SyncedAssociationIsHonest ==
  acr.phase = "live" /\ acr.synced /\ ~acr.terminal /\ aqueued = "later"
  /\ actl.pc = "idle" /\ acr.id \in LiveAssociations
  => LET c == ConfigOf(acr.id) IN
     /\ acr.spec.configId \in {NoId, c}
     /\ acr.spec.configRef =>
          cr.id = c /\ (Exists \/ configs[c].status = "DELETING")
     /\ StatusOf(c) \in {"ACTIVE", "DELETING"}

AGivenUp == acr.phase = "deleting" /\ actl.pc = "idle" /\ aqueued = "never"

\* The controller gives an object up only in the step in which AWS refuses to
\* remove an association that it is busy with: not when the association, or its
\* configuration, is gone, nor when a sync was refused while the user deleted it.
AssociationGivenUpWhenRefused ==
  [][~AGivenUp /\ AGivenUp' => ARefusable]_allVars

\* A deletion ends, unless the controller gives the object up.
AssociationDeletionEnds == acr.phase = "deleting" ~> ~AExists \/ AGivenUp
=============================================================================
