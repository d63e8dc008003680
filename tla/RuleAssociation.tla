--------------------------- MODULE RuleAssociation ---------------------------
(***************************************************************************)
(* A ResolverRuleAssociation object beside the ResolverRule object of the  *)
(* rule it names: two controllers, each with a worker of its own, that act *)
(* on the same associations in AWS.  The rule's controller is that of      *)
(* ResolverRule, whose every step is a step of this module; here is the    *)
(* other one, of src/pkg/resource/resolver_rule_association.               *)
(*                                                                         *)
(* AWS gives an association an id when it is made; a rule and a VPC have   *)
(* one association at most.  The id is what the manager reads by, the rule *)
(* and the VPC are what it deletes by.                                     *)
(*                                                                         *)
(* Operators named Mistake... are variants of the definition that follows  *)
(* each, with a maintainer's error.                                        *)
(***************************************************************************)
EXTENDS ResolverRule

CONSTANTS
  AssocIds,          \* ids AWS gives to associations
  NoVpc,             \* Spec.VPCID is nil
  ReferencedVpc,     \* the VPC behind the VPC object that VPCRef names
  AssociationNames,  \* names of associations, beside none
  AssociationSpecs   \* the specs users write

FullAssociationSpecs ==
  [name : AssociationNames \cup {NoName},
   ruleRef : BOOLEAN, ruleId : RuleIds \cup {NoId},
   vpcRef : BOOLEAN, vpcId : Vpcs \cup {NoVpc}]

ASSUME AssociationAssumption ==
  /\ NoId \notin AssocIds /\ NoVpc \notin Vpcs /\ ReferencedVpc \in Vpcs
  /\ AssociationSpecs \subseteq FullAssociationSpecs

VARIABLES
  acr,       \* the ResolverRuleAssociation object
  aqueued,   \* when the queue of its kind hands its key out: now, later, never
  actl,      \* the reconcile of it in progress
  assocId,   \* the ids of the associations in AWS
  assocName, \* their names
  vpcReady   \* the VPC object is synced and has an id

ruleVars == <<cr, queued, ctl, work, rules, used, faults, edits, drift>>
avars == <<acr, aqueued, actl, assocId, assocName, vpcReady>>
allVars == <<ruleVars, avars>>
-----------------------------------------------------------------------------
(* Data *)

\* Metadata, spec, Status.ID and two of the conditions.
AssociationObjects ==
  [phase : {"live", "deleting", "gone"}, finalizer : BOOLEAN,
   id : AssocIds \cup {NoId}, spec : AssociationSpecs,
   synced : BOOLEAN, terminal : BOOLEAN]

\* A reconcile: the next call, the spec it began with, the rule and the VPC it
\* is about (as resolved for a sync, as observed for a deletion), the id of
\* their association and how the reconcile will end.
AssociationReconciles ==
  [pc : {"idle", "resolve", "find", "manage", "create", "delete", "patch",
         "unmanage"},
   mode : {"sync", "delete"}, spec : AssociationSpecs,
   rule : RuleIds \cup {NoId}, vpc : Vpcs \cup {NoVpc},
   id : AssocIds \cup {NoId}, end : {"synced", "unsynced", "terminal"}]

QueueStates == {"now", "later", "never"}

AnyAssociationSpec == CHOOSE s \in AssociationSpecs : TRUE

AIdle == [pc |-> "idle", mode |-> "sync", spec |-> AnyAssociationSpec,
          rule |-> NoId, vpc |-> NoVpc, id |-> NoId, end |-> "unsynced"]

\* The object is no more; its id is kept for the sake of the properties.
AGone == [phase |-> "gone", finalizer |-> FALSE, id |-> acr.id,
          spec |-> AnyAssociationSpec, synced |-> FALSE, terminal |-> FALSE]

AExists == acr.phase # "gone"

Places == RuleIds \X Vpcs

StatusAt(p) == IF p[1] \in Live THEN rules[p[1]].assoc[p[2]] ELSE "NONE"

IdAt(p) == assocId[p[1]][p[2]]

NameAt(p) == assocName[p[1]][p[2]]

LiveAssociations == {IdAt(p) : p \in Places} \ {NoId}

PlaceOf(i) == CHOOSE p \in Places : IdAt(p) = i

\* AWS does not run out of ids: for one more association there is one that none
\* has and that neither of two more places remembers.
ASSUME FreshIdAssumption ==
  \A ids \in [RuleIds -> [Vpcs -> AssocIds \cup {NoId}]],
     i, j \in AssocIds \cup {NoId} :
    (\E p \in Places : ids[p[1]][p[2]] = NoId) =>
      \E k \in AssocIds \ {i, j} : \A p \in Places : ids[p[1]][p[2]] # k

\* An id that nothing remembers.
FreshId ==
  CHOOSE i \in AssocIds : i \notin LiveAssociations \cup {acr.id, actl.id}

\* What a step does to the ids and the names, given what it does to the
\* associations and how it names a new one.
TrackIds(name) ==
  /\ assocId' = [r \in RuleIds |-> [v \in Vpcs |->
       CASE r \notin DOMAIN rules' -> NoId
         [] r \in DOMAIN rules' /\ rules'[r].assoc[v] = "NONE" -> NoId
         [] OTHER -> IF assocId[r][v] # NoId THEN assocId[r][v] ELSE FreshId]]
  /\ assocName' = [r \in RuleIds |-> [v \in Vpcs |->
       CASE assocId'[r][v] = NoId -> NoName
         [] assocId'[r][v] # NoId /\ assocId[r][v] # NoId -> assocName[r][v]
         [] OTHER -> name]]

AInit ==
  /\ Init
  /\ acr \in [phase : {"live"}, finalizer : {FALSE}, id : {NoId},
              spec : {s \in AssociationSpecs : s.ruleId = NoId},
              synced : {FALSE}, terminal : {FALSE}]
  /\ aqueued = "now"
  /\ actl = AIdle
  /\ assocId = [r \in RuleIds |-> [v \in Vpcs |-> NoId]]
  /\ assocName = [r \in RuleIds |-> [v \in Vpcs |-> NoName]]
  /\ vpcReady = FALSE
-----------------------------------------------------------------------------
(* The users, and the controller of the VPC *)

\* The name and each id may be set or removed, but not changed.
Admissible(old, new) ==
  /\ old.name = new.name \/ NoName \in {old.name, new.name}
  /\ old.ruleId = new.ruleId \/ NoId \in {old.ruleId, new.ruleId}
  /\ old.vpcId = new.vpcId \/ NoVpc \in {old.vpcId, new.vpcId}

EditAssociation ==
  /\ acr.phase = "live" /\ edits < MaxEdits
  /\ \E s \in AssociationSpecs \ {acr.spec} :
       /\ Admissible(acr.spec, s) /\ s.ruleId \in Live \cup {NoId}
       /\ acr' = [acr EXCEPT !.spec = s]
  /\ aqueued' = "now"
  /\ edits' = edits + 1
  /\ UNCHANGED <<cr, queued, ctl, work, rules, used, faults, drift,
                 actl, assocId, assocName, vpcReady>>

DeleteAssociation ==
  /\ acr.phase = "live"
  /\ acr' = IF acr.finalizer THEN [acr EXCEPT !.phase = "deleting"] ELSE AGone
  /\ aqueued' = "now"
  /\ UNCHANGED <<ruleVars, actl, assocId, assocName, vpcReady>>

\* Another ResolverRule object under the name of one that is gone.
ApplyRuleAgain ==
  /\ ~Exists /\ edits < MaxEdits
  /\ \E s \in Specs :
       cr' = [phase |-> "live", finalizer |-> FALSE, id |-> NoId, spec |-> s,
              synced |-> FALSE]
  /\ queued' = TRUE
  /\ edits' = edits + 1
  /\ UNCHANGED <<ctl, work, rules, used, faults, drift, avars>>

VpcSettles ==
  /\ ~vpcReady
  /\ vpcReady' = TRUE
  /\ UNCHANGED <<ruleVars, acr, aqueued, actl, assocId, assocName>>
-----------------------------------------------------------------------------
(* References *)

\* validateReferenceFields: each field by reference or by id, not both.
validateReferenceFields(s) ==
  s.ruleRef = (s.ruleId = NoId) /\ s.vpcRef = (s.vpcId = NoVpc)

MistakeUnsyncedRuleTaken == Exists

\* getReferencedResourceState_ResolverRule: the object is there, is synced and
\* has an id, which may be that of a rule AWS no longer has.
ReferencedRuleReady == Exists /\ cr.synced /\ cr.id # NoId

Resolvable(s) ==
  /\ validateReferenceFields(s)
  /\ s.ruleRef => ReferencedRuleReady
  /\ s.vpcRef => vpcReady
-----------------------------------------------------------------------------
(* How a reconcile ends *)

\* The conditions after an operation that ended so.  A terminal error counts as
\* synced, since no further reconcile can change anything.
Conditions(end) == [synced |-> end # "unsynced", terminal |-> end = "terminal"]

PatchedConditions(end) ==
  acr' = IF AExists
         THEN [acr EXCEPT !.synced = Conditions(end).synced,
                          !.terminal = Conditions(end).terminal]
         ELSE acr

\* A deletion that fails leaves both conditions as they are, but sdkDelete's own
\* error takes the terminal one back.
AError ==
  /\ \/ acr' = acr
     \/ actl.mode = "sync" /\ PatchedConditions("unsynced")
     \/ /\ actl.pc = "delete" /\ AExists
        /\ acr' = [acr EXCEPT !.terminal = FALSE]
  /\ actl' = AIdle
  /\ aqueued' = "now"
-----------------------------------------------------------------------------
(* The reconcile *)

AStart ==
  /\ actl.pc = "idle" /\ aqueued = "now"
  /\ aqueued' = "never"
  /\ actl' = CASE acr.phase = "live" ->
                    [AIdle EXCEPT !.pc = "resolve", !.spec = acr.spec, !.id = acr.id]
               [] acr.phase = "deleting" ->
                    [AIdle EXCEPT !.pc = "find", !.mode = "delete",
                                  !.spec = acr.spec, !.id = acr.id]
               [] OTHER -> AIdle
  /\ UNCHANGED <<ruleVars, acr, assocId, assocName, vpcReady>>

\* A resource comes round again after a delay, but not after a terminal error.
AResync ==
  /\ actl.pc = "idle" /\ aqueued = "later"
  /\ aqueued' = "now"
  /\ UNCHANGED <<ruleVars, acr, actl, assocId, assocName, vpcReady>>

ResolveReferences ==
  /\ actl.pc = "resolve"
  /\ \/ /\ Resolvable(actl.spec)
        /\ actl' = [actl EXCEPT
             !.pc = "find",
             !.rule = IF actl.spec.ruleRef THEN cr.id ELSE actl.spec.ruleId,
             !.vpc = IF actl.spec.vpcRef THEN ReferencedVpc ELSE actl.spec.vpcId]
        /\ UNCHANGED <<acr, aqueued>>
     \/ ~Resolvable(actl.spec) /\ AError
  /\ UNCHANGED <<ruleVars, assocId, assocName, vpcReady>>

MistakeNotFoundIsAnError ==
  /\ actl.pc = "find" /\ actl.id \notin LiveAssociations
  /\ IF actl.id = NoId /\ actl.mode = "sync"
     THEN actl' = [actl EXCEPT !.pc = "manage"] /\ UNCHANGED <<acr, aqueued>>
     ELSE AError
  /\ UNCHANGED <<ruleVars, assocId, assocName, vpcReady>>

\* sdkFind: Status.ID is nil, or AWS answers ResourceNotFoundException.
FindNoAssociation ==
  /\ actl.pc = "find" /\ actl.id \notin LiveAssociations
  /\ actl' = [actl EXCEPT !.pc = IF actl.mode = "delete"
                                 THEN "unmanage" ELSE "manage"]
  /\ UNCHANGED <<ruleVars, acr, aqueued, assocId, assocName, vpcReady>>

MistakeDeltaSkipsRule(place) ==
  <<actl.vpc, actl.spec.name>> # <<place[2], NameAt(place)>>

\* newResourceDelta: the name and the resolved fields against those AWS holds.
AssociationDiffers(place) ==
  <<actl.rule, actl.vpc, actl.spec.name>> # <<place[1], place[2], NameAt(place)>>

\* IsSynced, of the status that was read.
AssociationIsSynced(status) == status = "COMPLETE"

MistakeUpdateReplaces(place) ==
  [actl EXCEPT !.pc = "delete", !.rule = place[1], !.vpc = place[2]]

\* sdkUpdate can change nothing and returns a terminal error.
sdkUpdate(place) == [actl EXCEPT !.pc = "patch", !.end = "terminal"]

FindAssociation ==
  /\ actl.pc = "find" /\ actl.id \in LiveAssociations
  /\ LET place == PlaceOf(actl.id) IN
     \/ /\ actl.mode = "sync" /\ AssociationDiffers(place)
        /\ actl' = sdkUpdate(place)
     \/ /\ actl.mode = "sync" /\ ~AssociationDiffers(place)
        /\ actl' = [actl EXCEPT !.pc = "patch",
                                !.end = IF AssociationIsSynced(StatusAt(place))
                                        THEN "synced" ELSE "unsynced"]
     \/ /\ actl.mode = "delete"
        /\ actl' = [actl EXCEPT !.pc = "delete",
                                !.rule = place[1], !.vpc = place[2]]
  /\ UNCHANGED <<ruleVars, acr, aqueued, assocId, assocName, vpcReady>>

ManageAssociation ==
  /\ actl.pc = "manage"
  /\ \/ /\ AExists
        /\ acr' = [acr EXCEPT !.finalizer = TRUE]
        /\ actl' = [actl EXCEPT !.pc = "create"]
        /\ UNCHANGED aqueued
     \/ ~AExists /\ AError
  /\ UNCHANGED <<ruleVars, assocId, assocName, vpcReady>>

Here == <<actl.rule, actl.vpc>>

Associates ==
  /\ actl.pc = "create" /\ actl.rule \in Live /\ StatusAt(Here) = "NONE"
  /\ rules' = [rules EXCEPT ![actl.rule].assoc[actl.vpc] = "CREATING"]
  /\ TrackIds(actl.spec.name)

\* sdkCreate: the answer brings the id, and CREATING.
CreateAssociation ==
  /\ Associates
  /\ actl' = [actl EXCEPT !.pc = "patch", !.id = FreshId]
  /\ UNCHANGED <<cr, queued, ctl, work, used, faults, edits, drift,
                 acr, aqueued, vpcReady>>

\* The answer is lost.  The request has nothing that tells AWS of a repetition:
\* the client's own retry is refused, as that of the next reconcile will be.
CreateAssociationLost ==
  /\ faults < MaxFaults
  /\ Associates
  /\ AError
  /\ faults' = faults + 1
  /\ UNCHANGED <<cr, queued, ctl, work, used, edits, drift, vpcReady>>

MistakeErrorIsGone ==
  /\ actl.pc = "delete"
  /\ rules' = IF StatusAt(Here) = "COMPLETE"
              THEN [rules EXCEPT ![actl.rule].assoc[actl.vpc] = "DELETING"]
              ELSE rules
  /\ TrackIds(NoName)
  /\ actl' = [actl EXCEPT !.pc = "unmanage"]
  /\ UNCHANGED <<cr, queued, ctl, work, used, faults, edits, drift,
                 acr, aqueued, vpcReady>>

\* sdkDelete names the rule and the VPC that were read with the id: whatever
\* association they have by now is removed.
DeleteTheAssociation ==
  /\ actl.pc = "delete" /\ StatusAt(Here) \in {"CREATING", "COMPLETE"}
  /\ rules' = [rules EXCEPT ![actl.rule].assoc[actl.vpc] = "DELETING"]
  /\ TrackIds(NoName)
  /\ actl' = [actl EXCEPT !.pc = "unmanage"]
  /\ UNCHANGED <<cr, queued, ctl, work, used, faults, edits, drift,
                 acr, aqueued, vpcReady>>

\* Calls AWS answers with an error: there is no such rule, it has this VPC
\* already, or no longer.
ACallRefused ==
  /\ \/ actl.pc = "create" /\ (actl.rule \notin Live \/ StatusAt(Here) # "NONE")
     \/ actl.pc = "delete" /\ StatusAt(Here) \notin {"CREATING", "COMPLETE"}
  /\ AError
  /\ UNCHANGED <<ruleVars, assocId, assocName, vpcReady>>

ACallFails ==
  /\ actl.pc # "idle" /\ actl.end # "terminal" /\ faults < MaxFaults
  /\ faults' = faults + 1
  /\ AError
  /\ UNCHANGED <<cr, queued, ctl, work, rules, used, edits, drift,
                 assocId, assocName, vpcReady>>

\* A resource that is not synced comes round after a delay, one that is after
\* the resync period.
PatchAssociationStatus ==
  /\ actl.pc = "patch" /\ actl.end # "terminal"
  /\ acr' = IF AExists
            THEN [acr EXCEPT !.id = actl.id,
                             !.synced = Conditions(actl.end).synced,
                             !.terminal = Conditions(actl.end).terminal]
            ELSE acr
  /\ aqueued' = IF aqueued = "now" THEN "now" ELSE "later"
  /\ actl' = AIdle
  /\ UNCHANGED <<ruleVars, assocId, assocName, vpcReady>>

\* After a terminal error the conditions are written too, but nobody looks
\* whether they are, and the key is not queued again.
PatchTerminal ==
  /\ actl.pc = "patch" /\ actl.end = "terminal"
  /\ acr' = acr \/ PatchedConditions("terminal")
  /\ actl' = AIdle
  /\ UNCHANGED <<ruleVars, aqueued, assocId, assocName, vpcReady>>

\* The object goes at once, its association when AWS has removed it.
UnmanageAssociation ==
  /\ actl.pc = "unmanage"
  /\ acr' = AGone
  /\ actl' = AIdle
  /\ UNCHANGED <<ruleVars, aqueued, assocId, assocName, vpcReady>>
-----------------------------------------------------------------------------
(* Both controllers *)

\* A step of ResolverRule, and what it does to the associations' ids: the rule's
\* manager gives its associations no names.
RuleStep(A) == A /\ TrackIds(NoName) /\ UNCHANGED <<acr, aqueued, actl, vpcReady>>

AController ==
  \/ AStart \/ ResolveReferences \/ FindNoAssociation \/ FindAssociation
  \/ ManageAssociation \/ CreateAssociation \/ CreateAssociationLost
  \/ DeleteTheAssociation \/ ACallRefused \/ ACallFails
  \/ PatchAssociationStatus \/ PatchTerminal \/ UnmanageAssociation

\* One process holds both workers, and lists the objects there are.
RestartBoth ==
  /\ Restart
  /\ actl' = AIdle
  /\ aqueued' = IF AExists THEN "now" ELSE aqueued
  /\ UNCHANGED <<acr, assocId, assocName, vpcReady>>

AFinished ==
  /\ ~Exists /\ ctl.pc = "idle" /\ ~queued
  /\ actl.pc = "idle" /\ aqueued = "never"
  /\ UNCHANGED allVars

ANext ==
  \/ EditAssociation \/ DeleteAssociation \/ ApplyRuleAgain \/ VpcSettles
  \/ AController \/ AResync \/ RestartBoth \/ AFinished
  \/ RuleStep(User) \/ RuleStep(Aws) \/ RuleStep(Controller)
  \/ RuleStep(Resync) \/ RuleStep(\E r \in Live : RuleDrifts(r))

ASpec == AInit /\ [][ANext]_allVars

\* Each worker goes on whatever the other does.
AFairSpec ==
  /\ ASpec
  /\ WF_allVars(AController) /\ WF_allVars(AResync)
  /\ WF_allVars(RuleStep(Controller)) /\ WF_allVars(RuleStep(Aws))
  /\ WF_allVars(RuleStep(Resync))
-----------------------------------------------------------------------------
(* Properties *)

\* Besides the types: an id belongs to each association and to one alone, and
\* no association is asked for before its rule and its VPC are known (the
\* checks of ResolveReferences, without which the request would lack a field).
AssociationTypeOK ==
  /\ TypeOK
  /\ acr \in AssociationObjects /\ actl \in AssociationReconciles
  /\ aqueued \in QueueStates /\ vpcReady \in BOOLEAN
  /\ assocId \in [RuleIds -> [Vpcs -> AssocIds \cup {NoId}]]
  /\ assocName \in [RuleIds -> [Vpcs -> AssociationNames \cup {NoName}]]
  /\ \A p \in Places :
       /\ IdAt(p) = NoId <=> StatusAt(p) = "NONE"
       /\ \A q \in Places \ {p} : IdAt(p) = IdAt(q) => IdAt(p) = NoId
  /\ actl.pc \in {"manage", "create", "delete"} =>
       actl.rule \in RuleIds /\ actl.vpc \in Vpcs

\* An association that the object or the worker knows of, and that nobody has
\* begun to remove, is guarded by the finalizer of an object that is still
\* there, also while its create is in progress.
KnownAssociationIsGuarded ==
  \A p \in Places :
    IdAt(p) \in {acr.id, actl.id} \ {NoId} /\ StatusAt(p) # "DELETING" =>
      AExists /\ acr.finalizer

\* The association that an object reported as synced is bound to, with no event
\* pending, is the one its spec asks for by name and ids; where the spec refers to
\* other objects, it is of the rule that the rule object under that name has by
\* now, even if that object came and went since the reference was followed, and of
\* the VPC behind the VPC object.  If it is not complete that is because another
\* party is removing it (newResourceDelta on resolved fields, IsSynced, and the
\* terminal error of sdkUpdate for everything else).
SyncedAssociationIsHonest ==
  acr.phase = "live" /\ acr.synced /\ ~acr.terminal /\ aqueued = "later"
  /\ actl.pc = "idle" /\ acr.id \in LiveAssociations
  => LET p == PlaceOf(acr.id) IN
     /\ acr.spec.ruleId \in {NoId, p[1]} /\ acr.spec.vpcId \in {NoVpc, p[2]}
     /\ acr.spec.name = NameAt(p)
     /\ acr.spec.ruleRef => Exists /\ cr.id = p[1]
     /\ acr.spec.vpcRef => p[2] = ReferencedVpc
     /\ StatusAt(p) \in {"COMPLETE", "DELETING"}

Removed(p) == StatusAt(p) # "DELETING" /\ StatusAt(p)' = "DELETING"

\* An association is taken away only by the rule's controller, for a VPC that
\* the spec it read does not list or for a rule being deleted, or for an
\* association object that is being deleted: an update of the latter never
\* removes one to make another.
RemovedByRight ==
  [][\A p \in Places : Removed(p) =>
       \/ /\ ctl.pc = "work" /\ ctl.id = p[1]
          /\ ctl.mode = "delete" \/ p[2] \notin ctl.desired.vpcs
       \/ acr.phase = "deleting" /\ actl.mode = "delete"]_allVars

\* What the documentation of ResolverRuleAssociation says of a rule that is
\* shared: the rule's controller does not contend for an association that a
\* ResolverRuleAssociation object holds.
EachManagesItsOwn ==
  [][\A p \in Places : Removed(p) /\ acr.phase = "live" /\ Exists
                       /\ cr.phase = "live" => IdAt(p) # acr.id]_allVars

\* The deletion of an association object ends, whatever the rule's controller
\* does to the association meanwhile.
AssociationDeletionCompletes == acr.phase = "deleting" ~> ~AExists

AGivenUp == actl.pc = "idle" /\ aqueued = "never"

\* However often the rule's controller takes it away, the VPC of an object with
\* a spec in order is associated again with the rule, as long as there is one
\* and no terminal error has made the controller give the object up.
AssociationComesBack ==
  []<>(LET s == acr.spec IN
       acr.phase = "live" /\ ~AGivenUp /\ Resolvable(s)
       => LET rule == IF s.ruleRef THEN cr.id ELSE s.ruleId
              vpc == IF s.vpcRef THEN ReferencedVpc ELSE s.vpcId
          IN rule \notin Live \/ StatusAt(<<rule, vpc>>) # "NONE")
=============================================================================
