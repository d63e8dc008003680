---------------------- MODULE QueryLogAssociationProofs ----------------------
(***************************************************************************)
(* The controllers of ResolverQueryLogConfig and of                        *)
(* ResolverQueryLogConfigAssociation side by side, for any configurations, *)
(* specs, edits and faults: neither spoils what is proved of the other     *)
(* alone, what guards an association, and what its object may say of it.   *)
(***************************************************************************)
EXTENDS QueryLogAssociation, QueryLogConfigProofs

(* The configuration's controller *)

\* One association changes its status.
Moved(c, s) == [configs EXCEPT ![c].assoc = s]

LEMMA MovedType ==
  ASSUME TypeInv, NEW c \in Live, NEW s \in AssociationStatus,
         configs' = Moved(c, s)
  PROVE  /\ Live' = Live /\ configs' \in [Live' -> QueryLogConfigs]
         /\ configs'[c].assoc = s
         /\ \A d \in Live \ {c} : configs'[d] = configs[d]
         /\ \A d \in Live : /\ configs'[d].status = configs[d].status
                            /\ configs'[d].tags = configs[d].tags
<1>a. configs \in [Live -> QueryLogConfigs] /\ configs[c] \in QueryLogConfigs
  BY DEF TypeInv, TypeOK
<1> DEFINE new == [configs[c] EXCEPT !.assoc = s]
<1>1. /\ new \in QueryLogConfigs /\ new.assoc = s
      /\ new.status = configs[c].status /\ new.tags = configs[c].tags
  BY <1>a DEF QueryLogConfigs
<1>2. configs' = [configs EXCEPT ![c] = new]
  BY DEF Moved
<1> HIDE DEF new
<1> QED BY <1>a, <1>1, <1>2 DEF Live

\* A step of the association's side: configurations keep their states and tags.
Beside ==
  /\ UNCHANGED <<cr, queued, ctl, work, used, edits, drift>>
  /\ faults' \in 0..MaxFaults
  /\ Live' = Live /\ configs' \in [Live' -> QueryLogConfigs]
  /\ \A d \in Live : /\ configs'[d].status = configs[d].status
                     /\ configs'[d].tags = configs[d].tags

LEMMA BesideType ==
  ASSUME HonestInv, Beside
  PROVE  HonestInv' /\ UNCHANGED ManagedVars
<1>a. TypeInv /\ Life /\ StatusLeads
  BY DEF HonestInv, Bound
<1>1. Standing' = Standing /\ PendingId' = PendingId
  BY DEF Beside, Standing, PendingId
<1>2. TypeInv'
  BY <1>a DEF Beside, TypeInv, TypeOK, TagsInv, SystemTagsUntouched, Present
<1>3. Life'
  BY <1>a, <1>1 DEF Beside, Life, Exists
<1>4. StatusLeads'
  BY <1>a DEF Beside, StatusLeads
<1> QED BY <1>1, <1>2, <1>3, <1>4 DEF HonestInv, Bound, Beside, ManagedVars

LEMMA StepSides ==
  ASSUME HonestInv, [ANext]_allVars
  PROVE  [Next]_vars \/ Beside
<1>a. /\ TypeInv /\ faults \in 0..MaxFaults /\ MaxFaults \in Nat
      /\ configs \in [Live -> QueryLogConfigs]
  BY ConfigBoundsAssumption DEF HonestInv, Bound, TypeInv, TypeOK
<1>1. ASSUME NEW c \in Live, NEW s \in AssociationStatus, configs' = Moved(c, s),
             UNCHANGED <<cr, queued, ctl, work, used, edits, drift>>,
             faults' \in 0..MaxFaults
      PROVE  Beside
  BY <1>a, <1>1, MovedType DEF Beside
<1>2. ASSUME UNCHANGED <<cr, queued, ctl, work, configs, used, edits, drift>>,
             faults' \in 0..MaxFaults
      PROVE  Beside
  BY <1>a, <1>2 DEF Beside, Live
<1>3. CASE CreateAssociation \/ CreateAssociationLost
  <2>1. /\ actl.config \in Live /\ configs' = Moved(actl.config, "CREATING")
        /\ UNCHANGED <<cr, queued, ctl, work, used, edits, drift>>
    BY <1>3 DEF CreateAssociation, CreateAssociationLost, Associates, Moved
  <2>2. faults' \in 0..MaxFaults
    BY <1>a, <1>3 DEF CreateAssociation, CreateAssociationLost
  <2> QED BY <1>1, <2>1, <2>2 DEF AssociationStatus
<1>4. CASE DeleteTheAssociation
  BY <1>a, <1>1, <1>4 DEF DeleteTheAssociation, StatusOf, Moved, AssociationStatus
<1>5. ASSUME NEW c \in Live, DisassociatedByOthers(c) PROVE Beside
  BY <1>a, <1>1, <1>5 DEF DisassociatedByOthers, Moved, AssociationStatus
<1>6. CASE ACallFails
  BY <1>a, <1>2, <1>6 DEF ACallFails
<1>7. ASSUME UNCHANGED configVars PROVE Beside
  BY <1>a, <1>2, <1>7 DEF configVars
<1>8. CASE \/ RestartBoth \/ ConfigStep(User) \/ ConfigStep(Aws)
           \/ ConfigStep(Others) \/ ConfigStep(Controller) \/ ConfigStep(Resync)
  BY <1>8 DEF RestartBoth, ConfigStep, Next
<1> QED
  BY <1>3, <1>4, <1>5, <1>6, <1>7, <1>8
     DEF ANext, AController, allVars, EditAssociation, DeleteAssociation,
         VpcSettles, AStart, AResync, ResolveReferences, FindNoAssociation,
         FindAssociation, ManageAssociation, ATerminallyRefused, ACallRefused,
         PatchAssociationStatus, UnmanageAssociation, AFinished

LEMMA NextHonest ==
  ASSUME HonestInv, [ANext]_allVars
  PROVE  HonestInv' /\ [Managed!Next]_ManagedVars
BY StepSides, BesideType, NextType, PromisedStep, StatusStep
   DEF HonestInv, Bound

LEMMA InitHonest == AInit => HonestInv /\ Managed!Init
<1> SUFFICES ASSUME Init PROVE HonestInv /\ Managed!Init
  BY DEF AInit
<1>1. cr.status = "nil" /\ cr.synced = FALSE /\ ctl.pc = "idle"
  BY IdleType DEF Init
<1> QED BY <1>1, InitBound DEF HonestInv, StatusLeads

\* The controller of the association takes nothing from what is promised of the
\* configuration, by whatever it and those who edit its object do meanwhile:
\* both are workers of one process and share no more than AWS and the references.
THEOREM ConfigIsManagedStill == ASpec => RefinesManaged
<1>1. HonestInv /\ [ANext]_allVars => HonestInv' /\ [Managed!Next]_(Managed!vars)
  BY NextHonest DEF ManagedVars, Managed!vars, Standing
<1> QED
  BY InitHonest, <1>1, PTL DEF ASpec, RefinesManaged, Managed!Spec

\* The same of the status that is reported, and of AWS's tags.
THEOREM ConfigIsTrueStill ==
  ASpec => [](SyncedConfigIsHonest /\ SystemTagsUntouched)
<1>1. HonestInv => SyncedConfigIsHonest /\ SystemTagsUntouched
  BY DEF HonestInv, StatusLeads, SyncedConfigIsHonest, Made, Bound, TypeInv,
         TagsInv
<1>2. HonestInv /\ [ANext]_allVars => HonestInv'
  BY NextHonest
<1> QED BY InitHonest, <1>1, <1>2, PTL DEF ASpec

\* And no tag that is wanted goes missing for the association's sake.
THEOREM WantedTagsAreKeptStill == ASpec => WantedTagsStay
<1> DEFINE Kept ==
      \A c \in Live, k \in Keys :
        /\ c \in DOMAIN configs' /\ edits' = edits
        /\ configs[c].tags[k] # Absent /\ configs'[c].tags[k] = Absent
        => c = ctl.id /\ ctl.tags[k] = Absent
<1>1. HonestInv /\ [ANext]_allVars => HonestInv' /\ [Kept]_vars
  <2> SUFFICES ASSUME HonestInv, [ANext]_allVars PROVE HonestInv' /\ [Kept]_vars
    OBVIOUS
  <2>1. CASE [Next]_vars
    BY <2>1, NextHonest, RemovalStep DEF HonestInv, Bound, TypeInv, TagsInv
  <2>2. CASE Beside
    BY <2>2, NextHonest DEF Beside
  <2> QED BY <2>1, <2>2, StepSides
<1> QED BY InitHonest, <1>1, PTL DEF ASpec, WantedTagsStay

\* Nor are the calls of an update led astray.
THEOREM TagCallsAreEnoughStill == ASpec => TagCallsLead
<1>1. HonestInv /\ [ANext]_allVars =>
        HonestInv' /\ [TagsInSight /\ edits' = edits => TagsInSight']_vars
  <2> SUFFICES ASSUME HonestInv, [ANext]_allVars, TagsInSight, edits' = edits
               PROVE  HonestInv' /\ TagsInSight'
    BY NextHonest
  <2>1. CASE [Next]_vars
    BY <2>1, NextHonest, TagsStep DEF HonestInv, Bound
  <2>2. CASE Beside
    BY <2>2, NextHonest DEF Beside, TagsInSight, TagsToCome
  <2> QED BY <2>1, <2>2, StepSides
<1> QED BY InitHonest, <1>1, PTL DEF ASpec, TagCallsLead
-----------------------------------------------------------------------------

(* What the worker knows, and what the object may say *)

\* No association without an id, no id twice.
Identified ==
  /\ assocId \in [ConfigIds -> AssocIds \cup {NoId}]
  /\ \A c \in ConfigIds :
       /\ assocId[c] = NoId <=> StatusOf(c) = "NONE"
       /\ \A d \in ConfigIds \ {c} : assocId[c] = assocId[d] => assocId[c] = NoId

AssociationTypes ==
  /\ acr \in AssociationObjects /\ actl \in AssociationReconciles
  /\ aqueued \in QueueStates /\ vpcReady \in BOOLEAN
  /\ aedits \in 0..MaxAssociationEdits

\* The configuration whose association has this id.
HasId(c, i) == i # NoId /\ assocId[c] = i

\* Where the worker is and what that says of its record and of the object.
Course ==
  /\ actl.pc # "idle" => aqueued # "later"
  /\ actl.pc \notin {"idle", "patch"} => actl.id = acr.id /\ actl.end = "unsynced"
  /\ actl.pc \in {"resolve", "manage", "create", "patch"} => actl.mode = "sync"
  /\ actl.pc \in {"find", "manage", "create", "patch"} /\ actl.mode = "sync" =>
       /\ actl.config \in ConfigIds /\ actl.vpc = Vpc
       /\ actl.spec.configId \in {NoId, actl.config}
  /\ actl.pc = "create" => AExists /\ acr.finalizer
  /\ actl.pc = "delete" => actl.config \in ConfigIds /\ actl.vpc = Vpc
  /\ actl.pc # "idle" /\ aqueued = "never" /\ acr.phase = "live" =>
       actl.spec = acr.spec

\* What it has found out of the association, which is still so.
AssociationFound ==
  \A c \in ConfigIds : HasId(c, actl.id) =>
    /\ actl.pc = "delete" => c = actl.config
    /\ actl.pc = "unmanage" => StatusOf(c) = "DELETING"
    /\ actl.pc = "patch" /\ actl.end = "synced" =>
         c = actl.config /\ StatusOf(c) \in {"ACTIVE", "DELETING"}

\* SyncedAssociationIsHonest, of whichever configuration's association it is.
HonestObject ==
  acr.phase = "live" /\ acr.synced /\ ~acr.terminal /\ aqueued = "later"
  /\ actl.pc = "idle"
  => \A c \in ConfigIds : HasId(c, acr.id) =>
       acr.spec.configId \in {NoId, c} /\ StatusOf(c) \in {"ACTIVE", "DELETING"}

AssociationInv ==
  /\ HonestInv /\ Identified /\ AssociationTypes
  /\ Course /\ AssociationFound /\ KnownAssociationIsGuarded /\ HonestObject
-----------------------------------------------------------------------------
(* How associations and their ids change *)

\* What may become of an association in one step.  It also goes, from any state,
\* with its configuration.
Allowed(from, to) ==
  \/ to \in {from, "NONE"}
  \/ from = "NONE" /\ to \in {"CREATING", "ACTIVE"}
  \/ from = "CREATING" /\ to \in {"ACTIVE", "FAILED"}
  \/ from \in {"CREATING", "ACTIVE", "FAILED"} /\ to = "DELETING"

Born(c) == StatusOf(c) = "NONE" /\ StatusOf(c)' # "NONE"

\* A step makes one association at most.
StatusMoves ==
  /\ \A c \in ConfigIds : Allowed(StatusOf(c), StatusOf(c)')
  /\ \A c, d \in ConfigIds : Born(c) /\ Born(d) => c = d

LEMMA SameStatus ==
  ASSUME \A c \in ConfigIds : StatusOf(c)' = StatusOf(c)
  PROVE  StatusMoves
BY DEF StatusMoves, Allowed, Born

LEMMA OneMove ==
  ASSUME TypeInv, NEW c \in Live, NEW s \in AssociationStatus,
         configs' = Moved(c, s), Allowed(configs[c].assoc, s)
  PROVE  StatusMoves
<1>1. /\ Live' = Live /\ StatusOf(c) = configs[c].assoc /\ StatusOf(c)' = s
      /\ \A d \in ConfigIds \ {c} : StatusOf(d)' = StatusOf(d)
  BY MovedType DEF StatusOf
<1> QED BY <1>1 DEF StatusMoves, Allowed, Born

\* The configuration's controller, AWS and those who interfere: a configuration
\* is made without an association, and takes one with it when it goes.
LEMMA ConfigMoves ==
  ASSUME TypeInv, [Next]_vars
  PROVE  StatusMoves
<1>a. configs \in [Live -> QueryLogConfigs]
  BY DEF TypeInv, TypeOK
<1>1. ASSUME configs' = configs PROVE StatusMoves
  BY <1>1, SameStatus DEF StatusOf, Live
<1>2. ASSUME Live' = Live, \A c \in Live : configs'[c].assoc = configs[c].assoc
      PROVE  StatusMoves
  BY <1>2, SameStatus DEF StatusOf
<1>3. CASE TagResource \/ UntagResource \/ DeleteResolverQueryLogConfig
  BY <1>a, <1>2, <1>3 DEF TagResource, UntagResource,
     DeleteResolverQueryLogConfig, Live, QueryLogConfigs
<1>4. CASE CreateResolverQueryLogConfig \/ CreateLost
  <2>1. PICK i \in FreshConfigs : Creates(i)
    BY <1>4 DEF CreateResolverQueryLogConfig, CreateLost
  <2>2. /\ i \notin Live /\ Live' = Live \cup {i}
        /\ \A c \in Live : configs'[c] = configs[c]
    BY <2>1, CreateType
  <2>3. configs'[i].assoc = "NONE"
    BY <2>1, <2>2 DEF Creates
  <2> QED BY <2>2, <2>3, SameStatus DEF StatusOf
<1>5. ASSUME NEW c \in Live, ConfigSettles(c) PROVE StatusMoves
  <2>1. CASE configs' = Without(c)
    <3>1. /\ StatusOf(c)' = "NONE"
          /\ \A d \in ConfigIds \ {c} : StatusOf(d)' = StatusOf(d)
      BY <2>1 DEF Without, StatusOf, Live
    <3> QED BY <3>1 DEF StatusMoves, Allowed, Born
  <2>2. ASSUME NEW s \in {"CREATED", "FAILED"},
               configs' = [configs EXCEPT ![c].status = s]
        PROVE  StatusMoves
    BY <1>a, <1>2, <2>2 DEF Live, QueryLogConfigs
  <2> QED BY <1>5, <2>1, <2>2 DEF ConfigSettles
<1>6. ASSUME NEW c \in Live, TaggedByOthers(c) \/ DeletedByOthers(c)
      PROVE  StatusMoves
  BY <1>a, <1>2, <1>6 DEF TaggedByOthers, DeletedByOthers, Live, QueryLogConfigs
<1>7. ASSUME NEW c \in Live, AssociationSettles(c) \/ AssociatedByOthers(c)
      PROVE  StatusMoves
  <2>1. PICK s \in AssociationStatus :
          configs' = Moved(c, s) /\ Allowed(configs[c].assoc, s)
    BY <1>7 DEF AssociationSettles, AssociatedByOthers, Moved, Allowed,
                AssociationStatus
  <2> QED BY <2>1, OneMove
<1> QED
  BY <1>1, <1>3, <1>4, <1>5, <1>6, <1>7
     DEF Next, vars, User, Aws, Others, Controller, EditTags, DeleteResource,
         StartReconcile, Resync, FindNothing, GetResolverQueryLogConfig, getTags,
         MarkManaged, TerminallyRefused, CallRefused, CallFails, PatchStatus,
         MarkUnmanaged, Restart, Finished

\* The calls of the association's own controller, and removals by others.
LEMMA CallMoves ==
  ASSUME TypeInv,
         \/ Associates \/ DeleteTheAssociation
         \/ \E c \in Live : DisassociatedByOthers(c)
  PROVE  StatusMoves
<1>1. PICK c \in Live, s \in AssociationStatus :
        configs' = Moved(c, s) /\ Allowed(configs[c].assoc, s)
  BY DEF Associates, DeleteTheAssociation, DisassociatedByOthers, StatusOf,
         Moved, Allowed, AssociationStatus
<1> QED BY <1>1, OneMove

\* What is known of an association stays so: another one never gets its id, and
\* removals are not undone.
KeepsKnown ==
  \A c \in ConfigIds, i \in {acr.id, actl.id} : i # NoId /\ assocId'[c] = i =>
    /\ assocId[c] = i
    /\ StatusOf(c) = "DELETING" => StatusOf(c)' = "DELETING"
    /\ StatusOf(c) \in {"ACTIVE", "DELETING"} =>
         StatusOf(c)' \in {"ACTIVE", "DELETING"}

LEMMA FreshAssociationIsFresh ==
  ASSUME AssociationTypes, Identified, NEW c \in ConfigIds, assocId[c] = NoId
  PROVE  /\ FreshAssociation \in AssocIds
         /\ FreshAssociation # acr.id /\ FreshAssociation # actl.id
         /\ \A d \in ConfigIds : assocId[d] # FreshAssociation
<1>1. acr.id \in AssocIds \cup {NoId} /\ actl.id \in AssocIds \cup {NoId}
  BY DEF AssociationTypes, AssociationObjects, AssociationReconciles
<1>2. assocId \in [ConfigIds -> AssocIds \cup {NoId}]
  BY DEF Identified
<1>3. \E k \in AssocIds \ {acr.id, actl.id} : \A d \in ConfigIds : assocId[d] # k
  <2>1. \E d \in ConfigIds : assocId[d] = NoId
    OBVIOUS
  <2>2. \A i, j \in AssocIds \cup {NoId} :
          (\E d \in ConfigIds : assocId[d] = NoId) =>
            \E k \in AssocIds \ {i, j} : \A d \in ConfigIds : assocId[d] # k
    BY <1>2, FreshAssociationAssumption
  <2>3. \A i, j \in AssocIds \cup {NoId} :
          \E k \in AssocIds \ {i, j} : \A d \in ConfigIds : assocId[d] # k
    BY <2>1, <2>2
  <2> QED BY <1>1, <2>3
<1>4. \E k \in AssocIds : k \notin LiveAssociations \cup {acr.id, actl.id}
  BY <1>3 DEF LiveAssociations
<1>5. /\ FreshAssociation \in AssocIds
      /\ FreshAssociation \notin LiveAssociations \cup {acr.id, actl.id}
  BY <1>4 DEF FreshAssociation
<1>6. FreshAssociation # NoId
  BY <1>5, QueryLogAssociationAssumption
<1> QED BY <1>5, <1>6 DEF LiveAssociations

LEMMA IdsStep ==
  ASSUME AssociationTypes, Identified, StatusMoves, TrackIds
  PROVE  Identified' /\ KeepsKnown
<1>1. ASSUME NEW c \in ConfigIds
      PROVE  /\ assocId'[c] \in AssocIds \cup {NoId}
             /\ assocId'[c] = IF StatusOf(c)' = "NONE" THEN NoId
                              ELSE IF assocId[c] # NoId THEN assocId[c]
                              ELSE FreshAssociation
             /\ assocId[c] \in AssocIds \cup {NoId}
             /\ assocId[c] = NoId <=> StatusOf(c) = "NONE"
  <2>1. assocId'[c] = IF StatusOf(c)' = "NONE" THEN NoId
                      ELSE IF assocId[c] # NoId THEN assocId[c]
                      ELSE FreshAssociation
    BY DEF TrackIds, StatusOf, Live
  <2>2. assocId[c] = NoId => FreshAssociation \in AssocIds
    BY FreshAssociationIsFresh
  <2> QED BY <2>1, <2>2 DEF Identified
<1>2. assocId' \in [ConfigIds -> AssocIds \cup {NoId}]
  <2>1. assocId' = [c \in ConfigIds |-> assocId'[c]]
    BY DEF TrackIds
  <2>2. \A c \in ConfigIds : assocId'[c] \in AssocIds \cup {NoId}
    BY <1>1
  <2> QED BY <2>1, <2>2
<1>3. ASSUME NEW c \in ConfigIds
      PROVE  /\ assocId'[c] = NoId <=> StatusOf(c)' = "NONE"
             /\ assocId'[c] # NoId /\ assocId'[c] # assocId[c] =>
                  /\ Born(c) /\ assocId'[c] = FreshAssociation
                  /\ assocId[c] = NoId
  <2>1. assocId[c] = NoId => FreshAssociation \in AssocIds
    BY FreshAssociationIsFresh
  <2> QED BY <1>1, <2>1, QueryLogAssociationAssumption DEF Born
<1>4. ASSUME NEW c \in ConfigIds, NEW d \in ConfigIds \ {c},
             assocId'[c] = assocId'[d], assocId'[c] # NoId
      PROVE  FALSE
  <2>1. assocId[c] = assocId[d] => assocId[c] = NoId
    BY DEF Identified
  <2>2. ~(Born(c) /\ Born(d))
    BY DEF StatusMoves
  <2>3. assocId[c] = NoId => assocId[d] # FreshAssociation
    BY FreshAssociationIsFresh
  <2>4. assocId[d] = NoId => assocId[c] # FreshAssociation
    BY FreshAssociationIsFresh
  <2> QED BY <1>3, <1>4, <2>1, <2>2, <2>3, <2>4
<1>5. Identified'
  BY <1>2, <1>3, <1>4 DEF Identified
<1>6. ASSUME NEW c \in ConfigIds, NEW i \in {acr.id, actl.id}, i # NoId,
             assocId'[c] = i
      PROVE  /\ assocId[c] = i
             /\ StatusOf(c) = "DELETING" => StatusOf(c)' = "DELETING"
             /\ StatusOf(c) \in {"ACTIVE", "DELETING"} =>
                  StatusOf(c)' \in {"ACTIVE", "DELETING"}
  <2>1. assocId[c] = NoId => FreshAssociation # i
    BY <1>6, FreshAssociationIsFresh
  <2>2. Allowed(StatusOf(c), StatusOf(c)')
    BY DEF StatusMoves
  <2> QED BY <1>3, <1>6, <2>1, <2>2 DEF Allowed
<1> QED BY <1>5, <1>6 DEF KeepsKnown
-----------------------------------------------------------------------------
(* The association's reconcile, step by step *)

Told == Course /\ AssociationFound /\ KnownAssociationIsGuarded /\ HonestObject

LEMMA RecordTypes ==
  ASSUME AssociationTypes
  PROVE  /\ AIdle \in AssociationReconciles /\ AIdle.pc = "idle"
         /\ AIdle.mode = "sync" /\ AIdle.id = NoId /\ AIdle.end = "unsynced"
         /\ AGone \in AssociationObjects /\ AGone.phase = "gone"
         /\ AGone.finalizer = FALSE /\ AGone.id = acr.id
<1>1. AnyAssociationSpec \in AssociationSpecs /\ acr.id \in AssocIds \cup {NoId}
  BY DEF AssociationTypes, AssociationObjects, AnyAssociationSpec
<1>2. AIdle \in AssociationReconciles
  BY <1>1 DEF AIdle, AssociationReconciles
<1>3. AGone \in AssociationObjects
  BY <1>1 DEF AGone, AssociationObjects
<1> QED BY <1>2, <1>3 DEF AIdle, AGone

LEMMA StillIsKept ==
  ASSUME Identified, UNCHANGED <<configs, assocId>>
  PROVE  /\ Identified' /\ KeepsKnown
         /\ \A c \in ConfigIds : StatusOf(c)' = StatusOf(c)
BY DEF StatusOf, Live, Identified, KeepsKnown

\* The other parties leave all that is known as it is.
LEMMA OthersTell ==
  ASSUME AssociationInv, KeepsKnown, UNCHANGED <<acr, aqueued, actl>>
  PROVE  Told'
<1>1. Course'
  BY DEF AssociationInv, Course, AExists
<1>2. AssociationFound'
  BY DEF AssociationInv, AssociationFound, HasId, KeepsKnown
<1>3. KnownAssociationIsGuarded'
  BY DEF AssociationInv, KnownAssociationIsGuarded, KeepsKnown, AExists
<1>4. HonestObject'
  BY DEF AssociationInv, HonestObject, HasId, KeepsKnown
<1> QED BY <1>1, <1>2, <1>3, <1>4 DEF Told

\* What the steps of a reconcile need of the types.
LEMMA AssociationFacts ==
  ASSUME AssociationInv
  PROVE  /\ AssociationTypes /\ Identified /\ Course /\ TypeInv
         /\ acr \in AssociationObjects /\ actl \in AssociationReconciles
         /\ acr.phase \in {"live", "deleting", "gone"} /\ acr.finalizer \in BOOLEAN
         /\ acr.spec \in AssociationSpecs /\ actl.spec \in AssociationSpecs
         /\ acr.synced \in BOOLEAN
         /\ acr.id \in AssocIds \cup {NoId} /\ actl.id \in AssocIds \cup {NoId}
         /\ aqueued \in QueueStates /\ vpcReady \in BOOLEAN
         /\ aedits \in 0..MaxAssociationEdits /\ MaxAssociationEdits \in Nat
         /\ NoId \notin AssocIds /\ NoId \notin ConfigIds /\ Vpc # NoVpc
         /\ AssociationSpecs \subseteq FullAssociationSpecs
BY QueryLogAssociationAssumption, ConfigIdsAssumption
   DEF AssociationInv, AssociationTypes, AssociationObjects,
       AssociationReconciles, HonestInv, Bound

\* A reconcile that ends without a word of success.
LEMMA EndTells ==
  ASSUME AssociationInv, KeepsKnown, actl' = AIdle, aqueued' # "later",
         acr'.id = acr.id, acr'.phase = acr.phase,
         acr'.finalizer = acr.finalizer
  PROVE  Told'
<1>a. AIdle.pc = "idle" /\ AIdle.id = NoId
  BY DEF AIdle
<1>1. Course' /\ AssociationFound'
  BY <1>a DEF Course, AssociationFound, HasId
<1>2. KnownAssociationIsGuarded'
  BY <1>a DEF AssociationInv, KnownAssociationIsGuarded, KeepsKnown, AExists
<1>3. HonestObject'
  BY DEF HonestObject
<1> QED BY <1>1, <1>2, <1>3 DEF Told

\* An error, terminal or not, is such an end.
LEMMA ErrorTells ==
  ASSUME AssociationInv, KeepsKnown, actl.pc # "idle", AError \/ ATerminal
  PROVE  /\ Told' /\ acr' \in AssociationObjects
         /\ actl' \in AssociationReconciles /\ aqueued' \in QueueStates
<1>1. /\ acr' \in AssociationObjects /\ acr'.id = acr.id
      /\ acr'.phase = acr.phase /\ acr'.finalizer = acr.finalizer
  <2>1. CASE acr' = acr
    BY <2>1, AssociationFacts
  <2>2. CASE acr' # acr
    <3>1. PICK s \in BOOLEAN, t \in BOOLEAN :
            acr' = [acr EXCEPT !.synced = s, !.terminal = t]
      <4>1. CASE AError
        BY <2>2, <4>1, AssociationFacts DEF AError, PatchedConditions
      <4>2. CASE ATerminal
        <5>1. (actl.mode = "sync" \/ acr.synced) \in BOOLEAN
          OBVIOUS
        <5> QED BY <2>2, <4>2, <5>1 DEF ATerminal, PatchedConditions
      <4> QED BY <4>1, <4>2
    <3> QED BY <3>1, AssociationFacts DEF AssociationObjects
  <2> QED BY <2>1, <2>2
<1>2. actl' = AIdle /\ aqueued' # "later" /\ aqueued' \in QueueStates
  BY AssociationFacts DEF AError, ATerminal, Course, QueueStates
<1> QED BY <1>1, <1>2, AssociationFacts, RecordTypes, EndTells

\* A reconcile that goes on without a word of success, about the association
\* that it or the object knows.
LEMMA GoingOnTells ==
  ASSUME AssociationInv, KeepsKnown, actl'.pc # "idle",
         actl'.id \in {acr.id, actl.id}, acr'.id = acr.id,
         AExists /\ acr.finalizer => AExists' /\ acr'.finalizer
  PROVE  KnownAssociationIsGuarded' /\ HonestObject'
<1>1. HonestObject'
  BY DEF HonestObject
<1>2. KnownAssociationIsGuarded'
  BY DEF AssociationInv, KnownAssociationIsGuarded, KeepsKnown
<1> QED BY <1>1, <1>2

LEMMA UsersTell ==
  ASSUME AssociationInv, EditAssociation \/ DeleteAssociation
  PROVE  Identified' /\ AssociationTypes' /\ Told'
<1>a. /\ AssociationTypes /\ acr \in AssociationObjects /\ acr.phase = "live"
      /\ UNCHANGED <<configs, assocId, actl, vpcReady>> /\ aqueued' = "now"
      /\ aedits' \in 0..MaxAssociationEdits
  BY AssociationFacts DEF EditAssociation, DeleteAssociation, configVars
<1>b. /\ Identified' /\ KeepsKnown
      /\ \A c \in ConfigIds : StatusOf(c)' = StatusOf(c)
  BY <1>a, AssociationFacts, StillIsKept
<1>1. /\ acr' \in AssociationObjects /\ acr'.id = acr.id
      /\ AExists /\ acr.finalizer => AExists' /\ acr'.finalizer
  <2>1. CASE EditAssociation
    <3>1. PICK s \in AssociationSpecs : acr' = [acr EXCEPT !.spec = s]
      BY <2>1 DEF EditAssociation
    <3> QED BY <1>a, <3>1 DEF AssociationObjects, AExists
  <2>2. CASE DeleteAssociation /\ acr.finalizer
    <3>1. acr' = [acr EXCEPT !.phase = "deleting"]
      BY <2>2 DEF DeleteAssociation
    <3> QED BY <1>a, <3>1 DEF AssociationObjects, AExists
  <2>3. CASE DeleteAssociation /\ ~acr.finalizer
    <3>1. acr' = AGone
      BY <2>3 DEF DeleteAssociation
    <3> QED BY <1>a, <2>3, <3>1, RecordTypes
  <2> QED BY <2>1, <2>2, <2>3
<1>2. AssociationTypes'
  BY <1>a, <1>1 DEF AssociationTypes, QueueStates
<1>3. Course'
  BY <1>a, <1>1 DEF AssociationInv, Course
<1>4. AssociationFound'
  BY <1>a, <1>b DEF AssociationInv, AssociationFound, HasId
<1>5. KnownAssociationIsGuarded'
  BY <1>a, <1>b, <1>1 DEF AssociationInv, KnownAssociationIsGuarded
<1>6. HonestObject'
  BY <1>a DEF HonestObject
<1> QED BY <1>b, <1>2, <1>3, <1>4, <1>5, <1>6 DEF Told

LEMMA StartTells ==
  ASSUME AssociationInv, AStart \/ AResync
  PROVE  Identified' /\ AssociationTypes' /\ Told'
<1>a. /\ AssociationTypes /\ actl.pc = "idle" /\ acr' = acr
      /\ UNCHANGED <<configs, assocId, vpcReady, aedits>>
  BY AssociationFacts DEF AStart, AResync, configVars
<1>b. Identified' /\ KeepsKnown
  BY <1>a, AssociationFacts, StillIsKept
<1>1. CASE AResync
  <2>1. actl' = actl /\ aqueued' = "now"
    BY <1>1 DEF AResync
  <2>2. AssociationTypes' /\ Course' /\ HonestObject'
    BY <1>a, <2>1 DEF AssociationInv, AssociationTypes, Course, HonestObject,
                      QueueStates, AExists
  <2>3. AssociationFound'
    BY <1>a, <1>b, <2>1 DEF AssociationFound
  <2>4. KnownAssociationIsGuarded'
    BY <1>a, <1>b, <2>1
       DEF AssociationInv, KnownAssociationIsGuarded, KeepsKnown, AExists
  <2> QED BY <1>b, <2>2, <2>3, <2>4 DEF Told
<1>2. CASE AStart /\ actl' = AIdle
  <2>1. aqueued' = "never"
    BY <1>2 DEF AStart
  <2> QED
    BY <1>a, <1>b, <1>2, <2>1, RecordTypes, EndTells
       DEF AssociationTypes, QueueStates
<1>3. CASE AStart /\ actl' # AIdle
  <2>1. /\ actl' \in AssociationReconciles /\ actl'.id = acr.id
        /\ actl'.spec = acr.spec /\ actl'.end = "unsynced"
        /\ \/ actl'.pc = "resolve" /\ actl'.mode = "sync"
           \/ actl'.pc = "find" /\ actl'.mode = "delete"
    <3>1. CASE acr.phase = "live"
      <4>1. actl' = [AIdle EXCEPT !.pc = "resolve", !.spec = acr.spec,
                                  !.id = acr.id]
        BY <1>3, <3>1 DEF AStart
      <4> QED BY <1>a, <4>1, RecordTypes, AssociationFacts
                 DEF AssociationReconciles
    <3>2. CASE acr.phase = "deleting"
      <4>1. actl' = [AIdle EXCEPT !.pc = "find", !.mode = "delete",
                                  !.spec = acr.spec, !.id = acr.id]
        BY <1>3, <3>2 DEF AStart
      <4> QED BY <1>a, <4>1, RecordTypes, AssociationFacts
                 DEF AssociationReconciles
    <3>3. acr.phase # "gone"
      BY <1>3 DEF AStart
    <3> QED BY <3>1, <3>2, <3>3, AssociationFacts
  <2>2. aqueued' = "never"
    BY <1>3 DEF AStart
  <2>3. AssociationTypes' /\ Course' /\ AssociationFound'
    BY <1>a, <2>1, <2>2 DEF AssociationTypes, QueueStates, Course,
                            AssociationFound
  <2>4. KnownAssociationIsGuarded' /\ HonestObject'
    BY <1>a, <1>b, <2>1, GoingOnTells DEF AExists
  <2> QED BY <1>b, <2>3, <2>4 DEF Told
<1> QED BY <1>1, <1>2, <1>3

\* A configuration that resolves is known, and is what the spec asks for.
LEMMA ResolveTells ==
  ASSUME AssociationInv, ResolveReferences
  PROVE  Identified' /\ AssociationTypes' /\ Told'
<1>a. /\ actl.pc = "resolve" /\ UNCHANGED <<configs, assocId, vpcReady, aedits>>
      /\ actl.mode = "sync" /\ actl.id = acr.id /\ actl.end = "unsynced"
      /\ aqueued # "later"
  BY AssociationFacts DEF ResolveReferences, configVars, Course
<1>b. Identified' /\ KeepsKnown
  BY <1>a, AssociationFacts, StillIsKept
<1>1. CASE AError
  BY <1>a, <1>b, <1>1, ErrorTells, AssociationFacts DEF AssociationTypes
<1>2. CASE ~AError
  <2>1. Resolvable(actl.spec) /\ UNCHANGED <<acr, aqueued>>
    BY <1>2 DEF ResolveReferences
  <2> DEFINE config == IF actl.spec.configRef THEN cr.id ELSE actl.spec.configId
  <2>2. actl' = [actl EXCEPT !.pc = "find", !.config = config, !.vpc = Vpc]
    BY <1>2 DEF ResolveReferences
  <2>3. config \in ConfigIds /\ actl.spec.configId \in {NoId, config}
    <3>1. /\ actl.spec.configRef \in BOOLEAN
          /\ actl.spec.configId \in ConfigIds \cup {NoId}
      BY AssociationFacts DEF FullAssociationSpecs
    <3>2. cr.id \in ConfigIds \cup {NoId}
      BY AssociationFacts DEF TypeInv, TypeOK, Objects
    <3>3. /\ actl.spec.configRef <=> actl.spec.configId = NoId
          /\ actl.spec.configRef => cr.id # NoId
      BY <2>1, <3>1
         DEF Resolvable, validateReferenceFields, ReferencedConfigReady
    <3> QED BY <3>1, <3>2, <3>3
  <2> HIDE DEF config
  <2>4. /\ actl' \in AssociationReconciles /\ actl'.pc = "find"
        /\ actl'.mode = "sync" /\ actl'.id = actl.id
        /\ actl'.spec = actl.spec /\ actl'.end = "unsynced"
        /\ actl'.config = config /\ actl'.vpc = Vpc
    BY <1>a, <2>2, <2>3, AssociationFacts DEF AssociationReconciles
  <2>5. AssociationTypes'
    BY <1>a, <2>1, <2>4, AssociationFacts DEF AssociationTypes
  <2>6. Course'
    BY <1>a, <2>1, <2>3, <2>4, AssociationFacts DEF Course, AExists
  <2>7. AssociationFound'
    BY <2>4 DEF AssociationFound
  <2>8. KnownAssociationIsGuarded' /\ HonestObject'
    BY <1>b, <2>1, <2>4, GoingOnTells DEF AExists
  <2> QED BY <1>b, <2>5, <2>6, <2>7, <2>8 DEF Told
<1> QED BY <1>1, <1>2

\* What was found is compared with, or removed, where it was found.
LEMMA FindTells ==
  ASSUME AssociationInv, FindNoAssociation \/ FindAssociation
  PROVE  Identified' /\ AssociationTypes' /\ Told'
<1>a. /\ actl.pc = "find" /\ UNCHANGED <<configs, assocId, vpcReady, aedits>>
      /\ actl.id = acr.id /\ actl.end = "unsynced" /\ aqueued # "later"
      /\ actl.mode \in {"sync", "delete"}
  BY AssociationFacts DEF FindNoAssociation, FindAssociation, configVars, Course,
                          AssociationReconciles
<1>b. /\ Identified' /\ KeepsKnown
      /\ \A c \in ConfigIds : StatusOf(c)' = StatusOf(c)
  BY <1>a, AssociationFacts, StillIsKept
<1>c. /\ actl.mode = "sync" => /\ actl.config \in ConfigIds /\ actl.vpc = Vpc
                               /\ actl.spec.configId \in {NoId, actl.config}
      /\ aqueued = "never" /\ acr.phase = "live" => actl.spec = acr.spec
  BY <1>a, AssociationFacts DEF Course
<1>1. CASE FindNoAssociation
  <2>1. /\ actl' \in AssociationReconciles /\ actl'.id = actl.id
        /\ actl'.mode = actl.mode /\ actl'.spec = actl.spec
        /\ actl'.config = actl.config /\ actl'.vpc = actl.vpc
        /\ actl'.end = "unsynced" /\ UNCHANGED <<acr, aqueued>>
        /\ \/ actl'.pc = "unmanage" /\ actl.mode = "delete"
           \/ actl'.pc = "manage" /\ actl.mode = "sync"
    BY <1>a, <1>1, AssociationFacts DEF FindNoAssociation, AssociationReconciles
  <2>2. AssociationTypes' /\ Course'
    BY <1>a, <1>c, <2>1, AssociationFacts DEF AssociationTypes, Course, AExists
  <2>3. \A c \in ConfigIds : ~HasId(c, actl.id)
    BY <1>1 DEF FindNoAssociation, HasId, LiveAssociations
  <2>4. AssociationFound'
    BY <1>a, <2>1, <2>3 DEF AssociationFound, HasId
  <2>5. KnownAssociationIsGuarded' /\ HonestObject'
    BY <1>a, <1>b, <2>1, GoingOnTells DEF AExists
  <2> QED BY <1>b, <2>2, <2>4, <2>5 DEF Told
<1>2. CASE FindAssociation
  <2> DEFINE found == ConfigOf(actl.id)
  <2>1. /\ found \in ConfigIds
        /\ \A c \in ConfigIds : HasId(c, actl.id) => c = found
    <3>1. actl.id # NoId /\ \E c \in ConfigIds : assocId[c] = actl.id
      BY <1>2 DEF FindAssociation, LiveAssociations
    <3>2. found \in ConfigIds /\ assocId[found] = actl.id
      BY <3>1 DEF ConfigOf
    <3> QED BY <3>1, <3>2, AssociationFacts DEF Identified, HasId
  <2>2. \/ actl.mode = "sync" /\ ATerminal
        \/ /\ actl.mode = "sync" /\ actl.config = found
           /\ actl' = [actl EXCEPT !.pc = "patch",
                !.end = IF AssociationIsSynced(StatusOf(found))
                        THEN "synced" ELSE "unsynced"]
           /\ UNCHANGED <<acr, aqueued>>
        \/ /\ actl.mode = "delete" /\ UNCHANGED <<acr, aqueued>>
           /\ actl' = [actl EXCEPT !.pc = "delete", !.config = found,
                                   !.vpc = Vpc]
    BY <1>2 DEF FindAssociation, AssociationDiffers
  <2> HIDE DEF found
  <2>3. CASE ATerminal
    BY <1>a, <1>b, <2>3, ErrorTells, AssociationFacts DEF AssociationTypes
  <2>4. CASE /\ actl.mode = "sync" /\ actl.config = found
             /\ actl' = [actl EXCEPT !.pc = "patch",
                  !.end = IF AssociationIsSynced(StatusOf(found))
                          THEN "synced" ELSE "unsynced"]
             /\ UNCHANGED <<acr, aqueued>>
    <3>1. /\ actl' \in AssociationReconciles /\ actl'.id = actl.id
          /\ actl'.mode = "sync" /\ actl'.spec = actl.spec
          /\ actl'.config = actl.config /\ actl'.vpc = actl.vpc
          /\ actl'.pc = "patch"
          /\ actl'.end = "synced" => StatusOf(found) = "ACTIVE"
      BY <2>4, AssociationFacts DEF AssociationReconciles, AssociationIsSynced
    <3>2. AssociationTypes' /\ Course'
      BY <1>a, <1>c, <2>4, <3>1, AssociationFacts
         DEF AssociationTypes, Course, AExists
    <3>3. AssociationFound'
      BY <1>a, <1>b, <2>1, <2>4, <3>1 DEF AssociationFound, HasId
    <3>4. KnownAssociationIsGuarded' /\ HonestObject'
      BY <1>a, <1>b, <2>4, <3>1, GoingOnTells DEF AExists
    <3> QED BY <1>b, <3>2, <3>3, <3>4 DEF Told
  <2>5. CASE /\ actl.mode = "delete" /\ UNCHANGED <<acr, aqueued>>
             /\ actl' = [actl EXCEPT !.pc = "delete", !.config = found,
                                     !.vpc = Vpc]
    <3>1. /\ actl' \in AssociationReconciles /\ actl'.id = actl.id
          /\ actl'.mode = "delete" /\ actl'.spec = actl.spec
          /\ actl'.config = found /\ actl'.vpc = Vpc
          /\ actl'.pc = "delete" /\ actl'.end = "unsynced"
      BY <1>a, <2>1, <2>5, AssociationFacts DEF AssociationReconciles
    <3>2. AssociationTypes' /\ Course'
      BY <1>a, <1>c, <2>1, <2>5, <3>1, AssociationFacts
         DEF AssociationTypes, Course, AExists
    <3>3. AssociationFound'
      BY <1>a, <2>1, <3>1 DEF AssociationFound, HasId
    <3>4. KnownAssociationIsGuarded' /\ HonestObject'
      BY <1>a, <1>b, <2>5, <3>1, GoingOnTells DEF AExists
    <3> QED BY <1>b, <3>2, <3>3, <3>4 DEF Told
  <2> QED BY <2>2, <2>3, <2>4, <2>5
<1> QED BY <1>1, <1>2

LEMMA ManageTells ==
  ASSUME AssociationInv, ManageAssociation
  PROVE  Identified' /\ AssociationTypes' /\ Told'
<1>a. /\ actl.pc = "manage" /\ UNCHANGED <<configs, assocId, vpcReady, aedits>>
      /\ actl.mode = "sync" /\ actl.id = acr.id /\ actl.end = "unsynced"
      /\ aqueued # "later" /\ actl.config \in ConfigIds /\ actl.vpc = Vpc
      /\ actl.spec.configId \in {NoId, actl.config}
      /\ aqueued = "never" /\ acr.phase = "live" => actl.spec = acr.spec
  BY AssociationFacts DEF ManageAssociation, configVars, Course
<1>b. Identified' /\ KeepsKnown
  BY <1>a, AssociationFacts, StillIsKept
<1>1. CASE AError
  BY <1>a, <1>b, <1>1, ErrorTells, AssociationFacts DEF AssociationTypes
<1>2. CASE ~AError
  <2>1. /\ AExists /\ acr' = [acr EXCEPT !.finalizer = TRUE]
        /\ actl' = [actl EXCEPT !.pc = "create"] /\ aqueued' = aqueued
    BY <1>2 DEF ManageAssociation
  <2>2. /\ acr' \in AssociationObjects /\ acr'.finalizer = TRUE
        /\ acr'.id = acr.id /\ acr'.phase = acr.phase /\ acr'.spec = acr.spec
    BY <2>1, AssociationFacts DEF AssociationObjects
  <2>3. /\ actl' \in AssociationReconciles /\ actl'.pc = "create"
        /\ actl'.mode = "sync" /\ actl'.id = actl.id /\ actl'.spec = actl.spec
        /\ actl'.end = "unsynced" /\ actl'.config = actl.config
        /\ actl'.vpc = actl.vpc
    BY <1>a, <2>1, AssociationFacts DEF AssociationReconciles
  <2>4. AssociationTypes' /\ Course'
    BY <1>a, <2>1, <2>2, <2>3, AssociationFacts
       DEF AssociationTypes, Course, AExists
  <2>5. AssociationFound'
    BY <2>3 DEF AssociationFound
  <2>6. KnownAssociationIsGuarded' /\ HonestObject'
    BY <1>b, <2>1, <2>2, <2>3, GoingOnTells DEF AExists
  <2> QED BY <1>b, <2>4, <2>5, <2>6 DEF Told
<1> QED BY <1>1, <1>2

\* The calls that make an association, for an object with its finalizer, and
\* that remove one, which is the one that was found.
LEMMA CallTells ==
  ASSUME AssociationInv,
         CreateAssociation \/ CreateAssociationLost \/ DeleteTheAssociation
  PROVE  Identified' /\ AssociationTypes' /\ Told'
<1>a. /\ actl.pc \in {"create", "delete"} /\ TrackIds
      /\ UNCHANGED <<vpcReady, aedits>>
      /\ Associates \/ DeleteTheAssociation
  BY DEF CreateAssociation, CreateAssociationLost, DeleteTheAssociation,
         Associates
<1>b. /\ actl.id = acr.id /\ actl.end = "unsynced" /\ aqueued # "later"
      /\ actl.config \in ConfigIds /\ actl.vpc = Vpc
      /\ actl.pc = "create" => /\ actl.mode = "sync" /\ AExists /\ acr.finalizer
                               /\ actl.spec.configId \in {NoId, actl.config}
      /\ aqueued = "never" /\ acr.phase = "live" => actl.spec = acr.spec
  BY <1>a, AssociationFacts DEF Course
<1>c. Identified' /\ KeepsKnown
  BY <1>a, CallMoves, AssociationFacts, IdsStep
<1>1. CASE CreateAssociation
  <2>1. FreshAssociation \in AssocIds
    <3>1. assocId[actl.config] = NoId
      BY <1>b, <1>1, AssociationFacts
         DEF CreateAssociation, Associates, Identified
    <3> QED BY <1>b, <3>1, AssociationFacts, FreshAssociationIsFresh
  <2>2. /\ actl' \in AssociationReconciles /\ actl'.pc = "patch"
        /\ actl'.mode = "sync" /\ actl'.spec = actl.spec
        /\ actl'.end = "unsynced" /\ actl'.config = actl.config
        /\ actl'.vpc = actl.vpc /\ UNCHANGED <<acr, aqueued>>
        /\ actl.pc = "create"
    BY <1>b, <1>1, <2>1, AssociationFacts
       DEF CreateAssociation, Associates, AssociationReconciles
  <2>3. AssociationTypes' /\ Course'
    BY <1>a, <1>b, <2>2, AssociationFacts DEF AssociationTypes, Course, AExists
  <2>4. AssociationFound'
    BY <2>2 DEF AssociationFound
  <2>5. KnownAssociationIsGuarded' /\ HonestObject'
    BY <1>b, <2>2 DEF KnownAssociationIsGuarded, HonestObject, AExists
  <2> QED BY <1>c, <2>3, <2>4, <2>5 DEF Told
<1>2. CASE CreateAssociationLost
  BY <1>a, <1>c, <1>2, ErrorTells, AssociationFacts
     DEF CreateAssociationLost, AssociationTypes
<1>3. CASE DeleteTheAssociation
  <2>1. /\ actl' \in AssociationReconciles /\ actl'.pc = "unmanage"
        /\ actl'.id = actl.id /\ actl'.mode = actl.mode
        /\ actl'.spec = actl.spec /\ actl'.end = "unsynced"
        /\ UNCHANGED <<acr, aqueued>> /\ actl.pc = "delete"
        /\ actl.config \in Live
        /\ configs' = Moved(actl.config, "DELETING")
    BY <1>b, <1>3, AssociationFacts
       DEF DeleteTheAssociation, AssociationReconciles, StatusOf, Moved
  <2>2. AssociationTypes' /\ Course'
    BY <1>a, <1>b, <2>1, AssociationFacts DEF AssociationTypes, Course, AExists
  <2>3. AssociationFound'
    <3> SUFFICES ASSUME NEW c \in ConfigIds, HasId(c, actl.id)'
                 PROVE  StatusOf(c)' = "DELETING"
      BY <2>1 DEF AssociationFound
    <3>1. HasId(c, actl.id)
      BY <1>c, <2>1 DEF HasId, KeepsKnown
    <3>2. c = actl.config
      BY <2>1, <3>1 DEF AssociationInv, AssociationFound
    <3>3. Live' = Live /\ configs'[actl.config].assoc = "DELETING"
      BY <2>1, MovedType, AssociationFacts DEF AssociationStatus
    <3> QED BY <2>1, <3>2, <3>3 DEF StatusOf
  <2>4. KnownAssociationIsGuarded' /\ HonestObject'
    BY <1>c, <2>1, GoingOnTells DEF AExists
  <2> QED BY <1>c, <2>2, <2>3, <2>4 DEF Told
<1> QED BY <1>1, <1>2, <1>3

\* The patch that ends an operation: what it reports as synced was found where
\* the spec asks for it, and the queue tells of any edit since.
LEMMA PatchTells ==
  ASSUME AssociationInv, PatchAssociationStatus
  PROVE  Identified' /\ AssociationTypes' /\ Told'
<1>a. /\ actl.pc = "patch" /\ UNCHANGED <<configs, assocId, vpcReady, aedits>>
      /\ actl' = AIdle /\ actl.mode = "sync" /\ aqueued # "later"
      /\ aqueued' = IF aqueued = "now" THEN "now" ELSE "later"
      /\ actl.spec.configId \in {NoId, actl.config}
      /\ aqueued = "never" /\ acr.phase = "live" => actl.spec = acr.spec
  BY AssociationFacts DEF PatchAssociationStatus, configVars, Course
<1>b. /\ Identified' /\ \A c \in ConfigIds : StatusOf(c)' = StatusOf(c)
  BY <1>a, AssociationFacts, StillIsKept
<1>1. /\ acr' \in AssociationObjects /\ acr'.phase = acr.phase
      /\ acr'.finalizer = acr.finalizer /\ acr'.spec = acr.spec
      /\ AExists => acr'.id = actl.id /\ acr'.synced = (actl.end = "synced")
      /\ ~AExists => acr' = acr
  BY AssociationFacts DEF PatchAssociationStatus, AssociationObjects
<1>2. AssociationTypes' /\ Course' /\ AssociationFound'
  BY <1>a, <1>1, RecordTypes, AssociationFacts
     DEF AssociationTypes, QueueStates, Course, AssociationFound, HasId
<1>3. KnownAssociationIsGuarded'
  BY <1>a, <1>b, <1>1, RecordTypes, AssociationFacts
     DEF AssociationInv, KnownAssociationIsGuarded, AExists
<1>4. HonestObject'
  <2> SUFFICES ASSUME acr'.phase = "live", acr'.synced, aqueued' = "later",
                      NEW c \in ConfigIds, HasId(c, acr.id)'
               PROVE  /\ acr'.spec.configId \in {NoId, c}
                      /\ StatusOf(c)' \in {"ACTIVE", "DELETING"}
    BY DEF HonestObject
  <2>1. AExists /\ aqueued = "never"
    BY <1>a, <1>1, AssociationFacts DEF AExists, QueueStates
  <2>2. HasId(c, actl.id)
    BY <1>a, <1>1, <2>1 DEF HasId
  <2>3. c = actl.config /\ StatusOf(c) \in {"ACTIVE", "DELETING"}
    BY <1>a, <1>1, <2>1, <2>2 DEF AssociationInv, AssociationFound
  <2>4. acr'.spec = actl.spec
    BY <1>a, <1>1, <2>1
  <2> QED BY <1>a, <1>b, <2>3, <2>4
<1> QED BY <1>b, <1>2, <1>3, <1>4 DEF Told

\* The ends that report no success.
LEMMA OtherEndsTell ==
  ASSUME AssociationInv,
         \/ ATerminallyRefused \/ ACallRefused \/ ACallFails
         \/ UnmanageAssociation \/ RestartBoth
  PROVE  Identified' /\ AssociationTypes' /\ Told'
<1>a. UNCHANGED <<configs, assocId, vpcReady, aedits>>
  BY DEF ATerminallyRefused, ACallRefused, ACallFails, UnmanageAssociation,
         RestartBoth, Restart, configVars
<1>b. /\ Identified' /\ KeepsKnown
      /\ \A c \in ConfigIds : StatusOf(c)' = StatusOf(c)
  BY <1>a, AssociationFacts, StillIsKept
<1>1. CASE ATerminallyRefused \/ ACallRefused \/ ACallFails
  <2>1. actl.pc # "idle" /\ (AError \/ ATerminal)
    BY <1>1 DEF ATerminallyRefused, ARefusable, ACallRefused, ACallFails
  <2> QED BY <1>a, <1>b, <2>1, ErrorTells, AssociationFacts DEF AssociationTypes
<1>2. CASE UnmanageAssociation
  <2>1. /\ actl' = AIdle /\ aqueued' = aqueued /\ acr' = AGone
        /\ actl.pc = "unmanage" /\ actl.id = acr.id /\ aqueued # "later"
    BY <1>2, AssociationFacts DEF UnmanageAssociation, Course
  <2>2. AssociationTypes' /\ Course' /\ AssociationFound' /\ HonestObject'
    BY <1>a, <2>1, RecordTypes, AssociationFacts
       DEF AssociationTypes, Course, AssociationFound, HasId, HonestObject
  <2>3. KnownAssociationIsGuarded'
    <3> SUFFICES ASSUME NEW c \in ConfigIds,
                        assocId'[c] \in {acr'.id, actl'.id} \ {NoId}
                 PROVE  StatusOf(c)' = "DELETING"
      BY DEF KnownAssociationIsGuarded
    <3>1. HasId(c, actl.id)
      BY <1>a, <2>1, RecordTypes, AssociationFacts DEF HasId
    <3> QED BY <1>b, <2>1, <3>1 DEF AssociationInv, AssociationFound
  <2> QED BY <1>b, <2>2, <2>3 DEF Told
<1>3. CASE RestartBoth
  <2>1. /\ actl' = AIdle /\ acr' = acr
        /\ aqueued' = IF AExists THEN "now" ELSE aqueued
    BY <1>3 DEF RestartBoth
  <2>2. AssociationTypes'
    BY <1>a, <2>1, RecordTypes, AssociationFacts DEF AssociationTypes, QueueStates
  <2>3. CASE AExists
    BY <1>b, <2>1, <2>2, <2>3, EndTells
  <2>4. CASE ~AExists
    <3>1. acr.phase = "gone"
      BY <2>4 DEF AExists
    <3>2. Course' /\ AssociationFound' /\ HonestObject'
      BY <2>1, <3>1, RecordTypes, AssociationFacts
         DEF Course, AssociationFound, HasId, HonestObject
    <3>3. KnownAssociationIsGuarded'
      BY <1>a, <1>b, <2>1, RecordTypes, AssociationFacts
         DEF AssociationInv, KnownAssociationIsGuarded, AExists
    <3> QED BY <1>b, <2>2, <3>2, <3>3 DEF Told
  <2> QED BY <2>3, <2>4
<1> QED BY <1>1, <1>2, <1>3

\* Steps of other parties, those that remove an association among them.
LEMMA AsideTells ==
  ASSUME AssociationInv,
         \/ VpcSettles \/ AFinished \/ UNCHANGED allVars
         \/ \E c \in Live : DisassociatedByOthers(c)
         \/ ConfigStep(User) \/ ConfigStep(Aws) \/ ConfigStep(Others)
         \/ ConfigStep(Controller) \/ ConfigStep(Resync)
  PROVE  Identified' /\ AssociationTypes' /\ Told'
<1>1. /\ UNCHANGED <<acr, aqueued, actl>> /\ vpcReady' \in BOOLEAN
      /\ aedits' \in 0..MaxAssociationEdits
  <2>1. ASSUME NEW c \in Live, DisassociatedByOthers(c)
        PROVE  /\ UNCHANGED <<acr, aqueued, actl, vpcReady>>
               /\ aedits' \in 0..MaxAssociationEdits
    BY <2>1, AssociationFacts DEF DisassociatedByOthers
  <2>2. CASE ~\E c \in Live : DisassociatedByOthers(c)
    <3>1. UNCHANGED <<acr, aqueued, actl, aedits>> /\ vpcReady' \in {vpcReady, TRUE}
      BY <2>2 DEF VpcSettles, AFinished, allVars, avars, ConfigStep
    <3> QED BY <3>1, AssociationFacts
  <2> QED BY <2>1, <2>2, AssociationFacts
<1>2. CASE UNCHANGED <<configs, assocId>>
  BY <1>1, <1>2, AssociationFacts, StillIsKept, OthersTell DEF AssociationTypes
<1>3. CASE \/ \E c \in Live : DisassociatedByOthers(c)
           \/ ConfigStep(User) \/ ConfigStep(Aws) \/ ConfigStep(Others)
           \/ ConfigStep(Controller) \/ ConfigStep(Resync)
  <2>1. TrackIds /\ ([Next]_vars \/ \E c \in Live : DisassociatedByOthers(c))
    BY <1>3 DEF ConfigStep, Next, DisassociatedByOthers
  <2>2. Identified' /\ KeepsKnown
    BY <2>1, ConfigMoves, CallMoves, IdsStep, AssociationFacts
  <2> QED BY <1>1, <2>2, OthersTell, AssociationFacts DEF AssociationTypes
<1> QED
  BY <1>2, <1>3 DEF VpcSettles, AFinished, allVars, avars, configVars

LEMMA InitTells == AInit => AssociationInv
<1> SUFFICES ASSUME AInit PROVE AssociationInv
  OBVIOUS
<1>1. /\ acr \in AssociationObjects /\ acr.id = NoId /\ acr.synced = FALSE
      /\ aqueued \in {"now", "never"} /\ actl = AIdle /\ vpcReady \in BOOLEAN
      /\ aedits \in 0..MaxAssociationEdits
      /\ assocId = [c \in ConfigIds |-> NoId] /\ Live = {}
  BY DEF AInit, AssociationObjects, Init, Live
<1>2. AIdle \in AssociationReconciles /\ AIdle.pc = "idle" /\ AIdle.id = NoId
  <2>1. AnyAssociationSpec \in AssociationSpecs
    BY <1>1 DEF AssociationObjects, AnyAssociationSpec
  <2> QED BY <2>1 DEF AIdle, AssociationReconciles
<1>3. Identified /\ AssociationTypes
  BY <1>1, <1>2 DEF Identified, AssociationTypes, QueueStates, StatusOf
<1>4. Course /\ AssociationFound /\ KnownAssociationIsGuarded /\ HonestObject
  BY <1>1, <1>2
     DEF Course, AssociationFound, HasId, KnownAssociationIsGuarded, HonestObject
<1> QED BY <1>3, <1>4, InitHonest DEF AssociationInv

LEMMA NextTells == AssociationInv /\ [ANext]_allVars => AssociationInv'
<1> SUFFICES ASSUME AssociationInv, [ANext]_allVars PROVE AssociationInv'
  OBVIOUS
<1>1. HonestInv'
  BY NextHonest DEF AssociationInv
<1>2. Identified' /\ AssociationTypes' /\ Told'
  BY UsersTell, StartTells, ResolveTells, FindTells, ManageTells, CallTells,
     PatchTells, OtherEndsTell, AsideTells DEF ANext, AController
<1> QED BY <1>1, <1>2 DEF AssociationInv, Told

\* For any specs, edits, faults and interleaving of the two controllers each
\* association has one id and no two the same, and no request goes out before
\* its configuration and VPC are known (the checks of ResolveReferences).
THEOREM AssociationTypeCorrect == ASpec => []AssociationTypeOK
<1>1. AssociationInv => AssociationTypeOK
  BY AssociationFacts
     DEF TypeInv, AssociationTypeOK, Identified, AssociationTypes, Course
<1> QED BY InitTells, NextTells, <1>1, PTL DEF ASpec

\* An association that the object or its worker knows of, and that nobody is
\* removing, has an object with its finalizer: also while the answer of its
\* create is on the way, and after any call that fails or is refused for good
\* (AddFinalizer before sdkCreate, the errors of sdkDelete and terminalAWSError).
THEOREM AssociationIsGuarded == ASpec => []KnownAssociationIsGuarded
BY InitTells, NextTells, PTL DEF ASpec, AssociationInv

-----------------------------------------------------------------------------
(* What a reference is worth later *)

\* The configuration's object takes another id only when the one it had is gone.
OldIdIsGone ==
  /\ ctl.pc \in {"manage", "create"} => cr.id \notin Live
  /\ ctl.pc = "patch" /\ ctl.id # cr.id => cr.id \notin Live

\* A configuration found through the reference is the object's as long as it
\* exists: while the worker is busy with it, and when the association's object
\* has been reported as synced.
ReferenceHolds ==
  /\ actl.pc \in {"find", "manage", "create", "patch"} /\ actl.mode = "sync"
     /\ actl.spec.configRef =>
       actl.config \in used /\ (actl.config \in Live => cr.id = actl.config)
  /\ acr.phase = "live" /\ acr.synced /\ ~acr.terminal /\ aqueued = "later"
     /\ actl.pc = "idle" /\ acr.spec.configRef =>
       \A c \in ConfigIds : HasId(c, acr.id) => cr.id = c

ReferenceInv == AssociationInv /\ OldIdIsGone /\ ReferenceHolds

\* An id that is gone does not come back, and one that is there stays the object's.
IdsStay ==
  /\ used \subseteq used' /\ Live' \cap used \subseteq Live
  /\ cr.id \in Live' => cr'.id = cr.id

LEMMA UsedIdsStay ==
  ASSUME TypeInv, [Next]_vars
  PROVE  used \subseteq used' /\ Live' \cap used \subseteq Live
<1>a. configs \in [Live -> QueryLogConfigs]
  BY DEF TypeInv, TypeOK
<1>1. ASSUME used' = used, Live' \subseteq Live
      PROVE  used \subseteq used' /\ Live' \cap used \subseteq Live
  BY <1>1
<1>2. ASSUME UNCHANGED <<used, configs>>
      PROVE  used \subseteq used' /\ Live' \cap used \subseteq Live
  BY <1>2 DEF Live
<1>3. CASE CreateResolverQueryLogConfig \/ CreateLost
  <2>1. PICK i \in FreshConfigs : Creates(i)
    BY <1>3 DEF CreateResolverQueryLogConfig, CreateLost
  <2>2. Live' = Live \cup {i} /\ used' = used \cup {i} /\ i \notin used
    BY <2>1, CreateType DEF FreshConfigs
  <2> QED BY <2>2
<1>4. CASE TagResource \/ UntagResource \/ DeleteResolverQueryLogConfig
  BY <1>a, <1>1, <1>4 DEF TagResource, UntagResource,
     DeleteResolverQueryLogConfig, Live
<1>5. ASSUME NEW c \in Live,
             \/ ConfigSettles(c) \/ AssociationSettles(c) \/ TaggedByOthers(c)
             \/ AssociatedByOthers(c) \/ DeletedByOthers(c)
      PROVE  used' = used /\ Live' \subseteq Live
  BY <1>a, <1>5 DEF ConfigSettles, AssociationSettles, TaggedByOthers,
     AssociatedByOthers, DeletedByOthers, Without, Live
<1> QED
  BY <1>1, <1>2, <1>3, <1>4, <1>5
     DEF Next, vars, User, Aws, Others, Controller, EditTags, DeleteResource,
         StartReconcile, Resync, FindNothing, GetResolverQueryLogConfig, getTags,
         MarkManaged, TerminallyRefused, CallRefused, CallFails, PatchStatus,
         MarkUnmanaged, Restart, Finished

\* The configuration's controller looks for the id it has before it asks for
\* another.
LEMMA ConfigIdsStay ==
  ASSUME HonestInv, OldIdIsGone, [Next]_vars
  PROVE  OldIdIsGone' /\ IdsStay
<1>a. /\ ctl \in Reconciles /\ cr \in Objects /\ Life /\ TypeInv
      /\ {cr.id, ctl.id} \subseteq used \cup {NoId} /\ used \subseteq ConfigIds
      /\ NoId \notin ConfigIds /\ Live \subseteq used
      /\ used \subseteq used' /\ Live' \cap used \subseteq Live
      /\ NoId \notin Live'
  <2>1. TypeInv' /\ TypeInv
    BY NextType DEF HonestInv, Bound
  <2> QED
    BY <2>1, StandingFacts, UsedIdsStay DEF HonestInv, Bound, TypeInv, TypeOK
<1>b. cr.id \notin Live => cr.id \notin Live'
  BY <1>a
<1>1. ASSUME cr'.id = cr.id,
             \/ ctl'.pc \notin {"manage", "create", "patch"}
             \/ ctl'.pc = ctl.pc /\ ctl'.id = ctl.id
             \/ ctl'.pc = "patch" /\ ctl'.id = cr.id
             \/ cr.id \notin Live
      PROVE  OldIdIsGone' /\ IdsStay
  BY <1>1, <1>a, <1>b DEF OldIdIsGone, IdsStay
<1>2. CASE StartReconcile
  <2>1. cr.phase \in {"live", "deleting", "gone"}
    BY <1>a DEF Objects
  <2>2. cr' = cr /\ ctl'.pc \in {"idle", "find"}
    BY <1>2, <2>1, IdleType DEF StartReconcile, Idle
  <2> QED BY <1>1, <2>2
<1>3. CASE FindNothing
  <2>1. cr' = cr /\ cr.id \notin Live
    BY <1>3, <1>a DEF FindNothing, Life
  <2> QED BY <1>1, <2>1
<1>4. CASE GetResolverQueryLogConfig \/ DeleteResolverQueryLogConfig
  <2>1. cr' = cr /\ ctl'.pc \in {"tags", "unmanage"}
    BY <1>4, <1>a DEF GetResolverQueryLogConfig, DeleteResolverQueryLogConfig,
                      Reconciles
  <2> QED BY <1>1, <2>1
<1>5. CASE getTags
  <2>1. cr' = cr /\ ctl'.id = cr.id /\ ctl'.pc \in {"work", "patch", "delete"}
    BY <1>5, <1>a DEF getTags, Reconciles, Life
  <2> QED BY <1>1, <2>1
<1>6. ASSUME ReconcileError \/ ReconcileTerminal \/ ReconcileLost
      PROVE  OldIdIsGone' /\ IdsStay
  <2>1. cr'.id = cr.id /\ ctl'.pc = "idle"
    BY <1>6, <1>a, EndType, IdleType
  <2> QED BY <1>1, <2>1
<1>7. CASE MarkManaged
  <2>1. CASE ~ReconcileError
    <3>1. cr'.id = cr.id /\ cr.id \notin Live
      BY <1>7, <1>a, <2>1 DEF MarkManaged, OldIdIsGone, Objects
    <3> QED BY <1>1, <3>1
  <2> QED BY <1>6, <2>1
<1>8. CASE CreateResolverQueryLogConfig
  <2>1. cr' = cr /\ cr.id \notin Live
    BY <1>8 DEF CreateResolverQueryLogConfig, Creates, OldIdIsGone
  <2> QED BY <1>1, <2>1
<1>9. CASE PatchStatus
  <2>1. /\ ctl'.pc = "idle" /\ UNCHANGED configs
        /\ ctl.pc = "patch" \/ ctl.pc = "work"
        /\ cr'.id = cr.id \/ cr'.id = ctl.id
    BY <1>9, <1>a, IdleType DEF PatchStatus, Objects
  <2>2. CASE cr'.id = cr.id
    BY <1>1, <2>1, <2>2
  <2>3. CASE cr'.id # cr.id
    <3>1. ctl.id # cr.id /\ ctl.pc = "patch"
      BY <1>a, <2>1, <2>3 DEF Life
    <3>2. cr.id \notin Live'
      BY <1>b, <3>1 DEF OldIdIsGone
    <3> QED BY <1>a, <2>1, <3>2 DEF OldIdIsGone, IdsStay
  <2> QED BY <2>2, <2>3
<1>10. CASE MarkUnmanaged
  <2>1. cr'.id = cr.id /\ ctl'.pc = "idle"
    BY <1>10, <1>a, IdleType DEF MarkUnmanaged, Objects
  <2> QED BY <1>1, <2>1
<1>11. CASE \/ CreateLost \/ TerminallyRefused \/ CallRefused \/ CallFails
            \/ Restart
  BY <1>6, <1>11
     DEF CreateLost, TerminallyRefused, CallRefused, CallFails, Restart
<1>12. ASSUME cr'.id = cr.id, UNCHANGED ctl PROVE OldIdIsGone' /\ IdsStay
  BY <1>1, <1>12
<1>13. CASE \/ UNCHANGED vars \/ EditTags \/ DeleteResource \/ Resync
            \/ TagResource \/ UntagResource
  BY <1>12, <1>13, <1>a
     DEF vars, EditTags, DeleteResource, Resync, TagResource, UntagResource,
         Objects
<1>14. ASSUME NEW c \in Live,
             \/ ConfigSettles(c) \/ AssociationSettles(c) \/ TaggedByOthers(c)
             \/ AssociatedByOthers(c) \/ DeletedByOthers(c)
      PROVE  OldIdIsGone' /\ IdsStay
  BY <1>12, <1>14 DEF ConfigSettles, AssociationSettles, TaggedByOthers,
     AssociatedByOthers, DeletedByOthers
<1> QED
  BY <1>2, <1>3, <1>4, <1>5, <1>7, <1>8, <1>9, <1>10, <1>11, <1>13, <1>14
     DEF Next, User, Aws, Others, Controller, Finished

LEMMA AnyIdsStay ==
  ASSUME HonestInv, OldIdIsGone, [ANext]_allVars
  PROVE  OldIdIsGone' /\ IdsStay
<1>1. CASE [Next]_vars
  BY <1>1, ConfigIdsStay
<1>2. CASE Beside
  BY <1>2 DEF Beside, OldIdIsGone, IdsStay
<1> QED BY <1>1, <1>2, StepSides

LEMMA AnyStepKeepsKnown ==
  ASSUME AssociationInv, [ANext]_allVars
  PROVE  KeepsKnown
<1>1. CASE UNCHANGED <<configs, assocId>>
  BY <1>1, AssociationFacts, StillIsKept
<1>2. CASE ~UNCHANGED <<configs, assocId>>
  <2>1. /\ TrackIds
        /\ \/ [Next]_vars \/ Associates \/ DeleteTheAssociation
           \/ \E c \in Live : DisassociatedByOthers(c)
    BY <1>2
       DEF ANext, AController, EditAssociation, DeleteAssociation, VpcSettles,
           AStart, AResync, ResolveReferences, FindNoAssociation,
           FindAssociation, ManageAssociation, CreateAssociation,
           CreateAssociationLost, DeleteTheAssociation, ATerminallyRefused,
           ACallRefused, ACallFails, PatchAssociationStatus, UnmanageAssociation,
           Associates, RestartBoth, Restart, AFinished, ConfigStep,
           DisassociatedByOthers, Next, configVars, allVars, avars
  <2> QED BY <2>1, ConfigMoves, CallMoves, IdsStep, AssociationFacts
<1> QED BY <1>1, <1>2

\* The worker comes by the configuration where it resolves the reference.
LEMMA CourseOfReference ==
  ASSUME AssociationInv, [ANext]_allVars,
         actl'.pc \in {"find", "manage", "create", "patch"}, actl'.mode = "sync"
  PROVE  \/ /\ actl.pc \in {"find", "manage", "create", "patch"}
            /\ actl.mode = "sync"
            /\ actl'.spec = actl.spec /\ actl'.config = actl.config
         \/ /\ Resolvable(actl.spec) /\ cr' = cr /\ actl'.spec = actl.spec
            /\ actl.spec.configRef => actl'.config = cr.id
<1>a. /\ actl \in AssociationReconciles /\ AIdle.pc = "idle"
      /\ acr.phase \in {"live", "deleting", "gone"} /\ actl' # AIdle
  <2>1. AIdle.pc = "idle"
    BY DEF AIdle
  <2> QED BY <2>1, AssociationFacts
<1>1. ~AStart
  BY <1>a DEF AStart, AIdle
<1>2. CASE ResolveReferences
  <2>1. /\ Resolvable(actl.spec) /\ UNCHANGED configVars
        /\ actl' = [actl EXCEPT
             !.pc = "find",
             !.config = IF actl.spec.configRef THEN cr.id ELSE actl.spec.configId,
             !.vpc = Vpc]
    BY <1>2, <1>a DEF ResolveReferences, AError
  <2> QED BY <1>a, <2>1 DEF AssociationReconciles, configVars
<1>3. CASE FindNoAssociation \/ FindAssociation
  BY <1>3, <1>a DEF FindNoAssociation, FindAssociation, ATerminal,
                    AssociationReconciles
<1>4. CASE ManageAssociation \/ CreateAssociation
  BY <1>4, <1>a, AssociationFacts
     DEF ManageAssociation, AError, CreateAssociation, Associates,
         AssociationReconciles, Course
<1>5. CASE DeleteTheAssociation
  BY <1>5, <1>a DEF DeleteTheAssociation, AssociationReconciles
<1>6. CASE actl' = actl
  BY <1>6
<1> QED
  BY <1>a, <1>1, <1>2, <1>3, <1>4, <1>5, <1>6
     DEF ANext, AController, EditAssociation, DeleteAssociation, VpcSettles,
         AResync, CreateAssociationLost, ATerminallyRefused, ACallRefused,
         ACallFails, AError, ATerminal, PatchAssociationStatus,
         UnmanageAssociation, RestartBoth, AFinished, ConfigStep,
         DisassociatedByOthers, allVars, avars

\* No step but the status patch sets an object aside until the resync period ends.
LEMMA SetAside ==
  ASSUME AssociationInv, [ANext]_allVars, aqueued' = "later", actl'.pc = "idle"
  PROVE  \/ PatchAssociationStatus
         \/ UNCHANGED <<acr, aqueued>> /\ actl.pc = "idle"
<1>1. ASSUME actl.pc # "idle" PROVE aqueued # "later"
  BY <1>1, AssociationFacts DEF Course
<1>2. CASE EditAssociation \/ DeleteAssociation \/ AStart \/ AResync
  BY <1>2 DEF EditAssociation, DeleteAssociation, AStart, AResync
<1>3. ASSUME AError \/ (actl.pc # "idle" /\ ATerminal) PROVE FALSE
  BY <1>1, <1>3 DEF AError, ATerminal
<1>4. CASE ResolveReferences \/ FindNoAssociation \/ FindAssociation
           \/ ManageAssociation \/ CreateAssociation \/ CreateAssociationLost
           \/ DeleteTheAssociation \/ UnmanageAssociation
           \/ ATerminallyRefused \/ ACallRefused \/ ACallFails
  BY <1>1, <1>3, <1>4
     DEF ResolveReferences, FindNoAssociation, FindAssociation,
         ManageAssociation, CreateAssociation, CreateAssociationLost, Associates,
         DeleteTheAssociation, UnmanageAssociation, ATerminallyRefused,
         ARefusable, ACallRefused, ACallFails
<1>5. CASE RestartBoth
  BY <1>1, <1>5 DEF RestartBoth
<1>6. CASE UNCHANGED <<acr, aqueued, actl>>
  BY <1>6
<1> QED
  BY <1>2, <1>4, <1>5, <1>6
     DEF ANext, AController, VpcSettles, AFinished, ConfigStep,
         DisassociatedByOthers, allVars, avars

LEMMA ReferenceStep ==
  ASSUME ReferenceInv, [ANext]_allVars
  PROVE  ReferenceInv'
<1>a. AssociationInv' /\ OldIdIsGone' /\ IdsStay /\ KeepsKnown
  BY NextTells, AnyIdsStay, AnyStepKeepsKnown DEF ReferenceInv, AssociationInv
<1>b. \A c \in ConfigIds : assocId'[c] # NoId => c \in Live'
  BY <1>a DEF AssociationInv, Identified, StatusOf
<1>1. ASSUME actl'.pc \in {"find", "manage", "create", "patch"},
             actl'.mode = "sync", actl'.spec.configRef
      PROVE  /\ actl'.config \in used'
             /\ actl'.config \in Live' => cr'.id = actl'.config
  <2>1. CASE /\ actl.pc \in {"find", "manage", "create", "patch"}
             /\ actl.mode = "sync"
             /\ actl'.spec = actl.spec /\ actl'.config = actl.config
    BY <1>1, <1>a, <2>1 DEF ReferenceInv, ReferenceHolds, IdsStay
  <2>2. CASE /\ Resolvable(actl.spec) /\ cr' = cr /\ actl'.spec = actl.spec
             /\ actl.spec.configRef => actl'.config = cr.id
    <3>1. cr.id # NoId /\ actl'.config = cr.id
      BY <1>1, <2>2 DEF Resolvable, ReferencedConfigReady
    <3>2. cr.id \in used
      BY <3>1, AssociationFacts DEF ReferenceInv, TypeInv, TypeOK
    <3> QED BY <1>a, <2>2, <3>1, <3>2 DEF IdsStay
  <2> QED BY <1>1, <2>1, <2>2, CourseOfReference DEF ReferenceInv
<1>2. ASSUME acr'.phase = "live", acr'.synced, ~acr'.terminal,
             aqueued' = "later", actl'.pc = "idle", acr'.spec.configRef,
             NEW c \in ConfigIds, HasId(c, acr.id)'
      PROVE  cr'.id = c
  <2>1. c \in Live'
    BY <1>2, <1>b DEF HasId
  <2>2. CASE UNCHANGED <<acr, aqueued>> /\ actl.pc = "idle"
    <3>1. HasId(c, acr.id)
      BY <1>2, <1>a, <2>2 DEF HasId, KeepsKnown
    <3>2. cr.id = c
      BY <1>2, <2>2, <3>1 DEF ReferenceInv, ReferenceHolds
    <3> QED BY <1>a, <2>1, <3>2 DEF IdsStay
  <2>3. CASE PatchAssociationStatus
    <3>1. /\ actl.pc = "patch" /\ actl.mode = "sync"
          /\ UNCHANGED <<cr, configs, assocId>>
          /\ aqueued = "never" /\ acr.phase = "live"
          /\ acr'.id = actl.id /\ actl.end = "synced"
          /\ acr'.spec = acr.spec /\ acr.spec = actl.spec
      <4>1. /\ acr'.phase = acr.phase /\ acr'.spec = acr.spec
            /\ AExists => acr'.id = actl.id /\ acr'.synced = (actl.end = "synced")
        BY <2>3, AssociationFacts
           DEF ReferenceInv, PatchAssociationStatus, AssociationObjects
      <4>2. /\ actl.pc = "patch" /\ aqueued # "later" /\ aqueued # "now"
            /\ UNCHANGED <<cr, configs, assocId>>
        BY <1>2, <2>3, AssociationFacts
           DEF ReferenceInv, PatchAssociationStatus, Course, configVars
      <4>3. aqueued = "never" /\ actl.mode = "sync"
        BY <4>2, AssociationFacts DEF ReferenceInv, QueueStates, Course
      <4> QED
        BY <1>2, <4>1, <4>2, <4>3, AssociationFacts
           DEF ReferenceInv, AExists, Course
    <3>2. HasId(c, actl.id)
      BY <1>2, <3>1 DEF HasId
    <3>3. c = actl.config
      BY <3>1, <3>2 DEF ReferenceInv, AssociationInv, AssociationFound
    <3>4. c \in Live
      BY <2>1, <3>1 DEF Live
    <3> QED BY <1>2, <3>1, <3>3, <3>4 DEF ReferenceInv, ReferenceHolds
  <2> QED BY <1>2, <2>2, <2>3, SetAside DEF ReferenceInv
<1>3. ReferenceHolds'
  BY <1>1, <1>2 DEF ReferenceHolds
<1> QED BY <1>a, <1>3 DEF ReferenceInv

LEMMA InitReference == AInit => ReferenceInv
<1> SUFFICES ASSUME AInit PROVE ReferenceInv
  OBVIOUS
<1>1. ctl.pc = "idle" /\ actl.pc = "idle" /\ acr.synced = FALSE
  BY IdleType DEF AInit, Init, AIdle
<1> QED BY <1>1, InitTells DEF ReferenceInv, OldIdIsGone, ReferenceHolds

\* The association behind an object that is reported as synced, with no event
\* pending, is that of the configuration its spec names by id, or of the one that
\* the object it refers to still has, though others delete configurations and
\* the object gets a new one in their place; and it is active unless someone
\* removes it: one that has failed is never reported so (IsSynced, the
\* resolved field that newResourceDelta compares, and the terminal error of
\* sdkUpdate for all else).
THEOREM SyncedAssociationIsTrue == ASpec => []SyncedAssociationIsHonest
<1>1. ReferenceInv => SyncedAssociationIsHonest
  <2> SUFFICES ASSUME ReferenceInv, acr.phase = "live", acr.synced,
                      ~acr.terminal, aqueued = "later", actl.pc = "idle",
                      acr.id \in LiveAssociations
               PROVE  LET c == ConfigOf(acr.id) IN
                      /\ acr.spec.configId \in {NoId, c}
                      /\ acr.spec.configRef =>
                           cr.id = c /\ (Exists \/ configs[c].status = "DELETING")
                      /\ StatusOf(c) \in {"ACTIVE", "DELETING"}
    BY DEF SyncedAssociationIsHonest
  <2> DEFINE c == ConfigOf(acr.id)
  <2>1. acr.id # NoId /\ \E d \in ConfigIds : assocId[d] = acr.id
    BY DEF LiveAssociations
  <2>2. c \in ConfigIds /\ HasId(c, acr.id)
    BY <2>1 DEF ConfigOf, HasId
  <2> HIDE DEF c
  <2>3. /\ acr.spec.configId \in {NoId, c}
        /\ StatusOf(c) \in {"ACTIVE", "DELETING"}
    BY <2>2 DEF ReferenceInv, AssociationInv, HonestObject
  <2>4. ASSUME acr.spec.configRef
        PROVE  cr.id = c /\ (Exists \/ configs[c].status = "DELETING")
    <3>1. cr.id = c
      BY <2>2, <2>4 DEF ReferenceInv, ReferenceHolds
    <3>2. c \in Live
      BY <2>3 DEF StatusOf
    <3>3. cr.id \in Standing => Exists
      BY DEF ReferenceInv, AssociationInv, HonestInv, Bound, Life
    <3> QED BY <3>1, <3>2, <3>3 DEF Standing
  <2> QED BY <2>3, <2>4 DEF c
<1> QED BY InitReference, ReferenceStep, <1>1, PTL DEF ASpec
-----------------------------------------------------------------------------
(* Deletions that are given up *)

\* The configuration's are given up for the same reasons as without the other
\* controller, which also leaves its queue alone.
THEOREM ConfigIsGivenUpWhenRefusedStill == ASpec => GivenUpWhenRefused
<1>1. AInit => QueueInv
  BY InitQueue DEF AInit
<1>2. QueueInv /\ [ANext]_allVars =>
        QueueInv' /\ [~GivenUp /\ GivenUp' => DeleteRefusable]_vars
  <2> SUFFICES ASSUME QueueInv, [ANext]_allVars
               PROVE  QueueInv' /\ (~GivenUp /\ GivenUp' => DeleteRefusable)
    OBVIOUS
  <2>1. HonestInv /\ HonestInv'
    BY NextHonest DEF QueueInv
  <2>2. CASE [Next]_vars
    BY <2>1, <2>2, QueueStep DEF QueueInv, GivesUpRightly
  <2>3. CASE Beside
    BY <2>1, <2>3 DEF Beside, QueueInv, DeletionIsQueued, GivenUp
  <2> QED BY <2>1, <2>2, <2>3, StepSides
<1> QED BY <1>1, <1>2, PTL DEF ASpec, GivenUpWhenRefused

\* An association object that is deleted while a sync of it goes on is queued
\* until the sync is over.
RemovalIsQueued ==
  actl.pc # "idle" /\ actl.mode = "sync" /\ acr.phase = "deleting" =>
    aqueued = "now"

AGivesUpRightly ==
  RemovalIsQueued' /\ (~AGivenUp /\ AGivenUp' => ARefusable)

LEMMA AssociationQueueStep ==
  ASSUME AssociationInv, RemovalIsQueued, [ANext]_allVars
  PROVE  AGivesUpRightly
<1>a. /\ acr \in AssociationObjects /\ actl \in AssociationReconciles /\ Course
      /\ acr.phase \in {"live", "deleting", "gone"}
      /\ AIdle.pc = "idle" /\ AIdle.mode = "sync" /\ AGone.phase = "gone"
  BY AssociationFacts, RecordTypes
<1>1. ASSUME aqueued' = "now" PROVE AGivesUpRightly
  BY <1>1 DEF AGivesUpRightly, RemovalIsQueued, AGivenUp
<1>2. ASSUME aqueued' = aqueued, acr'.phase = acr.phase,
             actl'.mode = actl.mode, actl'.pc # "idle" <=> actl.pc # "idle"
      PROVE  AGivesUpRightly
  BY <1>2 DEF AGivesUpRightly, RemovalIsQueued, AGivenUp
<1>3. ASSUME actl'.pc = "idle", aqueued' # "never" \/ acr'.phase = "gone"
      PROVE  AGivesUpRightly
  BY <1>3 DEF AGivesUpRightly, RemovalIsQueued, AGivenUp
<1>4. CASE AError
  BY <1>1, <1>4 DEF AError
\* Given up by a sync, an object being deleted is in the queue.
<1>5. ASSUME ATerminal, actl.pc # "idle", actl.mode = "sync" \/ ARefusable
      PROVE  AGivesUpRightly
  <2>1. actl'.pc = "idle" /\ aqueued' = aqueued
    BY <1>5, <1>a DEF ATerminal
  <2>2. acr'.phase = acr.phase
    <3>1. CASE acr' = acr
      BY <3>1
    <3>2. CASE acr' # acr
      BY <1>5, <1>a, <3>2 DEF ATerminal, PatchedConditions, AssociationObjects
    <3> QED BY <3>1, <3>2
  <2> QED BY <1>5, <2>1, <2>2 DEF AGivesUpRightly, RemovalIsQueued, AGivenUp
<1>6. CASE EditAssociation \/ DeleteAssociation \/ AResync
  BY <1>1, <1>6 DEF EditAssociation, DeleteAssociation, AResync
<1>7. CASE AStart
  <2>1. acr' = acr
    BY <1>7 DEF AStart
  <2>2. CASE acr.phase = "gone"
    BY <1>3, <1>7, <1>a, <2>1, <2>2 DEF AStart
  <2>3. CASE acr.phase = "live"
    BY <2>1, <2>3 DEF AGivesUpRightly, RemovalIsQueued, AGivenUp
  <2>4. CASE acr.phase = "deleting"
    <3>1. actl'.pc = "find" /\ actl'.mode = "delete"
      BY <1>7, <2>4 DEF AStart, AIdle
    <3> QED BY <3>1 DEF AGivesUpRightly, RemovalIsQueued, AGivenUp
  <2> QED BY <1>a, <2>1, <2>2, <2>3, <2>4
<1>8. CASE ResolveReferences \/ ManageAssociation
  <2>1. CASE ~AError
    <3>1. /\ actl.pc # "idle" /\ actl'.pc # "idle" /\ actl'.mode = actl.mode
          /\ acr'.phase = acr.phase /\ aqueued' = aqueued
      BY <1>8, <1>a, <2>1
         DEF ResolveReferences, ManageAssociation, AssociationObjects,
             AssociationReconciles
    <3> QED BY <1>2, <3>1
  <2> QED BY <1>4, <2>1
<1>9. CASE FindAssociation
  <2>1. CASE ATerminal /\ actl.mode = "sync"
    BY <1>5, <1>9, <2>1 DEF FindAssociation
  <2>2. CASE ~(ATerminal /\ actl.mode = "sync")
    <3>1. /\ actl.pc # "idle" /\ actl'.pc # "idle" /\ actl'.mode = actl.mode
          /\ acr' = acr /\ aqueued' = aqueued
      BY <1>9, <1>a, <2>2 DEF FindAssociation, AssociationReconciles
    <3> QED BY <1>2, <3>1
  <2> QED BY <2>1, <2>2
<1>10. CASE FindNoAssociation \/ CreateAssociation \/ DeleteTheAssociation
  <2>1. /\ actl.pc # "idle" /\ actl'.pc # "idle" /\ actl'.mode = actl.mode
        /\ acr' = acr /\ aqueued' = aqueued
    BY <1>10, <1>a
       DEF FindNoAssociation, CreateAssociation, Associates,
           DeleteTheAssociation, AssociationReconciles
  <2> QED BY <1>2, <2>1
<1>11. CASE ATerminallyRefused
  BY <1>5, <1>11, <1>a DEF ATerminallyRefused, ARefusable, Course
<1>12. CASE CreateAssociationLost \/ ACallRefused \/ ACallFails
  BY <1>4, <1>12 DEF CreateAssociationLost, ACallRefused, ACallFails
<1>13. CASE PatchAssociationStatus
  BY <1>3, <1>13, <1>a DEF PatchAssociationStatus
<1>14. CASE UnmanageAssociation
  BY <1>3, <1>14, <1>a DEF UnmanageAssociation
<1>15. CASE RestartBoth
  <2>1. CASE AExists
    BY <1>1, <1>15, <2>1 DEF RestartBoth
  <2>2. CASE ~AExists
    BY <1>3, <1>15, <1>a, <2>2 DEF RestartBoth, AExists
  <2> QED BY <2>1, <2>2
<1>16. CASE UNCHANGED <<acr, aqueued, actl>>
  BY <1>2, <1>16
<1> QED
  BY <1>6, <1>7, <1>8, <1>9, <1>10, <1>11, <1>12, <1>13, <1>14, <1>15, <1>16
     DEF ANext, AController, VpcSettles, DisassociatedByOthers, AFinished,
         ConfigStep, allVars, avars

\* The removal of an association stops being tried only in a step in which AWS
\* refuses it while busy with that association: never because it or its
\* configuration is gone, a call failed, or a sync that ended for good was under
\* way when the user deleted the object (terminalAWSError, sdkUpdate).
THEOREM AssociationIsGivenUpWhenRefused == ASpec => AssociationGivenUpWhenRefused
<1>1. AInit => RemovalIsQueued
  BY DEF AInit, AIdle, RemovalIsQueued
<1>2. AssociationInv /\ RemovalIsQueued /\ [ANext]_allVars =>
        RemovalIsQueued' /\ [~AGivenUp /\ AGivenUp' => ARefusable]_allVars
  BY AssociationQueueStep DEF AGivesUpRightly
<1> QED
  BY InitTells, NextTells, <1>1, <1>2, PTL
     DEF ASpec, AssociationGivenUpWhenRefused
=============================================================================
