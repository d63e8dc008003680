------------------------ MODULE QueryLogConfigProofs ------------------------
(***************************************************************************)
(* Theorems about QueryLogConfig for every value of its constants: its     *)
(* types, the promise of ManagedResource, that neither AWS's tags nor a    *)
(* wanted tag are ever taken away, and that an object is reported as       *)
(* synced only for a configuration that has been made.                     *)
(***************************************************************************)
EXTENDS QueryLogConfig, WellFoundedInduction, TLAPS

(* Tags *)

TagsSpec == [key : UserKeys \cup ControllerKeys \cup {NoKey},
             value : Values \cup {NoValue}]

LEMMA NoTagsType == NoTags \in TagMaps
BY DEF NoTags, TagMaps

LEMMA IdleType ==
  /\ Idle \in Reconciles
  /\ Idle.pc = "idle" /\ Idle.mode = "sync" /\ Idle.id = NoId
  /\ Idle.tags = NoTags
BY NoTagsType DEF Idle, Reconciles

LEMMA NoWorkType == NoWork \in Work /\ NoWork.untag = {} /\ NoWork.tag = NoTags
BY NoTagsType DEF NoWork, Work

\* Of the places of a list that have something, one is the last.
LEMMA LastPlace ==
  ASSUME NEW n \in Nat, NEW at \in SUBSET (1..n), at # {}
  PROVE  \E i \in at : \A j \in at : j <= i
<1> DEFINE left == {n - i : i \in at}
<1>1. left \subseteq Nat
  <2> SUFFICES ASSUME NEW i \in at PROVE n - i \in Nat
    OBVIOUS
  <2>1. i \in 1..n
    OBVIOUS
  <2> QED BY <2>1
<1>2. PICK m \in left : \A k \in left : ~ (k < m)
  <2> DEFINE R == {ss \in Nat \X Nat : ss[1] < ss[2]}
  <2>1. IsWellFoundedOn(R, Nat)
    BY NatLessThanWellFounded DEF OpToRel
  <2>2. left # {}
    OBVIOUS
  <2> HIDE DEF left, R
  <2>3. \E m \in left : \A k \in left : <<k, m>> \notin R
    BY <1>1, <2>1, <2>2, WFMin
  <2>4. ASSUME NEW k \in Nat, NEW m \in Nat, k < m
        PROVE  <<k, m>> \in R
    BY <2>4 DEF R
  <2> QED BY <1>1, <2>3, <2>4
<1>3. PICK i \in at : m = n - i
  OBVIOUS
<1>4. ASSUME NEW j \in at PROVE j <= i
  <2>1. ~ (n - j < n - i)
    BY <1>2, <1>3
  <2>2. i \in 1..n /\ j \in 1..n
    OBVIOUS
  <2> QED BY <2>1, <2>2
<1> QED BY <1>4

LEMMA ConvertType ==
  ASSUME NEW list \in TagLists
  PROVE  /\ convertToOrderedACKTags(list) \in TagMaps
         /\ \A k \in AwsKeys : convertToOrderedACKTags(list)[k] = Absent
<1> DEFINE at(k) == {i \in DOMAIN list : list[i].key = k}
           last(k) == CHOOSE i \in at(k) : \A j \in at(k) : j <= i
<1>1. list \in Seq(TagsSpec)
  BY TagListsAssumption DEF TagsSpec
<1>2. ASSUME NEW k \in Keys, at(k) # {}
      PROVE  list[last(k)].value \in Values \cup {NoValue}
  <2>1. Len(list) \in Nat /\ DOMAIN list = 1..Len(list)
    BY <1>1
  <2>2. at(k) \subseteq 1..Len(list)
    BY <2>1
  <2>3. \E i \in at(k) : \A j \in at(k) : j <= i
    BY <1>2, <2>1, <2>2, LastPlace
  <2>4. last(k) \in at(k)
    BY <2>3
  <2>5. last(k) \in 1..Len(list)
    BY <2>2, <2>4
  <2>6. list[last(k)] \in TagsSpec
    BY <1>1, <2>5
  <2> QED BY <2>6 DEF TagsSpec
<1>3. ASSUME NEW k \in AwsKeys PROVE at(k) = {}
  <2>1. k \notin UserKeys \cup ControllerKeys \cup {NoKey}
    BY KeysAssumption DEF Keys
  <2>2. ASSUME NEW i \in DOMAIN list
        PROVE  list[i].key \in UserKeys \cup ControllerKeys \cup {NoKey}
    <3>1. list[i] \in TagsSpec
      BY <1>1
    <3> QED BY <3>1 DEF TagsSpec
  <2> QED BY <2>1, <2>2
<1>4. convertToOrderedACKTags(list) =
        [k \in Keys |-> IF at(k) = {} THEN Absent
                        ELSE IF list[last(k)].value = NoValue THEN EmptyValue
                        ELSE list[last(k)].value]
  BY DEF convertToOrderedACKTags
<1>5. convertToOrderedACKTags(list) \in TagMaps
  BY <1>2, <1>4, KeysAssumption DEF TagMaps
<1>6. ASSUME NEW k \in AwsKeys
      PROVE  convertToOrderedACKTags(list)[k] = Absent
  BY <1>3, <1>4 DEF Keys
<1> QED BY <1>5, <1>6

\* The controller has no tag of AWS's either.
LEMMA EnsureType ==
  ASSUME NEW tags \in TagMaps, \A k \in AwsKeys : tags[k] = Absent
  PROVE  /\ EnsureTags(tags) \in TagMaps
         /\ \A k \in AwsKeys : EnsureTags(tags)[k] = Absent
BY KeysAssumption DEF EnsureTags, TagMaps, Keys

LEMMA MirrorType ==
  ASSUME NEW desired \in TagMaps, NEW latest \in TagMaps,
         \A k \in AwsKeys : desired[k] = Absent
  PROVE  /\ mirrorAWSTags(desired, latest) \in TagMaps
         /\ \A k \in AwsKeys : mirrorAWSTags(desired, latest)[k] = latest[k]
BY DEF mirrorAWSTags, Present, TagMaps, Keys

\* What SyncTags sends differs from what was read, and it removes nothing that
\* is desired.
LEMMA SyncType ==
  ASSUME NEW desired \in TagMaps, NEW latest \in TagMaps
  PROVE  /\ SyncTags(desired, latest) \in Work
         /\ \A k \in SyncTags(desired, latest).untag : desired[k] = Absent
         /\ \A k \in Present(SyncTags(desired, latest).tag)
                     \cup SyncTags(desired, latest).untag :
              desired[k] # latest[k]
BY KeysAssumption DEF SyncTags, Work, TagMaps, Present
-----------------------------------------------------------------------------
(* Types, and the tags of AWS *)

\* Until they meet what AWS has, the tags that the worker wants are not AWS's;
\* from then on nothing is removed that is wanted, nor touched that is AWS's.
TagsInv ==
  /\ ctl.pc \in {"find", "tags"} => \A k \in AwsKeys : ctl.tags[k] = Absent
  /\ ctl.pc = "work" => \A k \in work.untag : ctl.tags[k] = Absent
  /\ SystemTagsUntouched

TypeInv == TypeOK /\ TagsInv

LEMMA NoWorkTouches == AwsKeys \cap (Present(NoWork.tag) \cup NoWork.untag) = {}
BY NoWorkType DEF Present, NoTags

\* However a reconcile ends, it leaves objects, worker and queue in order.
LEMMA EndType ==
  ASSUME TypeInv, ReconcileError \/ ReconcileTerminal \/ ReconcileLost
  PROVE  /\ cr' \in Objects /\ queued' \in QueueStates
         /\ ctl' = Idle /\ work' = NoWork /\ TagsInv'
         /\ cr'.id = cr.id /\ cr'.phase = cr.phase
         /\ cr'.finalizer = cr.finalizer
<1>1. cr \in Objects /\ queued \in QueueStates /\ cr.synced \in BOOLEAN
  BY DEF TypeInv, TypeOK, Objects
<1>2. cr' \in Objects /\ cr'.id = cr.id /\ cr'.phase = cr.phase
      /\ cr'.finalizer = cr.finalizer
  <2>1. CASE cr' = cr
    BY <1>1, <2>1
  <2>2. ASSUME NEW s \in BOOLEAN, NEW e \in BOOLEAN,
               cr' = [cr EXCEPT !.synced = s, !.terminal = e]
        PROVE  cr' \in Objects /\ cr'.id = cr.id /\ cr'.phase = cr.phase
               /\ cr'.finalizer = cr.finalizer
    BY <1>1, <2>2 DEF Objects
  <2>3. CASE cr' = [cr EXCEPT !.synced = FALSE, !.terminal = FALSE]
    BY <2>2, <2>3
  <2>4. CASE cr' = [cr EXCEPT !.terminal = TRUE,
                              !.synced = ctl.mode = "sync" \/ @]
    BY <1>1, <2>4 DEF Objects
  <2>5. CASE cr' = [cr EXCEPT !.terminal = FALSE]
    BY <1>1, <2>5 DEF Objects
  <2> QED
    BY <2>1, <2>3, <2>4, <2>5 DEF ReconcileError, ReconcileTerminal, ReconcileLost
<1>3. ctl' = Idle /\ work' = NoWork /\ queued' \in QueueStates
  BY <1>1 DEF ReconcileError, ReconcileTerminal, ReconcileLost, QueueStates
<1>4. TagsInv'
  BY <1>3, IdleType, NoWorkTouches, NoWorkType
     DEF TagsInv, SystemTagsUntouched, Present
<1> QED BY <1>2, <1>3, <1>4

LEMMA InitType == Init => TypeInv
<1> SUFFICES ASSUME Init PROVE TypeInv
  OBVIOUS
<1>1. TypeOK
  BY IdleType, NoWorkType, ConfigBoundsAssumption
     DEF Init, TypeOK, Objects, QueueStates, Live
<1>2. TagsInv
  BY IdleType, NoWorkTouches DEF Init, TagsInv, SystemTagsUntouched
<1> QED BY <1>1, <1>2 DEF TypeInv

\* A step that changes one configuration, in the way its type allows.
LEMMA ConfigType ==
  ASSUME TypeInv, NEW c \in Live, NEW q \in QueryLogConfigs, used' = used,
         configs' = [configs EXCEPT ![c] = q]
  PROVE  /\ Live' = Live /\ Live' \subseteq used'
         /\ configs' \in [Live' -> QueryLogConfigs]
BY DEF TypeInv, TypeOK, Live

LEMMA WithoutType ==
  ASSUME TypeInv, NEW c \in Live, used' = used, configs' = Without(c)
  PROVE  /\ Live' = Live \ {c} /\ Live' \subseteq used'
         /\ configs' \in [Live' -> QueryLogConfigs]
BY DEF TypeInv, TypeOK, Live, Without

\* What others do to a configuration keeps it one.
LEMMA OthersType ==
  ASSUME TypeInv, NEW c \in Live,
         \/ ConfigSettles(c) \/ AssociationSettles(c) \/ TaggedByOthers(c)
         \/ AssociatedByOthers(c) \/ DeletedByOthers(c)
  PROVE  TypeInv'
<1>a. configs[c] \in QueryLogConfigs /\ configs \in [Live -> QueryLogConfigs]
  BY DEF TypeInv, TypeOK
<1>b. /\ UNCHANGED <<cr, queued, ctl, work, used, faults>>
      /\ edits' \in 0..MaxEdits /\ drift' \in 0..MaxDrift
  BY ConfigBoundsAssumption
     DEF ConfigSettles, AssociationSettles, TaggedByOthers, AssociatedByOthers,
         DeletedByOthers, TypeInv, TypeOK
<1>1. ASSUME ConfigSettles(c)
      PROVE  Live' \subseteq used' /\ configs' \in [Live' -> QueryLogConfigs]
  <2>1. CASE configs' = Without(c)
    BY <1>b, <2>1, WithoutType
  <2>2. ASSUME NEW s \in {"CREATED", "FAILED"},
               configs' = [configs EXCEPT ![c].status = s]
        PROVE  Live' \subseteq used' /\ configs' \in [Live' -> QueryLogConfigs]
    <3>1. [configs[c] EXCEPT !.status = s] \in QueryLogConfigs
      BY <1>a, <2>2 DEF QueryLogConfigs, ConfigStatus
    <3>2. configs' = [configs EXCEPT ![c] = [configs[c] EXCEPT !.status = s]]
      BY <2>2
    <3> QED BY <1>b, <3>1, <3>2, ConfigType
  <2> QED BY <1>1, <2>1, <2>2 DEF ConfigSettles
<1>2. ASSUME NEW s \in AssociationStatus,
             configs' = [configs EXCEPT ![c].assoc = s]
      PROVE  Live' \subseteq used' /\ configs' \in [Live' -> QueryLogConfigs]
  <2>1. [configs[c] EXCEPT !.assoc = s] \in QueryLogConfigs
    BY <1>a, <1>2 DEF QueryLogConfigs
  <2>2. configs' = [configs EXCEPT ![c] = [configs[c] EXCEPT !.assoc = s]]
    BY <1>2
  <2> QED BY <1>b, <2>1, <2>2, ConfigType
<1>3. ASSUME DeletedByOthers(c)
      PROVE  Live' \subseteq used' /\ configs' \in [Live' -> QueryLogConfigs]
  <2>1. [configs[c] EXCEPT !.status = "DELETING"] \in QueryLogConfigs
    BY <1>a DEF QueryLogConfigs, ConfigStatus
  <2>2. configs' = [configs EXCEPT ![c] =
                      [configs[c] EXCEPT !.status = "DELETING"]]
    BY <1>3 DEF DeletedByOthers
  <2> QED BY <1>b, <2>1, <2>2, ConfigType
<1>4. ASSUME TaggedByOthers(c)
      PROVE  Live' \subseteq used' /\ configs' \in [Live' -> QueryLogConfigs]
  <2>1. PICK k \in Keys, v \in Values \cup {Absent} :
          configs' = [configs EXCEPT ![c].tags[k] = v]
    BY <1>4 DEF TaggedByOthers
  <2>2. [configs[c].tags EXCEPT ![k] = v] \in TagMaps
    BY <1>a DEF QueryLogConfigs, TagMaps
  <2>3. [configs[c] EXCEPT !.tags = [configs[c].tags EXCEPT ![k] = v]]
          \in QueryLogConfigs
    BY <1>a, <2>2 DEF QueryLogConfigs
  <2>4. configs' = [configs EXCEPT ![c] =
          [configs[c] EXCEPT !.tags = [configs[c].tags EXCEPT ![k] = v]]]
    BY <2>1
  <2> QED BY <1>b, <2>3, <2>4, ConfigType
<1>5. Live' \subseteq used' /\ configs' \in [Live' -> QueryLogConfigs]
  BY <1>1, <1>2, <1>3, <1>4
     DEF AssociationSettles, AssociatedByOthers, AssociationStatus
<1>6. TypeOK'
  BY <1>5, <1>b DEF TypeInv, TypeOK
<1>7. TagsInv'
  BY <1>b DEF TypeInv, TagsInv, SystemTagsUntouched, Present
<1> QED BY <1>6, <1>7 DEF TypeInv

\* A create adds one configuration, which nobody knew of.
LEMMA CreateType ==
  ASSUME TypeInv, NEW i \in FreshConfigs, Creates(i)
  PROVE  /\ i \in ConfigIds /\ i \notin Live /\ i # cr.id /\ i # ctl.id
         /\ Live' = Live \cup {i} /\ Live' \subseteq used'
         /\ configs' \in [Live' -> QueryLogConfigs]
         /\ used' = used \cup {i} /\ used' \subseteq ConfigIds
         /\ \A c \in Live : configs'[c] = configs[c]
<1>1. i \in ConfigIds /\ i \notin Live /\ i # cr.id /\ i # ctl.id
  BY ConfigIdsAssumption DEF FreshConfigs, TypeInv, TypeOK
<1>2. [status |-> "CREATING", tags |-> ctl.tags, assoc |-> "NONE"]
        \in QueryLogConfigs
  BY DEF TypeInv, TypeOK, Reconciles, QueryLogConfigs, ConfigStatus,
         AssociationStatus
<1>3. Live' = Live \cup {i}
  BY DEF Creates, Live
<1> QED BY <1>1, <1>2, <1>3 DEF Creates, TypeInv, TypeOK

LEMMA WorkType ==
  ASSUME TypeInv, TagResource \/ UntagResource
  PROVE  TypeInv'
<1>a. /\ ctl \in Reconciles /\ work \in Work /\ ctl.id \in Live
      /\ ctl.pc = "work" /\ configs[ctl.id] \in QueryLogConfigs
      /\ used' = used
      /\ configs[ctl.id].tags \in TagMaps
  BY DEF TypeInv, TypeOK, TagResource, UntagResource, QueryLogConfigs
<1>1. PICK tags \in TagMaps :
        configs' = [configs EXCEPT ![ctl.id].tags = tags]
  <2>1. CASE TagResource
    <3> DEFINE tags == [k \in Keys |-> IF k \in Present(work.tag)
                          THEN work.tag[k] ELSE configs[ctl.id].tags[k]]
    <3>1. tags \in TagMaps
      BY <1>a DEF TagMaps, Work
    <3>2. configs' = [configs EXCEPT ![ctl.id].tags = tags]
      BY <2>1 DEF TagResource
    <3> QED BY <3>1, <3>2
  <2>2. CASE UntagResource
    <3> DEFINE tags == [k \in Keys |-> IF k \in work.untag
                          THEN Absent ELSE configs[ctl.id].tags[k]]
    <3>1. tags \in TagMaps
      BY <1>a DEF TagMaps
    <3>2. configs' = [configs EXCEPT ![ctl.id].tags = tags]
      BY <2>2 DEF UntagResource
    <3> QED BY <3>1, <3>2
  <2> QED BY <2>1, <2>2
<1>2. [configs[ctl.id] EXCEPT !.tags = tags] \in QueryLogConfigs
  BY <1>a DEF QueryLogConfigs
<1>3. configs' = [configs EXCEPT ![ctl.id] =
                    [configs[ctl.id] EXCEPT !.tags = tags]]
  BY <1>1
<1>4. Live' \subseteq used' /\ configs' \in [Live' -> QueryLogConfigs]
  BY <1>a, <1>2, <1>3, ConfigType
<1>5. work' \in Work /\ work'.untag \subseteq work.untag
      /\ Present(work'.tag) \subseteq Present(work.tag)
  BY <1>a, NoTagsType DEF TagResource, UntagResource, Work, Present, NoTags
<1>6. UNCHANGED <<cr, queued, ctl, used, faults, edits, drift>>
  BY DEF TagResource, UntagResource
<1>7. TypeOK'
  BY <1>4, <1>5, <1>6 DEF TypeInv, TypeOK
<1>8. TagsInv'
  BY <1>5, <1>6 DEF TypeInv, TagsInv, SystemTagsUntouched, Present
<1> QED BY <1>7, <1>8 DEF TypeInv

\* What getTags finds gives the worker no business with AWS's tags.
LEMMA getTagsType ==
  ASSUME TypeInv, getTags
  PROVE  TypeInv'
<1> DEFINE latest == configs[ctl.id].tags
           desired == mirrorAWSTags(ctl.tags, latest)
<1>a. /\ ctl \in Reconciles /\ cr \in Objects /\ ctl.tags \in TagMaps
      /\ latest \in TagMaps /\ cr.status \in ConfigStatus \cup {"nil"}
      /\ \A k \in AwsKeys : ctl.tags[k] = Absent
  BY DEF TypeInv, TypeOK, TagsInv, getTags, QueryLogConfigs, Reconciles, Objects
<1>b. desired \in TagMaps /\ \A k \in AwsKeys : desired[k] = latest[k]
  BY <1>a, MirrorType
<1>1. UNCHANGED <<cr, queued, configs, used, faults, edits, drift>>
  BY DEF getTags
<1> HIDE DEF desired, latest
<1>2. CASE work' = SyncTags(desired, latest) /\ ctl.mode = "sync"
           /\ ctl' = [ctl EXCEPT !.pc = "work", !.tags = desired,
                                 !.status = cr.status]
  <2>1. /\ ctl' \in Reconciles /\ ctl'.tags = desired /\ ctl'.pc = "work"
        /\ ctl'.id = ctl.id
    BY <1>2, <1>a, <1>b DEF Reconciles
  <2>2. /\ work' \in Work /\ \A k \in work'.untag : desired[k] = Absent
        /\ \A k \in Present(work'.tag) \cup work'.untag : desired[k] # latest[k]
    BY <1>2, <1>a, <1>b, SyncType
  <2>3. SystemTagsUntouched'
    BY <2>2, <1>b DEF SystemTagsUntouched, Present
  <2> QED
    BY <2>1, <2>2, <2>3, <1>1 DEF TypeInv, TypeOK, TagsInv, Live
<1>3. CASE UNCHANGED work /\ ctl.mode = "sync"
           /\ ctl' = [ctl EXCEPT !.pc = "patch", !.tags = desired]
  <2>1. ctl' \in Reconciles /\ ctl'.pc = "patch" /\ ctl'.id = ctl.id
    BY <1>3, <1>a, <1>b DEF Reconciles
  <2> QED
    BY <1>1, <1>3, <2>1 DEF TypeInv, TypeOK, TagsInv, SystemTagsUntouched, Live,
                            Present
<1>4. CASE UNCHANGED work /\ ctl' = [ctl EXCEPT !.pc = "delete"]
  <2>1. ctl' \in Reconciles /\ ctl'.pc = "delete" /\ ctl'.id = ctl.id
    BY <1>4, <1>a DEF Reconciles
  <2> QED
    BY <1>1, <1>4, <2>1 DEF TypeInv, TypeOK, TagsInv, SystemTagsUntouched, Live,
                            Present
<1> QED BY <1>2, <1>3, <1>4 DEF getTags, desired, latest

LEMMA StartType ==
  ASSUME TypeInv, StartReconcile
  PROVE  TypeInv'
<1>a. ctl \in Reconciles /\ cr \in Objects /\ cr.tags \in TagLists
      /\ cr.id \in ConfigIds \cup {NoId} /\ cr.phase \in {"live", "deleting", "gone"}
  BY DEF TypeInv, TypeOK, Objects
<1>b. /\ UNCHANGED <<cr, work, configs, used, faults, edits, drift>>
      /\ queued' \in QueueStates
  BY DEF StartReconcile, QueueStates
<1>1. /\ ctl' \in Reconciles /\ ctl'.pc # "work" /\ ctl'.id \in {cr.id, NoId}
      /\ ctl'.pc \in {"find", "tags"} => \A k \in AwsKeys : ctl'.tags[k] = Absent
  <2>1. CASE cr.phase = "gone"
    BY <2>1, IdleType DEF StartReconcile
  <2>2. CASE cr.phase = "live"
    <3> DEFINE tags == EnsureTags(convertToOrderedACKTags(cr.tags))
    <3>1. tags \in TagMaps /\ \A k \in AwsKeys : tags[k] = Absent
      BY <1>a, ConvertType, EnsureType
    <3>2. ctl' = [Idle EXCEPT !.pc = "find", !.id = cr.id, !.tags = tags]
      BY <2>2 DEF StartReconcile
    <3> HIDE DEF tags
    <3> QED BY <1>a, <3>1, <3>2, IdleType DEF Reconciles
  <2>3. CASE cr.phase = "deleting"
    <3>1. ctl' = [Idle EXCEPT !.pc = "find", !.mode = "delete", !.id = cr.id]
      BY <2>3 DEF StartReconcile
    <3> QED BY <1>a, <3>1, IdleType DEF Reconciles, NoTags, Keys
  <2> QED BY <1>a, <2>1, <2>2, <2>3
<1> QED
  BY <1>b, <1>1 DEF TypeInv, TypeOK, TagsInv, SystemTagsUntouched, Present, Live

\* The other steps of the worker that go on with the reconcile.
LEMMA ProgressType ==
  ASSUME TypeInv,
         \/ FindNothing \/ GetResolverQueryLogConfig \/ MarkManaged
         \/ CreateResolverQueryLogConfig \/ DeleteResolverQueryLogConfig
         \/ PatchStatus \/ MarkUnmanaged
  PROVE  TypeInv'
<1>a. ctl \in Reconciles /\ cr \in Objects /\ queued \in QueueStates
  BY DEF TypeInv, TypeOK
<1>b. TagsInv /\ SystemTagsUntouched
  BY DEF TypeInv, TagsInv
<1>1. CASE FindNothing
  <2>1. /\ ctl' \in Reconciles /\ ctl'.pc \in {"unmanage", "manage"}
        /\ ctl'.id = ctl.id
        /\ UNCHANGED <<cr, queued, work, configs, used, faults, edits, drift>>
    BY <1>1, <1>a DEF FindNothing, Reconciles
  <2> QED
    BY <2>1, <1>b DEF TypeInv, TypeOK, TagsInv, SystemTagsUntouched, Present, Live
<1>2. CASE GetResolverQueryLogConfig
  <2>1. configs[ctl.id].status \in ConfigStatus
    BY <1>2 DEF GetResolverQueryLogConfig, TypeInv, TypeOK, QueryLogConfigs
  <2>2. /\ ctl' \in Reconciles /\ ctl'.pc = "tags" /\ ctl'.tags = ctl.tags
        /\ ctl.pc = "find" /\ ctl'.id = ctl.id
        /\ UNCHANGED <<cr, queued, work, configs, used, faults, edits, drift>>
    BY <1>2, <1>a, <2>1 DEF GetResolverQueryLogConfig, Reconciles
  <2> QED
    BY <2>2, <1>b DEF TypeInv, TypeOK, TagsInv, SystemTagsUntouched, Present, Live
<1>3. CASE MarkManaged
  <2>1. CASE /\ cr' = [cr EXCEPT !.finalizer = TRUE]
             /\ ctl' = [ctl EXCEPT !.pc = "create"]
             /\ UNCHANGED <<queued, work>>
    <3>1. /\ cr' \in Objects /\ ctl' \in Reconciles /\ ctl'.pc = "create"
          /\ cr'.id = cr.id /\ ctl'.id = ctl.id
      BY <2>1, <1>a DEF Objects, Reconciles
    <3> QED
      BY <1>3, <2>1, <3>1, <1>b
         DEF MarkManaged, TypeInv, TypeOK, TagsInv, SystemTagsUntouched, Present,
             Live
  <2>2. CASE ReconcileError
    BY <1>3, <2>2, EndType, IdleType, NoWorkType
       DEF MarkManaged, TypeInv, TypeOK, Live
  <2> QED BY <1>3, <2>1, <2>2 DEF MarkManaged
<1>4. CASE CreateResolverQueryLogConfig
  <2>1. PICK i \in FreshConfigs :
          Creates(i) /\ ctl' = [ctl EXCEPT !.pc = "patch", !.id = i,
                                           !.status = "CREATING"]
    BY <1>4 DEF CreateResolverQueryLogConfig
  <2>2. /\ i \in ConfigIds /\ Live' \subseteq used'
        /\ configs' \in [Live' -> QueryLogConfigs]
        /\ used' = used \cup {i} /\ used' \subseteq ConfigIds
    BY <2>1, CreateType
  <2>3. ctl' \in Reconciles /\ ctl'.pc = "patch" /\ ctl'.id = i
    BY <2>1, <2>2, <1>a DEF Reconciles, ConfigStatus
  <2> QED
    BY <1>4, <2>2, <2>3, <1>b
       DEF CreateResolverQueryLogConfig, TypeInv, TypeOK, TagsInv,
           SystemTagsUntouched, Present
<1>5. CASE DeleteResolverQueryLogConfig
  <2>1. [configs[ctl.id] EXCEPT !.status = "DELETING"] \in QueryLogConfigs
    BY <1>5 DEF DeleteResolverQueryLogConfig, TypeInv, TypeOK, QueryLogConfigs,
                ConfigStatus
  <2>2. configs' = [configs EXCEPT ![ctl.id] =
                      [configs[ctl.id] EXCEPT !.status = "DELETING"]]
        /\ ctl.id \in Live /\ used' = used
    BY <1>5 DEF DeleteResolverQueryLogConfig
  <2>3. Live' \subseteq used' /\ configs' \in [Live' -> QueryLogConfigs]
    BY <2>1, <2>2, ConfigType
  <2>4. ctl' \in Reconciles /\ ctl'.pc = "unmanage" /\ ctl'.id = ctl.id
    BY <1>5, <1>a DEF DeleteResolverQueryLogConfig, Reconciles
  <2> QED
    BY <1>5, <2>3, <2>4, <1>b
       DEF DeleteResolverQueryLogConfig, TypeInv, TypeOK, TagsInv,
           SystemTagsUntouched, Present
<1>6. CASE PatchStatus
  <2>1. cr' \in Objects /\ cr'.id \in {cr.id, ctl.id}
    BY <1>6, <1>a DEF PatchStatus, Objects, Reconciles, IsSynced
  <2>2. /\ queued' \in QueueStates /\ ctl' = Idle
        /\ UNCHANGED <<work, configs, used, faults, edits, drift>>
    BY <1>6 DEF PatchStatus, QueueStates
  <2> QED
    BY <2>1, <2>2, <1>b, IdleType
       DEF TypeInv, TypeOK, TagsInv, SystemTagsUntouched, Present, Live
<1>7. CASE MarkUnmanaged
  <2>1. /\ cr' \in Objects /\ ctl' = Idle /\ cr'.id = cr.id
        /\ UNCHANGED <<queued, work, configs, used, faults, edits, drift>>
    BY <1>7, <1>a DEF MarkUnmanaged, Objects
  <2> QED
    BY <2>1, <1>b, IdleType
       DEF TypeInv, TypeOK, TagsInv, SystemTagsUntouched, Present, Live
<1> QED BY <1>1, <1>2, <1>3, <1>4, <1>5, <1>6, <1>7

LEMMA UserType ==
  ASSUME TypeInv, EditTags \/ DeleteResource \/ Resync
  PROVE  TypeInv'
<1>1. /\ cr' \in Objects /\ queued' \in QueueStates /\ edits' \in 0..MaxEdits
      /\ cr'.id = cr.id
      /\ UNCHANGED <<ctl, work, configs, used, faults, drift>>
  BY ConfigBoundsAssumption
     DEF TypeInv, TypeOK, EditTags, DeleteResource, Resync, Objects, QueueStates
<1> QED
  BY <1>1 DEF TypeInv, TypeOK, TagsInv, SystemTagsUntouched, Present, Live

LEMMA NextType == TypeInv /\ [Next]_vars => TypeInv'
<1> SUFFICES ASSUME TypeInv, [Next]_vars PROVE TypeInv'
  OBVIOUS
<1>1. CASE UNCHANGED vars
  BY <1>1 DEF vars, TypeInv, TypeOK, TagsInv, SystemTagsUntouched, Present, Live
<1>2. CASE CreateLost
  <2>1. PICK i \in FreshConfigs : Creates(i)
    BY <1>2 DEF CreateLost
  <2>2. /\ Live' \subseteq used' /\ configs' \in [Live' -> QueryLogConfigs]
        /\ used' = used \cup {i} /\ used' \subseteq ConfigIds
    BY <2>1, CreateType
  <2>3. faults' \in 0..MaxFaults /\ UNCHANGED <<edits, drift>> /\ ReconcileError
    BY <1>2, ConfigBoundsAssumption DEF CreateLost, TypeInv, TypeOK
  <2> QED
    BY <2>2, <2>3, EndType, IdleType, NoWorkType DEF TypeInv, TypeOK
<1>3. CASE TerminallyRefused \/ CallRefused \/ CallFails \/ Restart
  <2>1. /\ faults' \in 0..MaxFaults /\ UNCHANGED <<configs, used, edits, drift>>
        /\ ReconcileError \/ ReconcileTerminal \/ ReconcileLost
    BY <1>3, ConfigBoundsAssumption
       DEF TerminallyRefused, CallRefused, CallFails, Restart, TypeInv, TypeOK
  <2> QED
    BY <2>1, EndType, IdleType, NoWorkType DEF TypeInv, TypeOK, Live
<1> QED
  BY <1>1, <1>2, <1>3, StartType, getTagsType, WorkType, ProgressType, UserType,
     OthersType
     DEF Next, User, Aws, Others, Controller, Finished

\* Whatever a step does, every variable keeps its type.
THEOREM ConfigTypeOK == Spec => []TypeOK
<1>1. TypeInv => TypeOK
  BY DEF TypeInv
<1> QED BY InitType, NextType, <1>1, PTL DEF Spec

\* The controller never asks AWS to set or to remove a tag of AWS's own,
\* whichever tags users, the controller and AWS may have (mirrorAWSTags, which
\* the runtime calls between reading the tags and comparing them).
THEOREM AwsTagsAreLeftAlone == Spec => []SystemTagsUntouched
<1>1. TypeInv => SystemTagsUntouched
  BY DEF TypeInv, TagsInv
<1> QED BY InitType, NextType, <1>1, PTL DEF Spec
-----------------------------------------------------------------------------
(* Wanted tags *)

\* A tag that goes, and not by the hands of others, is one UntagResource names.
LEMMA RemovalStep ==
  ASSUME TypeInv, [Next]_vars, NEW c \in Live, NEW k \in Keys,
         c \in DOMAIN configs', edits' = edits,
         configs[c].tags[k] # Absent, configs'[c].tags[k] = Absent
  PROVE  c = ctl.id /\ k \in work.untag /\ ctl.pc = "work"
<1>a. configs \in [Live -> QueryLogConfigs] /\ work \in Work /\ edits \in Nat
  BY ConfigBoundsAssumption DEF TypeInv, TypeOK
<1>1. configs' # configs
  OBVIOUS
<1>2. ASSUME NEW d \in Live, ConfigSettles(d) PROVE FALSE
  BY <1>2, <1>a DEF ConfigSettles, Without, QueryLogConfigs
<1>3. ASSUME NEW d \in Live, AssociationSettles(d) PROVE FALSE
  BY <1>3, <1>a DEF AssociationSettles, QueryLogConfigs
<1>4. ASSUME NEW d \in Live,
             TaggedByOthers(d) \/ AssociatedByOthers(d) PROVE FALSE
  BY <1>4, <1>a DEF TaggedByOthers, AssociatedByOthers
<1>5. ASSUME NEW d \in Live, DeletedByOthers(d) PROVE FALSE
  BY <1>5, <1>a DEF DeletedByOthers, QueryLogConfigs
<1>6. ASSUME CreateResolverQueryLogConfig \/ CreateLost PROVE FALSE
  <2>1. PICK i \in FreshConfigs : Creates(i)
    BY <1>6 DEF CreateResolverQueryLogConfig, CreateLost
  <2> QED BY <2>1, CreateType
<1>7. ASSUME DeleteResolverQueryLogConfig PROVE FALSE
  BY <1>7, <1>a DEF DeleteResolverQueryLogConfig, QueryLogConfigs
<1>8. ASSUME TagResource PROVE FALSE
  <2>1. configs'[c] # configs[c]
    OBVIOUS
  <2>2. c = ctl.id /\ configs'[c].tags =
          [l \in Keys |-> IF l \in Present(work.tag)
                          THEN work.tag[l] ELSE configs[c].tags[l]]
    BY <1>8, <1>a, <2>1 DEF TagResource, QueryLogConfigs
  <2> QED BY <2>2 DEF Present
<1>9. CASE UntagResource
  <2>1. configs'[c] # configs[c]
    OBVIOUS
  <2>2. c = ctl.id /\ configs'[c].tags =
          [l \in Keys |-> IF l \in work.untag
                          THEN Absent ELSE configs[c].tags[l]]
    BY <1>9, <1>a, <2>1 DEF UntagResource, QueryLogConfigs
  <2> QED BY <1>9, <2>2 DEF UntagResource
<1> QED
  BY <1>1, <1>2, <1>3, <1>4, <1>5, <1>6, <1>7, <1>8, <1>9
     DEF Next, vars, User, Aws, Others, Controller, EditTags, DeleteResource,
         StartReconcile, Resync, FindNothing, GetResolverQueryLogConfig, getTags,
         MarkManaged, TerminallyRefused, CallRefused, CallFails, PatchStatus,
         MarkUnmanaged, Restart, Finished

\* No wanted tag goes missing while a reconcile changes tags, whether or not it
\* gets past TagResource (SyncTags takes the keys it sends out of "removed").
THEOREM WantedTagsAreKept == Spec => WantedTagsStay
<1> DEFINE Kept ==
      \A c \in Live, k \in Keys :
        /\ c \in DOMAIN configs' /\ edits' = edits
        /\ configs[c].tags[k] # Absent /\ configs'[c].tags[k] = Absent
        => c = ctl.id /\ ctl.tags[k] = Absent
<1>1. TypeInv /\ [Next]_vars => [Kept]_vars
  BY RemovalStep DEF TypeInv, TagsInv
<1> QED BY InitType, NextType, <1>1, PTL DEF Spec, WantedTagsStay

\* Answered, the calls that SyncTags plans turn what was read into what is
\* desired, whichever tags either has.
LEMMA SyncLeads ==
  ASSUME NEW desired \in TagMaps, NEW latest \in TagMaps
  PROVE  [k \in Keys |->
            IF k \in SyncTags(desired, latest).untag THEN Absent
            ELSE IF k \in Present(SyncTags(desired, latest).tag)
                 THEN SyncTags(desired, latest).tag[k] ELSE latest[k]] = desired
<1> DEFINE come == [k \in Keys |->
              IF k \in SyncTags(desired, latest).untag THEN Absent
              ELSE IF k \in Present(SyncTags(desired, latest).tag)
                   THEN SyncTags(desired, latest).tag[k] ELSE latest[k]]
<1>1. ASSUME NEW k \in Keys PROVE come[k] = desired[k]
  <2>1. /\ k \in SyncTags(desired, latest).untag <=>
             latest[k] # Absent /\ desired[k] # latest[k] /\ desired[k] = Absent
        /\ SyncTags(desired, latest).tag[k] =
             IF desired[k] # Absent /\ desired[k] # latest[k]
             THEN desired[k] ELSE Absent
    BY DEF SyncTags, Present
  <2> QED BY <2>1 DEF Present
<1>2. desired = [k \in Keys |-> desired[k]]
  BY DEF TagMaps
<1> QED BY <1>1, <1>2

\* The calls of an update, each of them and in this order, bring the tags of the
\* configuration closer to those in sight.
LEMMA TagsStep ==
  ASSUME TypeInv, [Next]_vars, TagsInSight, edits' = edits
  PROVE  TagsInSight'
<1>a. /\ configs \in [Live -> QueryLogConfigs] /\ work \in Work
      /\ ctl \in Reconciles /\ edits \in Nat
  BY ConfigBoundsAssumption DEF TypeInv, TypeOK
<1>1. ASSUME ctl'.pc # "work" PROVE TagsInSight'
  BY <1>1 DEF TagsInSight
<1>2. ASSUME UNCHANGED <<ctl, work>>, Live' \subseteq Live,
             \A c \in Live' : configs'[c].tags = configs[c].tags
      PROVE  TagsInSight'
  BY <1>2 DEF TagsInSight, TagsToCome
<1>3. CASE TagResource
  <2>1. /\ ctl.pc = "work" /\ ctl.id \in Live /\ ctl' = ctl
        /\ configs'[ctl.id].tags =
             [k \in Keys |-> IF k \in Present(work.tag) THEN work.tag[k]
                             ELSE configs[ctl.id].tags[k]]
        /\ work'.tag = NoTags /\ work'.untag = work.untag
    BY <1>3, <1>a DEF TagResource, QueryLogConfigs, Work
  <2>2. TagsToCome(configs[ctl.id].tags) = ctl.tags
    BY <2>1 DEF TagsInSight
  <2>3. TagsToCome(configs[ctl.id].tags)' = TagsToCome(configs[ctl.id].tags)
    <3>1. ASSUME NEW k \in Keys
          PROVE  TagsToCome(configs[ctl.id].tags)'[k] =
                   TagsToCome(configs[ctl.id].tags)[k]
      BY <2>1 DEF TagsToCome, Present, NoTags
    <3> QED BY <3>1 DEF TagsToCome
  <2> QED BY <2>1, <2>2, <2>3 DEF TagsInSight
<1>4. CASE UntagResource
  <2>1. /\ ctl.pc = "work" /\ ctl.id \in Live /\ ctl' = ctl
        /\ configs'[ctl.id].tags =
             [k \in Keys |-> IF k \in work.untag THEN Absent
                             ELSE configs[ctl.id].tags[k]]
        /\ work'.tag = work.tag /\ work.tag = NoTags /\ work'.untag = {}
    BY <1>4, <1>a DEF UntagResource, QueryLogConfigs, Work
  <2>2. TagsToCome(configs[ctl.id].tags) = ctl.tags
    BY <2>1 DEF TagsInSight
  <2>3. TagsToCome(configs[ctl.id].tags)' = TagsToCome(configs[ctl.id].tags)
    <3>1. ASSUME NEW k \in Keys
          PROVE  TagsToCome(configs[ctl.id].tags)'[k] =
                   TagsToCome(configs[ctl.id].tags)[k]
      BY <2>1 DEF TagsToCome, Present, NoTags
    <3> QED BY <3>1 DEF TagsToCome
  <2> QED BY <2>1, <2>2, <2>3 DEF TagsInSight
<1>5. CASE getTags
  <2>1. CASE ctl.mode = "sync"
    <3> DEFINE latest == configs[ctl.id].tags
               desired == mirrorAWSTags(ctl.tags, latest)
    <3>1. /\ ctl.pc = "tags" /\ ctl.id \in Live /\ UNCHANGED configs
          /\ \A k \in AwsKeys : ctl.tags[k] = Absent
      BY <1>5 DEF getTags, TypeInv, TagsInv
    <3>2. latest \in TagMaps /\ ctl.tags \in TagMaps
      BY <1>a, <3>1 DEF QueryLogConfigs, Reconciles
    <3>3. desired \in TagMaps
      BY <3>1, <3>2, MirrorType
    <3>4. \/ ctl'.pc = "patch"
          \/ ctl'.id = ctl.id /\ ctl'.tags = desired
             /\ work' = SyncTags(desired, latest)
      BY <1>5, <1>a, <2>1 DEF getTags, Reconciles
    <3> HIDE DEF latest, desired
    <3>5. CASE ctl'.id = ctl.id /\ ctl'.tags = desired
               /\ work' = SyncTags(desired, latest)
      <4>1. configs'[ctl'.id].tags = latest
        BY <3>1, <3>5 DEF latest
      <4>2. TagsToCome(configs[ctl.id].tags)' = desired
        BY <3>2, <3>3, <3>5, <4>1, SyncLeads DEF TagsToCome
      <4> QED BY <3>5, <4>2 DEF TagsInSight
    <3> QED BY <1>1, <3>4, <3>5
  <2>2. CASE ctl.mode # "sync"
    BY <1>1, <1>5, <1>a, <2>2 DEF getTags, Reconciles
  <2> QED BY <2>1, <2>2
<1>6. ASSUME NEW c \in Live,
             \/ ConfigSettles(c) \/ AssociationSettles(c) \/ TaggedByOthers(c)
             \/ AssociatedByOthers(c) \/ DeletedByOthers(c)
      PROVE  TagsInSight'
  <2>1. UNCHANGED <<ctl, work>>
    BY <1>6 DEF ConfigSettles, AssociationSettles, TaggedByOthers,
                AssociatedByOthers, DeletedByOthers
  <2>2. ~(TaggedByOthers(c) \/ AssociatedByOthers(c))
    BY <1>a DEF TaggedByOthers, AssociatedByOthers
  <2>3. Live' \subseteq Live /\ \A d \in Live' : configs'[d].tags = configs[d].tags
    <3>1. CASE ConfigSettles(c)
      BY <1>a, <3>1 DEF ConfigSettles, Without, Live, QueryLogConfigs
    <3>2. CASE AssociationSettles(c)
      BY <1>a, <3>2 DEF AssociationSettles, Live, QueryLogConfigs
    <3>3. CASE DeletedByOthers(c)
      BY <1>a, <3>3 DEF DeletedByOthers, Live, QueryLogConfigs
    <3> QED BY <1>6, <2>2, <3>1, <3>2, <3>3
  <2> QED BY <1>2, <2>1, <2>3
<1>7. CASE UNCHANGED <<ctl, work, configs>>
  BY <1>2, <1>7 DEF Live
<1>8. CASE \/ CreateLost \/ TerminallyRefused \/ CallRefused \/ CallFails
           \/ Restart \/ StartReconcile \/ FindNothing \/ MarkManaged
           \/ GetResolverQueryLogConfig \/ CreateResolverQueryLogConfig
           \/ DeleteResolverQueryLogConfig \/ PatchStatus \/ MarkUnmanaged
  <2>1. CASE StartReconcile
    <3>1. cr.phase \in {"live", "deleting", "gone"}
      BY DEF TypeInv, TypeOK, Objects
    <3> QED BY <1>1, <2>1, <3>1, IdleType DEF StartReconcile, Idle
  <2>2. CASE ctl' = Idle
    BY <1>1, <2>2, IdleType
  <2>3. CASE \/ FindNothing \/ GetResolverQueryLogConfig \/ MarkManaged
             \/ CreateResolverQueryLogConfig \/ DeleteResolverQueryLogConfig
    BY <1>1, <2>2, <2>3, <1>a
       DEF FindNothing, GetResolverQueryLogConfig, MarkManaged, ReconcileError,
           CreateResolverQueryLogConfig, DeleteResolverQueryLogConfig, Reconciles
  <2> QED
    BY <1>8, <2>1, <2>2, <2>3
       DEF CreateLost, TerminallyRefused, CallRefused, CallFails, Restart,
           PatchStatus, MarkUnmanaged, ReconcileError, ReconcileTerminal,
           ReconcileLost
<1> QED
  BY <1>3, <1>4, <1>5, <1>6, <1>7, <1>8
     DEF Next, vars, User, Aws, Others, Controller, EditTags, DeleteResource,
         Resync, Finished

\* For any tags that users, the controller, AWS and others may have set, the
\* calls of an update lead to the tags it wants (SyncTags, mirrorAWSTags).
THEOREM TagCallsAreEnough == Spec => TagCallsLead
<1>1. TypeInv /\ [Next]_vars =>
        [TagsInSight /\ edits' = edits => TagsInSight']_vars
  BY TagsStep
<1> QED BY InitType, NextType, <1>1, PTL DEF Spec, TagCallsLead
-----------------------------------------------------------------------------
(* The promise of every manager *)

Standing == {c \in Live : configs[c].status # "DELETING"}

\* Where the worker is, what it takes the object for, and what it may count on.
Life ==
  /\ ctl.pc \in {"manage", "create", "work", "patch"} => ctl.mode = "sync"
  /\ ctl.pc \in {"delete", "unmanage"} => ctl.mode = "delete"
  /\ ctl.pc # "idle" /\ ctl.mode = "delete" => cr.phase = "deleting"
  /\ ctl.pc \notin {"idle", "patch"} => ctl.id = cr.id
  /\ ctl.pc = "patch" /\ ctl.id # cr.id =>
       ctl.id \in ConfigIds /\ cr.id \notin Standing /\ Exists /\ cr.finalizer
  /\ ctl.pc \in {"manage", "create", "unmanage"} => cr.id \notin Standing
  /\ ctl.pc = "create" => Exists /\ cr.finalizer
  /\ cr.id \in Standing => Exists /\ cr.finalizer

Bound == TypeInv /\ Life

ManagedVars ==
  <<cr.phase, cr.finalizer, cr.id, PendingId, Standing, drift>>

\* A reconcile that ends leaves nothing for the worker to remember.
LEMMA ForgetStep ==
  ASSUME Bound, ctl' = Idle, cr'.id = cr.id, cr'.phase = cr.phase,
         cr'.finalizer = cr.finalizer
  PROVE  /\ PendingId' = NoId
         /\ Standing' = Standing /\ drift' = drift => Managed!Forget
         /\ Standing' \subseteq Standing => Life'
<1>1. PendingId' = NoId
  BY IdleType DEF PendingId
<1>2. ASSUME Standing' = Standing, drift' = drift PROVE Managed!Forget
  BY <1>1, <1>2 DEF Managed!Forget, Standing
<1>3. ASSUME Standing' \subseteq Standing PROVE Life'
  BY <1>3, IdleType DEF Bound, Life, Exists
<1> QED BY <1>1, <1>2, <1>3

\* What leaves worker and object alone, and makes nothing.
LEMMA QuietStep ==
  ASSUME Bound, UNCHANGED <<ctl, cr>>, Standing' \subseteq Standing
  PROVE  Life' /\ PendingId' = PendingId
BY DEF Bound, Life, Exists, PendingId

LEMMA StandingFacts ==
  ASSUME Bound
  PROVE  /\ ctl \in Reconciles /\ cr \in Objects /\ Standing \subseteq ConfigIds
         /\ NoId \notin Standing /\ NoId \notin ConfigIds
         /\ configs \in [Live -> QueryLogConfigs]
         /\ drift \in Nat /\ Life
BY ConfigIdsAssumption, ConfigBoundsAssumption
   DEF Bound, TypeInv, TypeOK, Standing

\* The other parties' steps, seen by the promise.
LEMMA OthersStep ==
  ASSUME Bound, NEW c \in Live,
         \/ ConfigSettles(c) \/ AssociationSettles(c) \/ TaggedByOthers(c)
         \/ AssociatedByOthers(c) \/ DeletedByOthers(c)
  PROVE  Life' /\ [Managed!Next]_ManagedVars
<1>a. configs[c] \in QueryLogConfigs /\ configs \in [Live -> QueryLogConfigs]
  BY StandingFacts DEF QueryLogConfigs
<1>b. UNCHANGED <<ctl, cr>>
  BY DEF ConfigSettles, AssociationSettles, TaggedByOthers, AssociatedByOthers,
         DeletedByOthers
<1>1. CASE ConfigSettles(c) \/ AssociationSettles(c) \/ TaggedByOthers(c)
           \/ AssociatedByOthers(c)
  <2>1. Standing' = Standing
    <3>1. CASE ConfigSettles(c)
      <4>1. CASE configs' = Without(c) /\ configs[c].status = "DELETING"
        BY <4>1 DEF Without, Live, Standing
      <4>2. ASSUME NEW s \in {"CREATED", "FAILED"}, configs[c].status = "CREATING",
                   configs' = [configs EXCEPT ![c].status = s]
            PROVE  Standing' = Standing
        BY <4>2, <1>a DEF Live, Standing, QueryLogConfigs
      <4> QED BY <3>1, <4>1, <4>2 DEF ConfigSettles
    <3>2. CASE AssociationSettles(c) \/ AssociatedByOthers(c)
      BY <3>2, <1>a DEF AssociationSettles, AssociatedByOthers, Live, Standing,
                        QueryLogConfigs
    <3>3. CASE TaggedByOthers(c)
      BY <3>3, <1>a DEF TaggedByOthers, Live, Standing, QueryLogConfigs
    <3> QED BY <1>1, <3>1, <3>2, <3>3
  <2>2. drift' = drift
    BY <1>1 DEF ConfigSettles, AssociationSettles, TaggedByOthers,
                AssociatedByOthers
  <2> QED BY <1>b, <2>1, <2>2, QuietStep DEF ManagedVars
<1>2. CASE DeletedByOthers(c)
  <2>1. Standing' = Standing \ {c} /\ c \in Standing /\ drift' = drift + 1
    BY <1>2, <1>a DEF DeletedByOthers, Live, Standing, QueryLogConfigs
  <2>2. Life' /\ PendingId' = PendingId
    BY <1>b, <2>1, QuietStep
  <2>3. Managed!Drift(c) /\ c \in ConfigIds
    BY <1>b, <2>1, <2>2, StandingFacts DEF Managed!Drift, Standing
  <2> QED BY <2>2, <2>3 DEF Managed!Next
<1> QED BY <1>1, <1>2

LEMMA CreateStep ==
  ASSUME Bound, NEW i \in FreshConfigs, Creates(i), drift' = drift,
         cr'.id = cr.id, cr'.phase = cr.phase, cr'.finalizer = cr.finalizer,
         PendingId' \in {i, NoId}
  PROVE  Managed!Next
<1>1. i \in ConfigIds /\ i \notin Live /\ Live' = Live \cup {i}
      /\ \A c \in Live : configs'[c] = configs[c]
  BY CreateType DEF Bound
<1>2. configs'[i].status = "CREATING"
  BY <1>1 DEF Creates, Live
<1>3. Standing' = Standing \cup {i} /\ i \notin Standing
  BY <1>1, <1>2 DEF Standing
<1>4. PendingId = NoId /\ Exists /\ cr.finalizer /\ cr.id \notin Standing
  BY StandingFacts DEF Creates, PendingId, Life
<1>5. Managed!Create(i)
  BY <1>3, <1>4 DEF Managed!Create, Standing, Exists
<1> QED BY <1>1, <1>5 DEF Managed!Next

LEMMA EndStep ==
  ASSUME Bound,
         ReconcileError \/ ReconcileTerminal \/ ReconcileLost,
         CreateLost \/ UNCHANGED <<configs, used, drift>>
  PROVE  Life' /\ [Managed!Next]_ManagedVars
<1>1. /\ ctl' = Idle /\ cr'.id = cr.id /\ cr'.phase = cr.phase
      /\ cr'.finalizer = cr.finalizer
  BY EndType DEF Bound
<1>2. CASE UNCHANGED <<configs, used, drift>>
  <2>1. Standing' = Standing
    BY <1>2 DEF Standing, Live
  <2> QED BY <1>1, <1>2, <2>1, ForgetStep DEF Managed!Next
<1>3. CASE CreateLost
  <2>1. PICK i \in FreshConfigs : Creates(i)
    BY <1>3 DEF CreateLost
  <2>2. PendingId' = NoId
    BY <1>1, IdleType DEF PendingId
  <2>3. Managed!Next
    BY <1>1, <1>3, <2>1, <2>2, CreateStep DEF CreateLost
  <2>4. Exists /\ cr.finalizer
    BY <2>1, StandingFacts DEF Creates, Life
  <2>5. Life'
    BY <1>1, <2>4, IdleType DEF Life, Exists
  <2> QED BY <2>3, <2>5
<1> QED BY <1>2, <1>3

\* The steps of a reconcile that goes on, in the promise's terms.
LEMMA ProgressStep ==
  ASSUME Bound,
         \/ StartReconcile \/ FindNothing \/ GetResolverQueryLogConfig
         \/ getTags \/ TagResource \/ UntagResource
  PROVE  Life' /\ UNCHANGED ManagedVars
<1>a. ctl \in Reconciles /\ Life /\ configs \in [Live -> QueryLogConfigs]
  BY StandingFacts
<1>1. CASE StartReconcile
  <2>1. UNCHANGED <<cr, configs, used, drift>> /\ ctl.pc = "idle"
    BY <1>1 DEF StartReconcile
  <2>2. \/ ctl' = Idle
        \/ /\ ctl'.pc = "find" /\ ctl'.id = cr.id
           /\ ctl'.mode = "delete" => cr.phase = "deleting"
    <3>1. cr.phase \in {"live", "deleting", "gone"}
      BY StandingFacts DEF Objects
    <3> QED BY <1>1, <3>1, IdleType DEF StartReconcile, Idle
  <2> QED
    BY <1>a, <2>1, <2>2, IdleType DEF Life, Standing, Live, Exists, ManagedVars,
                                      PendingId
<1>2. CASE FindNothing
  <2>1. /\ UNCHANGED <<cr, configs, used, drift>> /\ ctl.pc = "find"
        /\ ctl.id \notin Live /\ ctl'.mode = ctl.mode /\ ctl'.id = ctl.id
        /\ ctl'.pc = IF ctl.mode = "delete" THEN "unmanage" ELSE "manage"
        /\ ctl.mode \in {"sync", "delete"}
    BY <1>2, <1>a DEF FindNothing, Reconciles
  <2> QED
    BY <1>a, <2>1 DEF Life, Standing, Live, Exists, ManagedVars, PendingId
<1>3. CASE GetResolverQueryLogConfig
  <2>1. /\ UNCHANGED <<cr, configs, used, drift>> /\ ctl.pc = "find"
        /\ ctl'.mode = ctl.mode /\ ctl'.id = ctl.id /\ ctl'.pc = "tags"
    BY <1>3, <1>a DEF GetResolverQueryLogConfig, Reconciles
  <2> QED
    BY <1>a, <2>1 DEF Life, Standing, Live, Exists, ManagedVars, PendingId
<1>4. CASE getTags
  <2>1. /\ UNCHANGED <<cr, configs, used, drift>> /\ ctl.pc = "tags"
        /\ ctl'.mode = ctl.mode /\ ctl'.id = ctl.id
        /\ \/ ctl'.pc \in {"work", "patch"} /\ ctl.mode = "sync"
           \/ ctl'.pc = "delete" /\ ctl.mode = "delete"
    BY <1>4, <1>a DEF getTags, Reconciles
  <2> QED
    BY <1>a, <2>1 DEF Life, Standing, Live, Exists, ManagedVars, PendingId
<1>5. CASE TagResource \/ UntagResource
  <2>1. UNCHANGED <<cr, ctl, used, drift>>
    BY <1>5 DEF TagResource, UntagResource
  <2>2. Standing' = Standing
    BY <1>5, <1>a DEF TagResource, UntagResource, Live, Standing, QueryLogConfigs
  <2> QED BY <2>1, <2>2, QuietStep DEF ManagedVars
<1> QED BY <1>1, <1>2, <1>3, <1>4, <1>5

LEMMA PromisedStep ==
  ASSUME Bound, [Next]_vars
  PROVE  Life' /\ [Managed!Next]_ManagedVars
<1>a. ctl \in Reconciles /\ cr \in Objects /\ Life
      /\ NoId \notin Standing /\ NoId \notin ConfigIds
      /\ configs \in [Live -> QueryLogConfigs]
  BY StandingFacts
<1>1. CASE UNCHANGED vars \/ EditTags \/ Resync
  <2>1. /\ UNCHANGED <<ctl, configs, used, drift>> /\ cr'.id = cr.id
        /\ cr'.phase = cr.phase /\ cr'.finalizer = cr.finalizer
    BY <1>1, <1>a DEF vars, EditTags, Resync, Objects
  <2> QED
    BY <1>a, <2>1 DEF Life, Standing, Live, Exists, ManagedVars, PendingId
<1>2. CASE DeleteResource
  <2>1. /\ UNCHANGED <<ctl, configs, used, drift>> /\ cr'.id = cr.id
        /\ cr.phase = "live" /\ cr'.finalizer = cr.finalizer
        /\ cr'.phase = IF cr.finalizer THEN "deleting" ELSE "gone"
    BY <1>2, <1>a DEF DeleteResource, Objects
  <2>2. Managed!Delete
    BY <2>1 DEF Managed!Delete, Standing, Live, PendingId
  <2> QED
    BY <1>a, <2>1, <2>2 DEF Life, Standing, Live, Exists, Managed!Next
<1>3. CASE MarkManaged
  <2>1. CASE Exists /\ cr' = [cr EXCEPT !.finalizer = TRUE]
                    /\ ctl' = [ctl EXCEPT !.pc = "create"]
    <3>1. /\ UNCHANGED <<configs, used, drift>> /\ ctl.pc = "manage"
          /\ ctl'.pc = "create" /\ ctl'.id = ctl.id /\ ctl'.mode = ctl.mode
          /\ cr'.finalizer = TRUE /\ cr'.id = cr.id /\ cr'.phase = cr.phase
      BY <1>3, <1>a, <2>1 DEF MarkManaged, Objects, Reconciles
    <3>2. Managed!Guard
      BY <2>1, <3>1 DEF Managed!Guard, Standing, Live, PendingId, Exists
    <3> QED
      BY <1>a, <2>1, <3>1, <3>2 DEF Life, Standing, Live, Exists, Managed!Next
  <2> QED BY <1>3, <2>1, EndStep DEF MarkManaged
<1>4. CASE CreateResolverQueryLogConfig
  <2>1. PICK i \in FreshConfigs :
          Creates(i) /\ ctl' = [ctl EXCEPT !.pc = "patch", !.id = i,
                                           !.status = "CREATING"]
    BY <1>4 DEF CreateResolverQueryLogConfig
  <2>2. i \in ConfigIds /\ i \notin Live /\ i # cr.id /\ Live' = Live \cup {i}
        /\ \A c \in Live : configs'[c] = configs[c]
    BY <2>1, CreateType DEF Bound
  <2>3. /\ UNCHANGED <<cr, drift>> /\ ctl.pc = "create" /\ ctl'.pc = "patch"
        /\ ctl'.id = i /\ ctl'.mode = ctl.mode
    BY <1>4, <1>a, <2>1
       DEF CreateResolverQueryLogConfig, Creates, Reconciles
  <2>4. Managed!Next
    BY <2>1, <2>2, <2>3, CreateStep DEF PendingId
  <2>5. cr.id \notin Standing'
    BY <1>a, <2>2, <2>3 DEF Life, Standing
  <2>6. Life'
    BY <1>a, <2>2, <2>3, <2>5 DEF Life, Exists
  <2> QED BY <2>4, <2>6
<1>5. CASE DeleteResolverQueryLogConfig
  <2>1. /\ UNCHANGED <<cr, used, drift>> /\ ctl.pc = "delete" /\ ctl'.pc = "unmanage"
        /\ ctl'.id = ctl.id /\ ctl'.mode = ctl.mode /\ ctl.id \in Live
        /\ configs' = [configs EXCEPT ![ctl.id].status = "DELETING"]
    BY <1>5, <1>a DEF DeleteResolverQueryLogConfig, Reconciles
  <2>2. Standing' = Standing \ {cr.id} /\ cr.phase = "deleting" /\ ctl.id = cr.id
    BY <1>a, <2>1 DEF Life, Standing, Live, QueryLogConfigs
  <2>3. Managed!Destroy
    BY <2>1, <2>2 DEF Managed!Destroy, Standing, PendingId
  <2> QED BY <1>a, <2>1, <2>2, <2>3 DEF Life, Exists, Managed!Next
<1>6. CASE PatchStatus
  <2>1. /\ ctl' = Idle /\ UNCHANGED <<configs, used, drift>>
        /\ ctl.pc \in {"patch", "work"} /\ PendingId' = NoId
        /\ Standing' = Standing
    BY <1>6, IdleType DEF PatchStatus, PendingId, Standing, Live
  <2>2. CASE Exists
    <3>1. cr'.id = ctl.id /\ cr'.phase = cr.phase /\ cr'.finalizer = cr.finalizer
      BY <1>6, <1>a, <2>2 DEF PatchStatus, Objects
    <3>2. CASE ctl.id = cr.id
      BY <1>a, <2>1, <3>1, <3>2, IdleType DEF Life, Exists, ManagedVars, PendingId
    <3>3. CASE ctl.id # cr.id
      <4>1. ctl.pc = "patch" /\ ctl.id # NoId /\ cr.id \notin Standing
            /\ cr.finalizer
        BY <1>a, <2>1, <3>3 DEF Life
      <4>2. Managed!Bind
        BY <2>1, <2>2, <3>1, <3>3, <4>1
           DEF Managed!Bind, PendingId, Standing, Exists
      <4> QED
        BY <2>1, <2>2, <3>1, <4>1, <4>2, IdleType DEF Life, Exists, Managed!Next
    <3> QED BY <3>2, <3>3
  <2>3. CASE ~Exists
    <3>1. cr' = cr /\ ctl.id = cr.id
      BY <1>6, <1>a, <2>1, <2>3 DEF PatchStatus, Life
    <3> QED BY <1>a, <2>1, <3>1, IdleType DEF Life, Exists, ManagedVars, PendingId
  <2> QED BY <2>2, <2>3
<1>7. CASE MarkUnmanaged
  <2>1. /\ ctl' = Idle /\ UNCHANGED <<configs, used, drift>> /\ cr'.id = cr.id
        /\ cr'.phase = "gone" /\ cr'.finalizer = FALSE
    BY <1>7, <1>a DEF MarkUnmanaged, Objects
  <2>2. cr.phase = "deleting" /\ cr.id \notin Standing /\ PendingId = NoId
    BY <1>7, <1>a DEF MarkUnmanaged, Life, PendingId
  <2>3. Managed!Release
    BY <2>1, <2>2, IdleType DEF Managed!Release, PendingId, Standing, Live
  <2> QED
    BY <2>1, <2>2, <2>3, IdleType DEF Life, Standing, Live, Managed!Next
<1>8. CASE CreateLost \/ TerminallyRefused \/ CallRefused \/ CallFails \/ Restart
  BY <1>8, EndStep
     DEF CreateLost, TerminallyRefused, CallRefused, CallFails, Restart
<1> QED
  BY <1>1, <1>2, <1>3, <1>4, <1>5, <1>6, <1>7, <1>8, ProgressStep, OthersStep
     DEF Next, User, Aws, Others, Controller, Finished

LEMMA InitBound == Init => Bound /\ Managed!Init
<1> SUFFICES ASSUME Init PROVE Bound /\ Managed!Init
  OBVIOUS
<1>1. cr.phase = "live" /\ cr.finalizer = FALSE /\ cr.id = NoId
  BY DEF Init
<1>2. Standing = {} /\ PendingId = NoId /\ drift \in Nat
  BY IdleType, ConfigBoundsAssumption DEF Init, Standing, Live, PendingId
<1>3. Life
  BY <1>1, <1>2, IdleType DEF Init, Life
<1>4. Managed!Init
  BY <1>1, <1>2 DEF Managed!Init, Standing
<1> QED BY <1>3, <1>4, InitType DEF Bound

\* Each step around a configuration is one that ManagedResource allows, or none:
\* it is made only under the finalizer and beside no other, deleted only with
\* the object, and the object goes only after it, however calls fail, answers
\* get lost, and others interfere (MarkManaged, sdkFind, sdkCreate, sdkDelete
\* and MarkUnmanaged in the order of the runtime).
THEOREM ConfigIsManaged == Spec => RefinesManaged
<1>1. Bound /\ [Next]_vars => Bound'
  BY NextType, PromisedStep DEF Bound
<1>2. Bound /\ [Next]_vars => [Managed!Next]_(Managed!vars)
  BY PromisedStep DEF ManagedVars, Managed!vars, Standing
<1> QED
  BY InitBound, <1>1, <1>2, PTL DEF Spec, RefinesManaged, Managed!Spec
-----------------------------------------------------------------------------
(* The status that is reported *)

\* Created, or no more than that in need of deleting.
Made == {"CREATED", "DELETING"}

\* What the object and the worker hold of a status that was read is not ahead of
\* AWS, and an object is reported as synced for such a status alone.
StatusLeads ==
  /\ cr.phase = "live" /\ cr.synced /\ ~cr.terminal => cr.status = "CREATED"
  /\ cr.status = "CREATED" /\ cr.id \in Live => configs[cr.id].status \in Made
  /\ ctl.pc \in {"tags", "work", "patch"} /\ ctl.status = "CREATED"
     /\ ctl.id \in Live => configs[ctl.id].status \in Made

HonestInv == Bound /\ StatusLeads

\* A configuration with an id that is known was there before, and once it is
\* made it is not unmade.
LEMMA MadeStays ==
  ASSUME TypeInv, [Next]_vars, NEW c \in Live', c \in {cr.id, ctl.id}
  PROVE  c \in Live /\ (configs[c].status \in Made => configs'[c].status \in Made)
<1> DEFINE Goal ==
      c \in Live /\ (configs[c].status \in Made => configs'[c].status \in Made)
<1>a. configs \in [Live -> QueryLogConfigs] /\ ctl \in Reconciles
  BY DEF TypeInv, TypeOK
<1>1. CASE UNCHANGED configs
  BY <1>1 DEF Live
<1>2. ASSUME NEW d \in Live, ConfigSettles(d) PROVE Goal
  <2>1. CASE configs' = Without(d)
    BY <2>1, <1>a DEF Without, Live
  <2>2. ASSUME NEW s \in {"CREATED", "FAILED"}, configs[d].status = "CREATING",
               configs' = [configs EXCEPT ![d].status = s]
        PROVE  Goal
    BY <2>2, <1>a DEF Live, QueryLogConfigs, Made
  <2> QED BY <1>2, <2>1, <2>2 DEF ConfigSettles
<1>3. ASSUME NEW d \in Live,
             \/ AssociationSettles(d) \/ AssociatedByOthers(d)
             \/ DeletedByOthers(d)
      PROVE  Goal
  BY <1>3, <1>a DEF AssociationSettles, AssociatedByOthers, DeletedByOthers,
                    Live, QueryLogConfigs, Made
<1>4. ASSUME NEW d \in Live, TaggedByOthers(d) PROVE Goal
  BY <1>4, <1>a DEF TaggedByOthers, Live, QueryLogConfigs
<1>5. CASE CreateResolverQueryLogConfig \/ CreateLost
  <2>1. PICK i \in FreshConfigs : Creates(i)
    BY <1>5 DEF CreateResolverQueryLogConfig, CreateLost
  <2>2. /\ i # cr.id /\ i # ctl.id /\ Live' = Live \cup {i}
        /\ \A d \in Live : configs'[d] = configs[d]
    BY <2>1, CreateType
  <2> QED BY <2>2
<1>6. CASE TagResource \/ UntagResource \/ DeleteResolverQueryLogConfig
  BY <1>6, <1>a DEF TagResource, UntagResource, DeleteResolverQueryLogConfig,
                    Live, QueryLogConfigs, Made
<1> QED
  BY <1>1, <1>2, <1>3, <1>4, <1>5, <1>6
     DEF Next, vars, User, Aws, Others, Controller, EditTags, DeleteResource,
         StartReconcile, Resync, FindNothing, GetResolverQueryLogConfig, getTags,
         MarkManaged, TerminallyRefused, CallRefused, CallFails, PatchStatus,
         MarkUnmanaged, Restart, Finished

\* What the object and the worker already held stays behind AWS.
LEMMA StatusKept ==
  ASSUME HonestInv, [Next]_vars,
         cr'.id = cr.id, cr'.status = cr.status,
         cr'.phase = "live" /\ cr'.synced /\ ~cr'.terminal =>
           cr.phase = "live" /\ cr.synced /\ ~cr.terminal,
         \/ ctl'.pc \notin {"tags", "work", "patch"}
         \/ /\ ctl.pc \in {"tags", "work", "patch"}
            /\ ctl'.id = ctl.id /\ ctl'.status = ctl.status
         \/ ctl'.id = cr.id /\ ctl'.status = cr.status
         \/ ctl'.status # "CREATED"
  PROVE  StatusLeads'
<1>1. ASSUME cr'.status = "CREATED", cr'.id \in Live'
      PROVE  configs'[cr'.id].status \in Made
  <2>1. cr.id \in Live'
    BY <1>1
  <2> QED BY <1>1, <2>1, MadeStays DEF HonestInv, Bound, StatusLeads
<1>2. ASSUME ctl'.pc \in {"tags", "work", "patch"}, ctl'.status = "CREATED",
             ctl'.id \in Live'
      PROVE  configs'[ctl'.id].status \in Made
  BY <1>1, <1>2, MadeStays DEF HonestInv, Bound, StatusLeads
<1> QED BY <1>1, <1>2 DEF HonestInv, StatusLeads

LEMMA StatusStep ==
  ASSUME HonestInv, [Next]_vars
  PROVE  StatusLeads'
<1>a. /\ ctl \in Reconciles /\ cr \in Objects /\ Life /\ TypeInv
      /\ configs \in [Live -> QueryLogConfigs]
  BY StandingFacts DEF HonestInv, Bound
<1>1. CASE \/ UNCHANGED vars \/ EditTags \/ DeleteResource \/ Resync
           \/ StartReconcile \/ FindNothing \/ DeleteResolverQueryLogConfig
           \/ TagResource \/ UntagResource \/ MarkUnmanaged
  <2>1. /\ cr'.id = cr.id /\ cr'.status = cr.status
        /\ cr'.phase = "live" => cr.phase = "live"
        /\ cr'.synced = cr.synced /\ cr'.terminal = cr.terminal
    BY <1>1, <1>a
       DEF vars, EditTags, DeleteResource, Resync, StartReconcile, FindNothing,
           DeleteResolverQueryLogConfig, TagResource, UntagResource,
           MarkUnmanaged, Objects
  <2>2. ctl' = ctl \/ ctl'.pc \notin {"tags", "work", "patch"}
    <3>1. CASE StartReconcile
      <4>1. cr.phase \in {"live", "deleting", "gone"}
        BY <1>a DEF Objects
      <4> QED BY <3>1, <4>1, IdleType DEF StartReconcile, Idle
    <3>2. CASE FindNothing \/ DeleteResolverQueryLogConfig
      BY <3>2, <1>a DEF FindNothing, DeleteResolverQueryLogConfig, Reconciles
    <3> QED
      BY <1>1, <3>1, <3>2, IdleType
         DEF vars, EditTags, DeleteResource, Resync, TagResource, UntagResource,
             MarkUnmanaged
  <2> QED BY <2>1, <2>2, StatusKept
<1>2. ASSUME ReconcileError \/ ReconcileTerminal \/ ReconcileLost
      PROVE  StatusLeads'
  <2>1. ctl' = Idle /\ ctl'.pc = "idle"
    BY <1>2, <1>a, EndType, IdleType
  <2>2. /\ cr'.id = cr.id /\ cr'.status = cr.status
        /\ cr'.phase = "live" /\ cr'.synced /\ ~cr'.terminal =>
             cr.phase = "live" /\ cr.synced /\ ~cr.terminal
    <3>1. ctl.pc = "delete" => cr.phase = "deleting"
      BY <1>a DEF Life
    <3> QED
      BY <1>2, <1>a, <3>1
         DEF ReconcileError, ReconcileTerminal, ReconcileLost, Objects
  <2> QED BY <2>1, <2>2, StatusKept
<1>3. CASE \/ CreateLost \/ TerminallyRefused \/ CallRefused \/ CallFails
           \/ Restart
  BY <1>2, <1>3 DEF CreateLost, TerminallyRefused, CallRefused, CallFails, Restart
<1>4. CASE GetResolverQueryLogConfig
  <2>1. /\ UNCHANGED <<cr, configs>> /\ ctl'.id = ctl.id
        /\ ctl'.status = configs[ctl.id].status
    BY <1>4, <1>a DEF GetResolverQueryLogConfig, Reconciles
  <2> QED BY <2>1 DEF HonestInv, StatusLeads, Made, Live
<1>5. CASE getTags
  <2>1. UNCHANGED cr /\ ctl.pc = "tags" /\ ctl.id = cr.id
    BY <1>5, <1>a DEF getTags, Life
  <2>2. /\ ctl'.id = ctl.id
        /\ \/ ctl'.status = cr.status
           \/ ctl'.status = ctl.status
    BY <1>5, <1>a DEF getTags, Reconciles
  <2> QED BY <2>1, <2>2, StatusKept
<1>6. CASE MarkManaged
  <2>1. CASE /\ cr' = [cr EXCEPT !.finalizer = TRUE]
             /\ ctl' = [ctl EXCEPT !.pc = "create"]
    <3>1. /\ cr'.id = cr.id /\ cr'.status = cr.status /\ ctl'.pc = "create"
          /\ cr'.phase = cr.phase /\ cr'.synced = cr.synced
          /\ cr'.terminal = cr.terminal
      BY <2>1, <1>a DEF Objects, Reconciles
    <3> QED BY <3>1, StatusKept
  <2> QED BY <1>2, <1>6, <2>1 DEF MarkManaged
<1>7. CASE CreateResolverQueryLogConfig
  <2>1. UNCHANGED cr /\ ctl'.status = "CREATING"
    BY <1>7, <1>a DEF CreateResolverQueryLogConfig, Reconciles
  <2> QED BY <2>1, StatusKept
<1>8. CASE PatchStatus
  <2>1. /\ ctl' = Idle /\ ctl'.pc = "idle" /\ UNCHANGED configs
        /\ ctl.pc \in {"patch", "work"}
    BY <1>8, IdleType DEF PatchStatus
  <2>2. CASE Exists
    <3>1. /\ cr'.id = ctl.id /\ cr'.status = ctl.status
          /\ cr'.synced = IsSynced(ctl.status)
      BY <1>8, <2>2, <1>a DEF PatchStatus, Objects
    <3> QED BY <2>1, <3>1 DEF HonestInv, StatusLeads, IsSynced, Live
  <2>3. CASE ~Exists
    <3>1. UNCHANGED cr
      BY <1>8, <2>3 DEF PatchStatus
    <3> QED BY <2>1, <3>1, StatusKept
  <2> QED BY <2>2, <2>3
<1>9. ASSUME NEW c \in Live,
             \/ ConfigSettles(c) \/ AssociationSettles(c) \/ TaggedByOthers(c)
             \/ AssociatedByOthers(c) \/ DeletedByOthers(c)
      PROVE  StatusLeads'
  <2>1. UNCHANGED <<cr, ctl>>
    BY <1>9 DEF ConfigSettles, AssociationSettles, TaggedByOthers,
                AssociatedByOthers, DeletedByOthers
  <2> QED BY <2>1, StatusKept
<1> QED
  BY <1>1, <1>3, <1>4, <1>5, <1>6, <1>7, <1>8, <1>9
     DEF Next, User, Aws, Others, Controller, Finished

\* A resource reported as synced, with no event pending and no reconcile under
\* way, has been created, or is being deleted: although an update reports it by
\* the status that an earlier reconcile had read (IsSynced, and
\* customUpdateResolverQueryLogConfig returning the desired resource).
THEOREM SyncedConfigIsTrue == Spec => []SyncedConfigIsHonest
<1>1. Init => HonestInv
  <2> SUFFICES ASSUME Init PROVE HonestInv
    OBVIOUS
  <2>1. /\ cr.status = "nil" /\ cr.synced = FALSE /\ ctl.pc = "idle"
    BY IdleType DEF Init
  <2> QED BY <2>1, InitBound DEF HonestInv, StatusLeads
<1>2. HonestInv /\ [Next]_vars => HonestInv'
  BY NextType, PromisedStep, StatusStep DEF HonestInv, Bound
<1>3. HonestInv => SyncedConfigIsHonest
  BY DEF HonestInv, StatusLeads, SyncedConfigIsHonest, Made
<1> QED BY <1>1, <1>2, <1>3, PTL DEF Spec
-----------------------------------------------------------------------------
(* Deletions that are given up *)

\* A user who deletes the object while a sync of it is under way has its key
\* queued, and nothing takes it out before the sync is over.
DeletionIsQueued ==
  ctl.pc # "idle" /\ ctl.mode = "sync" /\ cr.phase = "deleting" => queued = "now"

QueueInv == HonestInv /\ DeletionIsQueued

\* What a step may do to the queue and to an object given up.
GivesUpRightly ==
  DeletionIsQueued' /\ (~GivenUp /\ GivenUp' => DeleteRefusable)

LEMMA QueueStep ==
  ASSUME QueueInv, [Next]_vars
  PROVE  GivesUpRightly
<1>a. /\ ctl \in Reconciles /\ cr \in Objects /\ Life /\ TypeInv
      /\ DeletionIsQueued
  BY StandingFacts DEF QueueInv, HonestInv, Bound
<1>1. ASSUME queued' = "now" PROVE GivesUpRightly
  BY <1>1 DEF GivesUpRightly, DeletionIsQueued, GivenUp
<1>2. ASSUME queued' = queued, cr'.phase = cr.phase, ctl'.mode = ctl.mode,
             ctl'.pc # "idle" <=> ctl.pc # "idle"
      PROVE  GivesUpRightly
  BY <1>2, <1>a DEF GivesUpRightly, DeletionIsQueued, GivenUp
<1>3. ASSUME ctl'.pc = "idle", queued' # "never" \/ cr'.phase = "gone"
      PROVE  GivesUpRightly
  BY <1>3 DEF GivesUpRightly, DeletionIsQueued, GivenUp
<1>4. CASE EditTags \/ DeleteResource \/ Resync \/ CallRefused \/ CallFails
           \/ CreateLost \/ Restart
  BY <1>1, <1>4
     DEF EditTags, DeleteResource, Resync, CallRefused, CallFails, CreateLost,
         Restart, ReconcileError, ReconcileLost
<1>5. CASE StartReconcile
  <2>1. cr.phase \in {"live", "deleting", "gone"} /\ cr' = cr
    BY <1>5, <1>a DEF StartReconcile, Objects
  <2>2. CASE cr.phase = "gone"
    BY <1>3, <1>5, <2>1, <2>2, IdleType DEF StartReconcile
  <2>3. CASE cr.phase = "live"
    BY <2>1, <2>3 DEF GivesUpRightly, DeletionIsQueued, GivenUp
  <2>4. CASE cr.phase = "deleting"
    <3>1. ctl'.pc = "find" /\ ctl'.mode = "delete"
      BY <1>5, <2>4, IdleType DEF StartReconcile, Idle
    <3> QED BY <3>1 DEF GivesUpRightly, DeletionIsQueued, GivenUp
  <2> QED BY <2>1, <2>2, <2>3, <2>4
<1>6. CASE TerminallyRefused
  <2>1. /\ ctl'.pc = "idle" /\ cr'.phase = cr.phase /\ queued' = queued
        /\ (ctl.pc = "create" \/ DeleteRefusable)
    BY <1>6, <1>a, EndType, IdleType DEF TerminallyRefused, ReconcileTerminal
  <2>2. ctl.pc = "create" => ctl.mode = "sync"
    BY <1>a DEF Life
  <2> QED BY <1>a, <2>1, <2>2 DEF GivesUpRightly, DeletionIsQueued, GivenUp
<1>7. CASE PatchStatus
  BY <1>3, <1>7, IdleType DEF PatchStatus
<1>8. CASE MarkUnmanaged
  BY <1>3, <1>8, <1>a, IdleType DEF MarkUnmanaged, Objects
<1>9. CASE FindNothing \/ GetResolverQueryLogConfig \/ getTags
           \/ CreateResolverQueryLogConfig \/ DeleteResolverQueryLogConfig
  <2>1. UNCHANGED <<cr, queued>> /\ ctl'.mode = ctl.mode
        /\ ctl.pc # "idle" /\ ctl'.pc # "idle"
    BY <1>9, <1>a
       DEF FindNothing, GetResolverQueryLogConfig, getTags, Creates,
           CreateResolverQueryLogConfig, DeleteResolverQueryLogConfig, Reconciles
  <2> QED BY <1>2, <2>1
<1>10. CASE MarkManaged
  <2>1. CASE ReconcileError
    BY <1>1, <2>1 DEF ReconcileError
  <2>2. CASE ~ReconcileError
    <3>1. /\ ctl'.pc = "create" /\ ctl'.mode = ctl.mode /\ ctl.pc = "manage"
          /\ cr'.phase = cr.phase /\ queued' = queued
      BY <1>10, <2>2, <1>a DEF MarkManaged, Objects, Reconciles
    <3> QED BY <1>2, <3>1
  <2> QED BY <2>1, <2>2
<1>11. CASE UNCHANGED <<cr, queued, ctl>>
  BY <1>2, <1>11
<1>12. CASE Aws \/ Others
  BY <1>11, <1>12
     DEF Aws, Others, ConfigSettles, AssociationSettles, TaggedByOthers,
         AssociatedByOthers, DeletedByOthers
<1>13. CASE UNCHANGED vars \/ TagResource \/ UntagResource
  BY <1>11, <1>13 DEF vars, TagResource, UntagResource
<1> QED
  BY <1>4, <1>5, <1>6, <1>7, <1>8, <1>9, <1>10, <1>12, <1>13
     DEF Next, User, Controller, Finished

LEMMA InitQueue == Init => QueueInv
<1> SUFFICES ASSUME Init PROVE QueueInv
  OBVIOUS
<1>1. cr.status = "nil" /\ cr.synced = FALSE /\ ctl.pc = "idle"
  BY IdleType DEF Init
<1> QED BY <1>1, InitBound DEF QueueInv, HonestInv, StatusLeads, DeletionIsQueued

\* Whatever a user deletes the object in the middle of, and whichever calls fail
\* or find the configuration gone, a deletion stops being tried only in a step
\* in which AWS refuses it for a reason that the code calls terminal.
THEOREM ConfigIsGivenUpWhenRefused == Spec => GivenUpWhenRefused
<1>1. QueueInv /\ [Next]_vars =>
        QueueInv' /\ [~GivenUp /\ GivenUp' => DeleteRefusable]_vars
  BY NextType, PromisedStep, StatusStep, QueueStep
     DEF QueueInv, HonestInv, Bound, GivesUpRightly
<1> QED BY InitQueue, <1>1, PTL DEF Spec, GivenUpWhenRefused
=============================================================================
