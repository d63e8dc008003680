------------------------- MODULE ResolverRuleProofs -------------------------
(***************************************************************************)
(* What ResolverRule keeps for any number of VPCs, tags, edits and faults. *)
(*                                                                         *)
(* Bound is the inductive invariant: it ties the id the worker carries to  *)
(* the id in the status at each point of a reconcile.  The guard of the    *)
(* finalizer, the stability of the binding and the count of orphans follow *)
(* from it.                                                                *)
(***************************************************************************)
EXTENDS ResolverRule, FiniteSetTheorems, TLAPS

\* Where the worker stands decides what it is doing.
ModeOfPc ==
  /\ ctl.pc = "find" => ctl.mode \in {"sync", "delete"}
  /\ ctl.pc \in {"manage", "create"} => ctl.mode = "sync"
  /\ ctl.pc = "creating" => ctl.mode = "create"
  /\ ctl.pc = "work" => ctl.mode \in {"create", "update", "delete"}
  /\ ctl.pc = "unmanage" => ctl.mode = "delete"
  /\ ctl.pc = "idle" => ctl.id = NoId

\* A create is under way, or a rule being worked on, under an id AWS was given.
IdDrawn == ctl.pc \in {"creating", "work"} => ctl.id \in used

\* A request is only made of a config that it can carry.
PayableCreated == ctl.pc = "creating" => Payable(ctl.desired)

TypeInv == TypeOK /\ IdDrawn /\ PayableCreated

\* Only the worker that creates carries another id than the status, and then
\* the id in the status is one that AWS does not know.
IdOfPc ==
  /\ ctl.pc \in {"find", "manage", "create", "unmanage"} => ctl.id = cr.id
  /\ ctl.pc = "work" /\ ctl.mode # "create" => ctl.id = cr.id
  /\ ctl.pc \in {"manage", "create", "creating", "unmanage"} => cr.id \notin Live
  /\ ctl.pc = "work" /\ ctl.mode = "create" => cr.id \notin Live
  /\ ctl.pc = "creating" => ctl.id # cr.id

\* The finalizer covers the calls that make, change and delete a rule.
Guarded ==
  /\ cr.id \in used \cup {NoId}
  /\ cr.finalizer => Exists
  /\ cr.phase = "deleting" => cr.finalizer
  /\ ctl.pc \in {"create", "creating", "work", "unmanage"} => cr.finalizer
  /\ ctl.pc # "idle" /\ ctl.mode = "delete" => cr.phase = "deleting"
  /\ KnownRuleIsGuarded

Bound == TypeInv /\ ModeOfPc /\ IdOfPc /\ Guarded
-----------------------------------------------------------------------------
LEMMA AnySpecType == AnySpec \in Specs
<1>1. \E s \in Specs : TRUE
  <2>1. PICK c \in Configs, e \in Endpoints, d \in Domains : TRUE
    BY SetsAssumption
  <2>2. [config |-> c, endpoint |-> e, domain |-> d, tags |-> {}, vpcs |-> {}]
          \in Specs
    BY DEF Specs
  <2> QED BY <2>2
<1> QED BY <1>1 DEF AnySpec

LEMMA IdleType ==
  /\ Idle \in Reconciles
  /\ Idle.pc = "idle" /\ Idle.id = NoId /\ Idle.mode = "sync"
BY AnySpecType DEF Idle, Reconciles

LEMMA NoWorkType == NoWork \in Work
BY DEF NoWork, Work

\* The configs a rule in AWS can have.
AwsConfigs == [name : Names, port : Int32]

\* A config that fits a request arrives as it was written.
LEMMA SentAsWritten ==
  ASSUME NEW c \in Configs, ~Overflows(c)
  PROVE  /\ Sent(c) = c
         /\ ~Nameless(c) => c \in AwsConfigs
<1>1. c \in [name : Names \cup {NoName}, port : Int] /\ c.port \in Int32
  BY SetsAssumption DEF Overflows
<1>2. int32(c.port) = c.port
  BY <1>1 DEF int32
<1>3. Sent(c) = c
  BY <1>1, <1>2 DEF Sent
<1> QED BY <1>1, <1>3, SetsAssumption DEF Nameless, AwsConfigs

\* An update makes a config that a rule can have, with the port it was sent.
LEMMA UpdatedType ==
  ASSUME NEW old \in AwsConfigs, NEW c \in Configs, ~Overflows(c)
  PROVE  /\ Updated(old, Sent(c)) \in AwsConfigs
         /\ Updated(old, Sent(c)).port = c.port
         /\ ~Nameless(c) => Updated(old, Sent(c)) = c
<1>1. Sent(c) = c /\ c \in [name : Names \cup {NoName}, port : Int]
  BY SentAsWritten, SetsAssumption
<1>2. CASE Nameless(c)
  <2>1. Updated(old, Sent(c)) = [c EXCEPT !.name = old.name]
    BY <1>1, <1>2 DEF Updated
  <2>2. old.name \in Names /\ c.port \in Int32
    BY DEF AwsConfigs, Overflows
  <2> QED BY <1>1, <1>2, <2>1, <2>2 DEF AwsConfigs
<1>3. CASE ~Nameless(c)
  BY <1>1, <1>3, SentAsWritten DEF Updated
<1> QED BY <1>2, <1>3

\* The resource ReadOne returns; its config need not be one a user writes.
Resources == [config : AwsConfigs, endpoint : Endpoints, domain : Domains,
              tags : SUBSET TagKeys, vpcs : SUBSET Vpcs]

\* ReadOne returns a well-formed resource.
LEMMA ObservedType ==
  ASSUME TypeOK, NEW r \in Live PROVE Observed(r) \in Resources
<1>1. rules[r] \in Rules
  BY DEF TypeOK
<1> QED
  BY <1>1 DEF Observed, Resources, AwsConfigs, Rules, getAttachedVPC

LEMMA PlanType ==
  ASSUME NEW d \in Specs, NEW l \in Resources
  PROVE  /\ customUpdateResolverRule(d, l) \in Work
         /\ createAssociation(d) \in Work
         /\ disassociateAll(l) \in Work
BY DEF customUpdateResolverRule, createAssociation, disassociateAll, Specs,
       Resources, Work, NoWork, toAdd, toDelete

\* The rule AWS makes of a create request, and the rules it then holds.
LEMMA WithType ==
  ASSUME TypeOK, NEW t \in RuleIds, NEW d \in Specs, Payable(d)
  PROVE  With(t, d) \in [Live \cup {t} -> Rules]
<1>1. d.config \in Configs /\ ~Overflows(d.config) /\ ~Nameless(d.config)
  BY DEF Specs, Payable
<1>2. Sent(d.config) \in [name : Names, port : Int32]
  BY <1>1, SentAsWritten DEF AwsConfigs
<1>3. [v \in Vpcs |-> "NONE"] \in [Vpcs -> AssocStatus]
  BY DEF AssocStatus
<1>4. d.endpoint \in Endpoints /\ d.domain \in Domains /\ d.tags \in SUBSET TagKeys
  BY DEF Specs
<1>5. NewRule(d) \in Rules
  BY <1>2, <1>3, <1>4 DEF NewRule, Rules
<1> QED BY <1>5 DEF With, TypeOK

LEMMA WithoutType ==
  ASSUME TypeOK, NEW r
  PROVE  /\ Without(r) \in [Live \ {r} -> Rules]
         /\ DOMAIN Without(r) = Live \ {r}
         /\ \A s \in Live \ {r} : Without(r)[s] = rules[s]
BY DEF Without, TypeOK

\* The ways a reconcile ends keep the types, whatever else the step does.
LEMMA EndType ==
  ASSUME TypeOK, ReconcileError \/ ReconcileLost
  PROVE  /\ cr' \in Objects /\ cr'.id = cr.id /\ cr'.phase = cr.phase
         /\ cr'.finalizer = cr.finalizer /\ cr'.spec = cr.spec
         /\ ctl' = Idle /\ work' = NoWork /\ queued' = TRUE
<1>1. CASE cr' = cr
  BY <1>1 DEF TypeOK, ReconcileError, ReconcileLost, Objects
<1>2. CASE cr' = [cr EXCEPT !.synced = FALSE]
  BY <1>2 DEF TypeOK, ReconcileError, ReconcileLost, Objects
<1> QED BY <1>1, <1>2 DEF ReconcileError, ReconcileLost

\* A failing operation ends the reconcile, or, inside sdkCreate, only the rest
\* of its associations.
LEMMA FailType ==
  ASSUME TypeOK, OperationFails
  PROVE  /\ cr' \in Objects /\ cr'.id = cr.id /\ cr'.phase = cr.phase
         /\ cr'.finalizer = cr.finalizer /\ cr'.spec = cr.spec
         /\ ctl' = Idle \/ (ctl' = ctl /\ ctl.pc = "work" /\ ctl.mode = "create")
         /\ work' = NoWork /\ queued' \in BOOLEAN
<1>1. CASE ReconcileError
  BY <1>1, EndType
<1>2. CASE ~ReconcileError
  BY <1>2 DEF OperationFails, TypeOK
<1> QED BY <1>1, <1>2
-----------------------------------------------------------------------------
(* Types *)

LEMMA InitType == Init => TypeInv
<1> SUFFICES ASSUME Init PROVE TypeInv
  OBVIOUS
<1>1. cr \in Objects
  BY DEF Init, Objects
<1>2. ctl \in Reconciles /\ work \in Work /\ ctl.pc = "idle"
  BY IdleType, NoWorkType DEF Init
<1>3. rules \in [Live -> Rules] /\ Live = {}
  BY DEF Init, Live
<1> QED
  BY <1>1, <1>2, <1>3, BoundsAssumption
     DEF Init, TypeInv, TypeOK, IdDrawn, PayableCreated

LEMMA NextType == TypeInv /\ [Next]_vars => TypeInv'
<1> SUFFICES ASSUME TypeInv, [Next]_vars PROVE TypeInv'
  OBVIOUS
<1> USE IdleType, NoWorkType, BoundsAssumption
    DEF TypeInv, IdDrawn, PayableCreated
<1>1. CASE UNCHANGED vars
  BY <1>1 DEF vars, TypeOK, Live
<1>2. CASE EditSpec
  BY <1>2 DEF EditSpec, TypeOK, Live, Objects
<1>3. CASE DeleteResource
  BY <1>3 DEF DeleteResource, TypeOK, Live, Objects
<1>4. ASSUME NEW r \in Live, NEW v \in Vpcs, AssociationSettles(r, v)
      PROVE  TypeInv'
  <2>1. rules' \in [Live -> Rules] /\ DOMAIN rules' = Live
    BY <1>4 DEF AssociationSettles, TypeOK, Rules, AssocStatus
  <2> QED BY <1>4, <2>1 DEF AssociationSettles, TypeOK, Live
<1>5. ASSUME NEW r \in Live, RuleDrifts(r)
      PROVE  TypeInv'
  <2>1. rules' \in [Live \ {r} -> Rules] /\ DOMAIN rules' = Live \ {r}
    BY <1>5, WithoutType DEF RuleDrifts
  <2>2. drift' \in 0..MaxDrift
    BY <1>5 DEF RuleDrifts, TypeOK
  <2> QED BY <1>5, <2>1, <2>2 DEF RuleDrifts, TypeOK, Live
<1>6. CASE StartReconcile
  BY <1>6 DEF StartReconcile, TypeOK, Live, Objects, Reconciles
<1>7. CASE Resync
  BY <1>7 DEF Resync, TypeOK, Live
<1>8. CASE FindNothing
  BY <1>8 DEF FindNothing, TypeOK, Live, Reconciles
<1>9. CASE FindRule
  <2>1. Observed(ctl.id) \in Resources /\ ctl.desired \in Specs
    BY <1>9, ObservedType DEF FindRule, TypeOK, Reconciles
  <2>2. work' \in Work
    BY <1>9, <2>1, PlanType DEF FindRule
  <2>3. DifferentExceptTagsAssociations(ctl.desired, Observed(ctl.id))
          \in BOOLEAN
    BY DEF DifferentExceptTagsAssociations
  <2>4. ctl' \in Reconciles /\ ctl'.id \in used /\ ctl'.pc = "work"
    BY <1>9, <2>3 DEF FindRule, TypeOK, Reconciles
  <2> QED BY <1>9, <2>2, <2>4 DEF FindRule, TypeOK, Live
<1>10. CASE FindPanics
  <2>1. /\ cr' \in Objects /\ ctl' = Idle /\ work' = NoWork /\ queued' = TRUE
        /\ UNCHANGED <<rules, used, edits, drift>>
    BY <1>10, EndType DEF FindPanics
  <2>2. faults' \in 0..MaxFaults
    BY <1>10 DEF FindPanics, TypeOK
  <2> QED BY <2>1, <2>2 DEF TypeOK, Live
<1>11. CASE MarkManaged
  <2>1. CASE ReconcileError
    BY <1>11, <2>1, EndType DEF MarkManaged, TypeOK, Live
  <2>2. CASE ~ReconcileError
    BY <1>11, <2>2 DEF MarkManaged, TypeOK, Live, Objects, Reconciles
  <2> QED BY <2>1, <2>2
<1>12. CASE CreateRefused
  BY <1>12, EndType DEF CreateRefused, TypeOK, Live
<1>13. CASE PrepareCreate
  BY <1>13 DEF PrepareCreate, getCreatorRequestId, TypeOK, Live, Reconciles
<1>14. CASE CreateResolverRule \/ CreateRetried
  <2>1. /\ ctl.pc = "creating" /\ ctl.id \in used /\ ctl.desired \in Specs
        /\ Payable(ctl.desired)
    BY <1>14 DEF CreateResolverRule, CreateRetried, TypeOK, Reconciles
  <2>2. /\ rules' \in [Live \cup {ctl.id} -> Rules]
        /\ DOMAIN rules' = Live \cup {ctl.id}
    <3>1. ctl.id \in RuleIds
      BY <2>1 DEF TypeOK
    <3>2. rules' = With(ctl.id, ctl.desired)
      BY <1>14 DEF CreateResolverRule, CreateRetried
    <3> QED BY <2>1, <3>1, <3>2, WithType DEF With
  <2>3. /\ work' \in Work /\ ctl' \in Reconciles /\ ctl'.id = ctl.id
        /\ ctl'.desired = ctl.desired
        /\ UNCHANGED <<cr, queued, used, faults, edits, drift>>
    <3>1. createAssociation(ctl.desired) \in Work
      BY <2>1 DEF createAssociation, Specs, Work, NoWork, toAdd
    <3> QED
      BY <1>14, <2>1, <3>1
         DEF CreateResolverRule, CreateRetried, TypeOK, Reconciles
  <2> QED BY <2>1, <2>2, <2>3 DEF TypeOK, Live
<1>15. CASE TagResource \/ UntagResource
  <2>1. rules' \in [Live -> Rules] /\ DOMAIN rules' = Live /\ work' \in Work
    <3>1. ctl.id \in Live /\ rules[ctl.id] \in Rules /\ work \in Work
      BY <1>15 DEF TagResource, UntagResource, TypeOK
    <3>2. PICK t \in SUBSET TagKeys :
            rules' = [rules EXCEPT ![ctl.id].tags = t]
      BY <1>15, <3>1 DEF TagResource, UntagResource, Rules, Work
    <3>3. work' \in Work
      BY <1>15, <3>1 DEF TagResource, UntagResource, Work
    <3>4. [rules[ctl.id] EXCEPT !.tags = t] \in Rules
      BY <3>1 DEF Rules
    <3> QED BY <3>1, <3>2, <3>3, <3>4 DEF TypeOK
  <2> QED BY <1>15, <2>1 DEF TagResource, UntagResource, TypeOK, Live
<1>16. ASSUME NEW v \in Vpcs,
              AssociateResolverRule(v) \/ DisassociateResolverRule(v)
       PROVE  TypeInv'
  <2>1. rules' \in [Live -> Rules] /\ DOMAIN rules' = Live /\ work' \in Work
    <3>1. ctl.id \in Live /\ rules[ctl.id] \in Rules /\ work \in Work
      BY <1>16 DEF AssociateResolverRule, DisassociateResolverRule, TypeOK
    <3>2. PICK a \in AssocStatus :
            rules' = [rules EXCEPT ![ctl.id].assoc[v] = a]
      BY <1>16 DEF AssociateResolverRule, DisassociateResolverRule, AssocStatus
    <3>3. work' \in Work
      BY <1>16, <3>1 DEF AssociateResolverRule, DisassociateResolverRule, Work
    <3>4. [rules[ctl.id] EXCEPT !.assoc[v] = a] \in Rules
      BY <3>1 DEF Rules
    <3> QED BY <3>1, <3>2, <3>3, <3>4 DEF TypeOK
  <2> QED BY <1>16, <2>1
          DEF AssociateResolverRule, DisassociateResolverRule, TypeOK, Live
<1>17. CASE UpdateResolverRule
  <2>1. rules' \in [Live -> Rules] /\ DOMAIN rules' = Live /\ work' \in Work
    <3>1. /\ ctl.id \in Live /\ rules[ctl.id] \in Rules /\ work \in Work
          /\ ctl.desired.config \in Configs /\ ctl.desired.endpoint \in Endpoints
          /\ rules[ctl.id].config \in AwsConfigs
      BY <1>17 DEF UpdateResolverRule, TypeOK, Reconciles, Specs, Rules, AwsConfigs
    <3>2. PICK c \in AwsConfigs :
            rules' = [rules EXCEPT ![ctl.id].config = c,
                                   ![ctl.id].endpoint = ctl.desired.endpoint]
      BY <1>17, <3>1, UpdatedType DEF UpdateResolverRule
    <3>3. work' \in Work
      BY <1>17, <3>1 DEF UpdateResolverRule, Work
    <3>4. [rules[ctl.id] EXCEPT !.config = c,
                                !.endpoint = ctl.desired.endpoint] \in Rules
      BY <3>1 DEF Rules, AwsConfigs
    <3> QED BY <3>1, <3>2, <3>3, <3>4 DEF TypeOK
  <2> QED BY <1>17, <2>1 DEF UpdateResolverRule, TypeOK, Live
<1>18. CASE DeleteResolverRule
  <2>1. /\ rules' \in [Live \ {ctl.id} -> Rules]
        /\ DOMAIN rules' = Live \ {ctl.id}
    BY <1>18, WithoutType DEF DeleteResolverRule
  <2>2. ctl' \in Reconciles /\ ctl'.pc = "unmanage"
    BY <1>18 DEF DeleteResolverRule, TypeOK, Reconciles
  <2> QED BY <1>18, <2>1, <2>2 DEF DeleteResolverRule, TypeOK, Live
<1>19. CASE CallRefused
  BY <1>19, FailType DEF CallRefused, TypeOK, Live
<1>20. CASE CallFails
  BY <1>20, FailType DEF CallFails, TypeOK, Live
<1>21. CASE PatchStatus
  BY <1>21 DEF PatchStatus, TypeOK, Live, Objects, Reconciles
<1>22. CASE MarkUnmanaged
  BY <1>22 DEF MarkUnmanaged, TypeOK, Live, Objects
<1>23. CASE Restart
  <2>1. /\ cr' \in Objects /\ ctl' = Idle /\ work' = NoWork /\ queued' = TRUE
        /\ UNCHANGED <<rules, used, edits, drift>>
    BY <1>23, EndType DEF Restart
  <2>2. faults' \in 0..MaxFaults
    BY <1>23 DEF Restart, TypeOK
  <2> QED BY <2>1, <2>2 DEF TypeOK, Live
<1>24. CASE Finished
  BY <1>24, <1>1 DEF Finished
<1> QED
  BY <1>1, <1>2, <1>3, <1>4, <1>5, <1>6, <1>7, <1>8, <1>9, <1>10, <1>11,
     <1>12, <1>13, <1>14, <1>15, <1>16, <1>17, <1>18, <1>19, <1>20, <1>21,
     <1>22, <1>23, <1>24
     DEF Next, User, Aws, Controller, Associations

\* Type correctness.
THEOREM TypeCorrect == Spec => []TypeOK
<1>1. TypeInv => TypeOK
  BY DEF TypeInv
<1> QED BY InitType, NextType, <1>1, PTL DEF Spec
-----------------------------------------------------------------------------
(* The binding of the object to its rule *)

\* The id that is not there yet names no rule.
LEMMA NoIdNotLive == TypeOK => NoId \notin Live
BY SetsAssumption DEF TypeOK

\* The steps that leave the worker and the binding alone, and take no id up.
LEMMA QuietStep ==
  ASSUME Bound, TypeInv', Live' \subseteq Live, used' = used,
         cr'.id = cr.id, cr'.phase = cr.phase, cr'.finalizer = cr.finalizer,
         \/ ctl' = Idle
         \/ ctl'.pc = ctl.pc /\ ctl'.mode = ctl.mode /\ ctl'.id = ctl.id
  PROVE  Bound'
<1> USE DEF Bound, ModeOfPc, IdOfPc, Guarded, KnownRuleIsGuarded, Exists
<1>1. CASE ctl' = Idle
  <2>1. NoId \notin Live
    BY NoIdNotLive DEF TypeInv
  <2> QED BY <1>1, <2>1, IdleType
<1>2. CASE ctl'.pc = ctl.pc /\ ctl'.mode = ctl.mode /\ ctl'.id = ctl.id
  BY <1>2
<1> QED BY <1>1, <1>2

LEMMA InitBound == Init => Bound
<1> SUFFICES ASSUME Init PROVE Bound
  OBVIOUS
<1>1. TypeInv
  BY InitType
<1>2. Live = {} /\ ctl.pc = "idle" /\ ctl.id = NoId
  BY IdleType DEF Init, Live
<1> QED
  BY <1>1, <1>2 DEF Init, Bound, ModeOfPc, IdOfPc, Guarded,
                    KnownRuleIsGuarded, Exists

LEMMA NextBound == Bound /\ [Next]_vars => Bound'
<1> SUFFICES ASSUME Bound, [Next]_vars PROVE Bound'
  OBVIOUS
<1>a. TypeInv /\ TypeOK /\ TypeInv' /\ TypeOK'
  BY NextType DEF Bound, TypeInv
<1>b. NoId \notin Live /\ cr \in Objects /\ ctl \in Reconciles /\ Live \subseteq used
  BY <1>a, NoIdNotLive DEF TypeOK
<1> DEFINE Parts == ModeOfPc /\ IdOfPc /\ Guarded
<1>c. SUFFICES Parts'
  BY <1>a DEF Bound
<1>1. CASE UNCHANGED vars
  BY <1>1, <1>a, QuietStep DEF vars, Live, Bound
<1>2. CASE EditSpec
  BY <1>2, <1>a, <1>b, QuietStep DEF EditSpec, Live, Bound, Objects
<1>3. CASE DeleteResource
  BY <1>3, <1>a, <1>b
     DEF DeleteResource, Live, Bound, ModeOfPc, IdOfPc, Guarded,
         KnownRuleIsGuarded, Exists, Objects
<1>4. ASSUME NEW r \in Live, NEW v \in Vpcs, AssociationSettles(r, v)
      PROVE  Parts'
  <2>1. Live' = Live
    BY <1>4, <1>a DEF AssociationSettles, TypeOK, Live
  <2> QED BY <1>4, <2>1, <1>a, QuietStep DEF AssociationSettles, Bound
<1>5. ASSUME NEW r \in Live, RuleDrifts(r)
      PROVE  Parts'
  <2>1. Live' \subseteq Live
    BY <1>5, <1>a, WithoutType DEF RuleDrifts, Live
  <2> QED BY <1>5, <2>1, <1>a, QuietStep DEF RuleDrifts, Bound
<1>6. CASE StartReconcile
  BY <1>6, <1>a, <1>b, IdleType
     DEF StartReconcile, Live, Bound, ModeOfPc, IdOfPc, Guarded,
         KnownRuleIsGuarded, Exists, Objects, Reconciles
<1>7. CASE Resync
  BY <1>7, <1>a, QuietStep DEF Resync, Live, Bound
<1>8. CASE FindNothing
  BY <1>8, <1>a, <1>b
     DEF FindNothing, Live, Bound, ModeOfPc, IdOfPc, Guarded,
         KnownRuleIsGuarded, Exists, Reconciles
<1>9. CASE FindRule
  BY <1>9, <1>a, <1>b
     DEF FindRule, Live, Bound, ModeOfPc, IdOfPc, Guarded,
         KnownRuleIsGuarded, Exists, Reconciles
<1>10. CASE FindPanics
  <2>1. Live' = Live /\ used' = used
    BY <1>10 DEF FindPanics, Live
  <2> QED BY <1>10, <2>1, <1>a, EndType, QuietStep DEF FindPanics, Bound
<1>11. CASE MarkManaged
  <2>1. Live' = Live /\ used' = used
    BY <1>11 DEF MarkManaged, Live
  <2>2. CASE ReconcileError
    BY <2>1, <2>2, <1>a, EndType, QuietStep DEF Bound
  <2>3. CASE ~ReconcileError
    BY <1>11, <2>1, <2>3, <1>a, <1>b
       DEF MarkManaged, Bound, ModeOfPc, IdOfPc, Guarded,
           KnownRuleIsGuarded, Exists, Objects, Reconciles
  <2> QED BY <2>2, <2>3
<1>12. CASE CreateRefused
  <2>1. Live' = Live /\ used' = used
    BY <1>12 DEF CreateRefused, Live
  <2> QED BY <1>12, <2>1, <1>a, EndType, QuietStep DEF CreateRefused, Bound
<1>13. CASE PrepareCreate
  <2>1. PICK t \in RuleIds \ used :
          /\ ctl' = [ctl EXCEPT !.pc = "creating", !.mode = "create", !.id = t]
          /\ used' = used \cup {t}
    BY <1>13 DEF PrepareCreate, getCreatorRequestId
  <2>2. t # cr.id /\ t \notin Live
    BY <2>1, <1>b, SetsAssumption DEF Bound, Guarded
  <2>3. ctl'.pc = "creating" /\ ctl'.mode = "create" /\ ctl'.id = t
    BY <2>1, <1>b DEF Reconciles
  <2>4. Live' = Live /\ cr' = cr /\ ctl.pc = "create"
    BY <1>13 DEF PrepareCreate, Live
  <2> QED
    BY <2>1, <2>2, <2>3, <2>4
       DEF Bound, ModeOfPc, IdOfPc, Guarded, KnownRuleIsGuarded, Exists
<1>14. CASE CreateResolverRule \/ CreateRetried
  <2>1. /\ ctl.pc = "creating" /\ ctl.id \in used /\ cr' = cr /\ used' = used
        /\ ctl'.id = ctl.id /\ ctl'.mode = ctl.mode
        /\ ctl'.pc \in {"creating", "work"}
    BY <1>14, <1>a, <1>b
       DEF CreateResolverRule, CreateRetried, TypeInv, IdDrawn, Reconciles
  <2>2. Live' = Live \cup {ctl.id}
    BY <1>14 DEF CreateResolverRule, CreateRetried, With, Live
  <2> QED
    BY <2>1, <2>2 DEF Bound, ModeOfPc, IdOfPc, Guarded, KnownRuleIsGuarded,
                      Exists
<1>15. CASE TagResource \/ UntagResource \/ UpdateResolverRule
  <2>1. Live' = Live
    BY <1>15, <1>a
       DEF TagResource, UntagResource, UpdateResolverRule, TypeOK, Live
  <2> QED
    BY <1>15, <2>1, <1>a, QuietStep
       DEF TagResource, UntagResource, UpdateResolverRule, Bound
<1>16. ASSUME NEW v \in Vpcs,
              AssociateResolverRule(v) \/ DisassociateResolverRule(v)
       PROVE  Parts'
  <2>1. Live' = Live
    BY <1>16, <1>a
       DEF AssociateResolverRule, DisassociateResolverRule, TypeOK, Live
  <2> QED
    BY <1>16, <2>1, <1>a, QuietStep
       DEF AssociateResolverRule, DisassociateResolverRule, Bound
<1>17. CASE DeleteResolverRule
  <2>1. Live' = Live \ {ctl.id}
    BY <1>17, <1>a, WithoutType DEF DeleteResolverRule, Live
  <2> QED
    BY <1>17, <2>1, <1>b
       DEF DeleteResolverRule, WorkDone, Bound, ModeOfPc, IdOfPc, Guarded,
           KnownRuleIsGuarded, Exists, Reconciles
<1>18. CASE CallRefused
  <2>1. Live' = Live /\ used' = used
    BY <1>18 DEF CallRefused, Live
  <2> QED BY <1>18, <2>1, <1>a, FailType, QuietStep DEF CallRefused, Bound
<1>19. CASE CallFails
  <2>1. Live' = Live /\ used' = used
    BY <1>19 DEF CallFails, Live
  <2> QED BY <1>19, <2>1, <1>a, FailType, QuietStep DEF CallFails, Bound
<1>20. CASE PatchStatus
  BY <1>20, <1>a, <1>b, IdleType
     DEF PatchStatus, WorkDone, Live, TypeInv, IdDrawn, Bound, ModeOfPc, IdOfPc,
         Guarded, KnownRuleIsGuarded, Exists, Objects, Reconciles
<1>21. CASE MarkUnmanaged
  BY <1>21, <1>a, <1>b, IdleType
     DEF MarkUnmanaged, Live, Bound, ModeOfPc, IdOfPc, Guarded,
         KnownRuleIsGuarded, Exists, Objects, Reconciles
<1>22. CASE Restart
  <2>1. Live' = Live /\ used' = used
    BY <1>22 DEF Restart, Live
  <2> QED BY <1>22, <2>1, <1>a, EndType, QuietStep DEF Restart, Bound
<1>23. CASE Finished
  BY <1>23, <1>1 DEF Finished
<1> QED
  BY <1>1, <1>2, <1>3, <1>4, <1>5, <1>6, <1>7, <1>8, <1>9, <1>10, <1>11,
     <1>12, <1>13, <1>14, <1>15, <1>16, <1>17, <1>18, <1>19, <1>20, <1>21,
     <1>22, <1>23
     DEF Next, User, Aws, Controller, Associations

\* No rule the object or the worker knows is ever without an object with a
\* finalizer that will see to its removal.
THEOREM FinalizerGuards == Spec => []KnownRuleIsGuarded
<1>1. Bound => KnownRuleIsGuarded
  BY DEF Bound, Guarded
<1> QED BY InitBound, NextBound, <1>1, PTL DEF Spec

\* What a step may do to the id in the status: only PatchStatus writes it, and
\* with another id than before only after a create, for which the rule of the
\* status had to be missing.
LEMMA BindingStep == Bound /\ [Next]_vars => (cr.id \in Live => cr'.id = cr.id)
<1> SUFFICES ASSUME Bound, [Next]_vars, cr.id \in Live PROVE cr'.id = cr.id
  OBVIOUS
<1>1. TypeOK /\ cr \in Objects
  BY DEF Bound, TypeInv, TypeOK
<1>2. CASE EditSpec \/ DeleteResource \/ MarkUnmanaged
  BY <1>1, <1>2 DEF EditSpec, DeleteResource, MarkUnmanaged, Objects
<1>3. CASE MarkManaged
  BY <1>1, <1>3, EndType DEF MarkManaged, Objects
<1>4. CASE FindPanics \/ CreateRefused \/ Restart
  BY <1>1, <1>4, EndType DEF FindPanics, CreateRefused, Restart
<1>5. CASE CallRefused \/ CallFails
  BY <1>1, <1>5, FailType DEF CallRefused, CallFails
<1>6. CASE PatchStatus
  BY <1>1, <1>6
     DEF PatchStatus, WorkDone, Bound, IdOfPc, ModeOfPc, Objects
<1>7. CASE cr' = cr
  BY <1>7
<1> QED
  BY <1>2, <1>3, <1>4, <1>5, <1>6, <1>7
     DEF Next, vars, User, Aws, Controller, Associations, AssociationSettles,
         RuleDrifts, StartReconcile, Resync, FindNothing, FindRule,
         PrepareCreate, CreateResolverRule, CreateRetried, TagResource,
         UntagResource, AssociateResolverRule, DisassociateResolverRule,
         UpdateResolverRule, DeleteResolverRule, Finished

\* An object stays with its rule for as long as the rule exists.
THEOREM BindingIsStable == Spec => StableBinding
<1>1. Bound /\ [Next]_vars => [cr.id \in Live => cr'.id = cr.id]_vars
  BY BindingStep
<1> QED BY InitBound, NextBound, <1>1, PTL DEF Spec, StableBinding
-----------------------------------------------------------------------------
(* Orphans *)

\* For an object that is gone its id makes no difference: no rule has it.
LEMMA OrphansAre == Bound => Orphans = Live \ {cr.id, ctl.id}
BY DEF Bound, Guarded, KnownRuleIsGuarded, Orphans, Exists

\* A refused call of sdkCreate only costs the remaining associations; a refused
\* call of any other operation is about the rule of the status.
LEMMA RefusedKeepsId ==
  ASSUME Bound, CallRefused
  PROVE  ctl.id = cr.id \/ ctl'.id = ctl.id
<1>1. CASE ctl.mode = "create"
  <2>1. ctl.pc = "work" /\ work # NoWork
    BY <1>1 DEF CallRefused, Refused, MayAssociate, MayDisassociate, NoWork
  <2> QED BY <1>1, <2>1 DEF CallRefused, OperationFails
<1>2. CASE ctl.mode # "create"
  BY <1>2 DEF CallRefused, Refused, Bound, IdOfPc
<1> QED BY <1>1, <1>2

\* Only a create adds a rule, the one whose id the worker carries.
LEMMA LiveStep ==
  ASSUME Bound, [Next]_vars
  PROVE  \/ Live' \subseteq Live
         \/ /\ ctl.pc = "creating" /\ Live' = Live \cup {ctl.id}
            /\ ctl'.id = ctl.id /\ cr' = cr /\ faults' = faults
<1>1. TypeOK /\ TypeInv /\ ctl \in Reconciles
  BY DEF Bound, TypeInv, TypeOK
<1>2. CASE CreateResolverRule \/ CreateRetried
  <2>1. Live' = Live \cup {ctl.id}
    BY <1>2 DEF CreateResolverRule, CreateRetried, With, Live
  <2> QED
    BY <1>1, <1>2, <2>1 DEF CreateResolverRule, CreateRetried, Reconciles
<1>3. CASE DeleteResolverRule
  BY <1>1, <1>3, WithoutType DEF DeleteResolverRule, Live
<1>4. ASSUME NEW r \in Live, RuleDrifts(r) PROVE Live' \subseteq Live
  BY <1>1, <1>4, WithoutType DEF RuleDrifts, Live
<1>5. CASE TagResource \/ UntagResource \/ UpdateResolverRule
  BY <1>1, <1>5
     DEF TagResource, UntagResource, UpdateResolverRule, TypeOK, Live
<1>6. ASSUME NEW v \in Vpcs,
             AssociateResolverRule(v) \/ DisassociateResolverRule(v)
      PROVE  Live' \subseteq Live
  BY <1>1, <1>6
     DEF AssociateResolverRule, DisassociateResolverRule, TypeOK, Live
<1>7. ASSUME NEW r \in Live, NEW v \in Vpcs, AssociationSettles(r, v)
      PROVE  Live' \subseteq Live
  BY <1>1, <1>7 DEF AssociationSettles, TypeOK, Live
<1>8. CASE rules' = rules
  BY <1>8 DEF Live
<1> QED
  BY <1>2, <1>3, <1>4, <1>5, <1>6, <1>7, <1>8
     DEF Next, vars, User, Aws, Controller, Associations, EditSpec,
         DeleteResource, StartReconcile, Resync, FindNothing, FindRule,
         FindPanics, MarkManaged, CreateRefused, PrepareCreate, CallRefused,
         CallFails, PatchStatus, MarkUnmanaged, Restart, Finished

\* A step without a fault lets go of no id: the worker drops one only when the
\* status has it too, or writes it there.
LEMMA IdsKept ==
  ASSUME Bound, [Next]_vars, faults' = faults
  PROVE  Live \cap {cr.id, ctl.id} \subseteq {cr'.id, ctl'.id}
<1>1. /\ TypeOK /\ TypeInv /\ ctl \in Reconciles /\ cr \in Objects
      /\ faults \in Nat
  BY BoundsAssumption DEF Bound, TypeInv, TypeOK
<1> USE DEF Bound, IdOfPc, ModeOfPc
<1>2. CASE EditSpec \/ DeleteResource
  BY <1>1, <1>2 DEF EditSpec, DeleteResource, Objects
<1>3. CASE StartReconcile
  <2>1. ctl.id \notin Live
    BY <1>1, <1>3, NoIdNotLive DEF StartReconcile
  <2> QED BY <1>3, <2>1 DEF StartReconcile
<1>4. CASE FindNothing \/ FindRule \/ CreateResolverRule \/ CreateRetried
           \/ DeleteResolverRule
  BY <1>1, <1>4 DEF FindNothing, FindRule, CreateResolverRule, CreateRetried,
                    DeleteResolverRule, Reconciles
<1>5. CASE MarkManaged
  BY <1>1, <1>5, EndType DEF MarkManaged, Objects, Reconciles
<1>6. CASE CreateRefused
  BY <1>1, <1>6, EndType DEF CreateRefused
<1>7. CASE PrepareCreate
  BY <1>1, <1>7 DEF PrepareCreate
<1>8. CASE CallRefused
  BY <1>1, <1>8, FailType, RefusedKeepsId DEF CallRefused
<1>9. CASE PatchStatus \/ MarkUnmanaged
  BY <1>1, <1>9
     DEF PatchStatus, MarkUnmanaged, WorkDone, Objects, Guarded, Exists
<1>10. CASE FindPanics \/ CallFails \/ Restart
  BY <1>1, <1>10 DEF FindPanics, CallFails, Restart
<1>11. CASE cr' = cr /\ ctl' = ctl
  BY <1>11
<1> QED
  BY <1>2, <1>3, <1>4, <1>5, <1>6, <1>7, <1>8, <1>9, <1>10, <1>11
     DEF Next, vars, User, Aws, Controller, Associations, AssociationSettles,
         RuleDrifts, Resync, TagResource, UntagResource, AssociateResolverRule,
         DisassociateResolverRule, UpdateResolverRule, Finished

\* A fault is counted, and leaves the status as it was.
LEMMA FaultStep ==
  ASSUME Bound, [Next]_vars
  PROVE  \/ faults' = faults
         \/ faults' = faults + 1 /\ cr'.id = cr.id /\ Live' = Live
<1>1. TypeOK
  BY DEF Bound, TypeInv
<1>2. CASE FindPanics \/ Restart
  BY <1>1, <1>2, EndType DEF FindPanics, Restart, Live
<1>3. CASE CallFails
  BY <1>1, <1>3, FailType DEF CallFails, Live
<1>4. CASE faults' = faults
  BY <1>4
<1> QED
  BY <1>2, <1>3, <1>4
     DEF Next, vars, User, Aws, Controller, Associations, EditSpec,
         DeleteResource, AssociationSettles, RuleDrifts, StartReconcile, Resync,
         FindNothing, FindRule, MarkManaged, CreateRefused, PrepareCreate,
         CreateResolverRule, CreateRetried, TagResource, UntagResource,
         AssociateResolverRule, DisassociateResolverRule, UpdateResolverRule,
         DeleteResolverRule, CallRefused, PatchStatus, MarkUnmanaged, Finished

OrphanInv == Bound /\ IsFiniteSet(Live) /\ OrphansBoundedByFaults

LEMMA InitOrphans == Init => OrphanInv
<1> SUFFICES ASSUME Init PROVE OrphanInv
  OBVIOUS
<1>1. Live = {} /\ Orphans = {} /\ faults = 0
  BY DEF Init, Live, Orphans
<1> QED
  BY <1>1, InitBound, FS_EmptySet DEF OrphanInv, OrphansBoundedByFaults

LEMMA NextOrphans == OrphanInv /\ [Next]_vars => OrphanInv'
<1> SUFFICES ASSUME OrphanInv, [Next]_vars PROVE OrphanInv'
  OBVIOUS
<1>1. Bound /\ Bound' /\ IsFiniteSet(Live) /\ Cardinality(Orphans) <= faults
  BY NextBound DEF OrphanInv, OrphansBoundedByFaults
<1>2. faults \in Nat
  BY <1>1, BoundsAssumption DEF Bound, TypeInv, TypeOK
<1>3. Orphans = Live \ {cr.id, ctl.id} /\ Orphans' = Live' \ {cr'.id, ctl'.id}
  <2>1. (Bound => Orphans = Live \ {cr.id, ctl.id})'
    BY OrphansAre, PTL
  <2> QED BY <1>1, <2>1, OrphansAre
<1>4. IsFiniteSet(Live')
  BY <1>1, LiveStep, FS_Subset, FS_AddElement
<1>5. IsFiniteSet(Orphans)
  BY <1>1, <1>3, FS_Difference
<1>6. Cardinality(Orphans') <= faults'
  <2>1. CASE faults' = faults
    <3>1. Orphans' \subseteq Orphans
      BY <1>1, <1>3, <2>1, LiveStep, IdsKept
    <3> QED BY <1>1, <1>2, <1>5, <2>1, <3>1, FS_Subset, FS_CardinalityType
  <2>2. CASE faults' # faults
    <3>1. faults' = faults + 1 /\ Orphans' \subseteq Orphans \cup {ctl.id}
      BY <1>1, <1>3, <2>2, FaultStep
    <3>2. /\ IsFiniteSet(Orphans \cup {ctl.id})
          /\ Cardinality(Orphans \cup {ctl.id}) <= Cardinality(Orphans) + 1
      <4>1. /\ IsFiniteSet(Orphans \cup {ctl.id})
            /\ Cardinality(Orphans \cup {ctl.id}) =
                 IF ctl.id \in Orphans THEN Cardinality(Orphans)
                 ELSE Cardinality(Orphans) + 1
        BY <1>5, FS_AddElement
      <4>2. Cardinality(Orphans) \in Nat
        BY <1>5, FS_CardinalityType
      <4> QED BY <4>1, <4>2
    <3>3. /\ Cardinality(Orphans') <= Cardinality(Orphans \cup {ctl.id})
          /\ IsFiniteSet(Orphans')
      BY <3>1, <3>2, FS_Subset
    <3>4. /\ Cardinality(Orphans) \in Nat /\ Cardinality(Orphans') \in Nat
          /\ Cardinality(Orphans \cup {ctl.id}) \in Nat
      BY <1>5, <3>2, <3>3, FS_CardinalityType
    <3> QED BY <1>1, <1>2, <3>1, <3>2, <3>3, <3>4
  <2> QED BY <2>1, <2>2
<1> QED BY <1>1, <1>4, <1>6 DEF OrphanInv, OrphansBoundedByFaults

\* There are never more orphaned rules than there were faults.
THEOREM OrphansBounded == Spec => []OrphansBoundedByFaults
<1>1. OrphanInv => OrphansBoundedByFaults
  BY DEF OrphanInv
<1> QED BY InitOrphans, NextOrphans, <1>1, PTL DEF Spec
-----------------------------------------------------------------------------
(* Moving VPCs *)

\* While an update is at work each wanted VPC is attached or still to be added,
\* and none is to be taken away.
UpdatePlan ==
  ctl.pc = "work" /\ ctl.mode # "delete" /\ ctl.id \in Live =>
    /\ work.del \cap ctl.desired.vpcs = {}
    /\ ctl.mode = "update" =>
         ctl.desired.vpcs \subseteq getAttachedVPC(ctl.id) \cup work.add
    /\ ctl.mode = "create" => work.del = {}

PlanInv == Bound /\ UpdatePlan

LEMMA InitPlan == Init => PlanInv
BY InitBound, IdleType DEF Init, PlanInv, UpdatePlan

LEMMA NextPlan == PlanInv /\ [Next]_vars => PlanInv'
<1> SUFFICES ASSUME PlanInv, [Next]_vars PROVE PlanInv'
  OBVIOUS
<1>a. Bound /\ Bound' /\ UpdatePlan
  BY NextBound DEF PlanInv
<1>b. TypeOK /\ TypeOK' /\ ctl \in Reconciles /\ work \in Work
  BY <1>a DEF Bound, TypeInv, TypeOK
<1>c. SUFFICES UpdatePlan'
  BY <1>a DEF PlanInv
<1>1. ASSUME ctl'.pc = ctl.pc, ctl'.mode = ctl.mode, ctl'.id = ctl.id,
             ctl'.desired = ctl.desired, work' = work, Live' \subseteq Live,
             \A v \in Vpcs : ctl.id \in Live' =>
               (v \in getAttachedVPC(ctl.id) => v \in getAttachedVPC(ctl.id)')
      PROVE  UpdatePlan'
  BY <1>1, <1>a DEF UpdatePlan, getAttachedVPC
<1>2. ASSUME ctl'.pc # "work" PROVE UpdatePlan'
  BY <1>2 DEF UpdatePlan
<1>3. CASE UNCHANGED <<ctl, work, rules>>
  BY <1>1, <1>3 DEF getAttachedVPC, Live
<1>4. ASSUME NEW r \in Live, NEW v \in Vpcs, AssociationSettles(r, v)
      PROVE  UpdatePlan'
  <2>1. /\ Live' = Live /\ ctl' = ctl /\ work' = work
        /\ \A s \in Live, w \in Vpcs :
             \/ rules'[s].assoc[w] = rules[s].assoc[w]
             \/ rules'[s].assoc[w] = "COMPLETE"
             \/ rules[s].assoc[w] = "DELETING"
    <3>1. rules \in [Live -> Rules] /\ rules[r] \in Rules
      BY <1>b DEF TypeOK
    <3>2. /\ rules' = [rules EXCEPT ![r] = [rules[r] EXCEPT !.assoc[v] =
               IF @ = "CREATING" THEN "COMPLETE" ELSE "NONE"]]
          /\ rules[r].assoc[v] \in {"CREATING", "DELETING"}
      BY <1>4, <3>1 DEF AssociationSettles
    <3>3. \A s \in Live \ {r} : rules'[s] = rules[s]
      BY <3>1, <3>2
    <3>4. \A w \in Vpcs \ {v} : rules'[r].assoc[w] = rules[r].assoc[w]
      BY <3>1, <3>2 DEF Rules
    <3>5. rules'[r].assoc[v] =
            IF rules[r].assoc[v] = "CREATING" THEN "COMPLETE" ELSE "NONE"
      BY <3>1, <3>2 DEF Rules
    <3>6. Live' = Live /\ ctl' = ctl /\ work' = work
      BY <1>4, <3>1, <3>2 DEF AssociationSettles, Live
    <3> QED BY <3>2, <3>3, <3>4, <3>5, <3>6
  <2> QED BY <1>1, <2>1 DEF getAttachedVPC
<1>5. ASSUME NEW r \in Live, RuleDrifts(r)
      PROVE  UpdatePlan'
  <2>1. /\ Live' = Live \ {r} /\ ctl' = ctl /\ work' = work
        /\ \A s \in Live \ {r} : rules'[s] = rules[s]
    BY <1>5, <1>b, WithoutType DEF RuleDrifts, Live
  <2>2. ctl.id \in Live' => getAttachedVPC(ctl.id)' = getAttachedVPC(ctl.id)
    BY <2>1 DEF getAttachedVPC
  <2> QED BY <1>1, <2>1, <2>2
<1>6. CASE FindRule
  <2>1. CASE ctl.mode = "sync"
    <3>1. /\ ctl'.id = ctl.id /\ ctl'.mode = "update"
          /\ ctl'.desired = ctl.desired /\ rules' = rules
      BY <1>6, <1>b, <2>1 DEF FindRule, Reconciles
    <3>2. /\ work'.add = ctl.desired.vpcs \ getAttachedVPC(ctl.id)
          /\ work'.del = getAttachedVPC(ctl.id) \ ctl.desired.vpcs
      BY <1>6, <2>1
         DEF FindRule, customUpdateResolverRule, Observed, toAdd, toDelete
    <3>3. getAttachedVPC(ctl.id)' = getAttachedVPC(ctl.id)
      BY <3>1 DEF getAttachedVPC
    <3> QED BY <3>1, <3>2, <3>3 DEF UpdatePlan
  <2>2. CASE ctl.mode = "delete"
    BY <1>6, <1>b, <2>2 DEF FindRule, Reconciles, UpdatePlan
  <2> QED BY <1>6, <2>1, <2>2 DEF FindRule
<1>7. CASE CreateResolverRule
  BY <1>7, <1>a, <1>b
     DEF CreateResolverRule, UpdatePlan, createAssociation, NoWork, Bound,
         ModeOfPc, Reconciles
<1>8. CASE TagResource \/ UntagResource \/ UpdateResolverRule
  <2>1. /\ ctl' = ctl /\ Live' = Live /\ work'.add = work.add
        /\ work'.del = work.del
        /\ \A s \in Live : rules'[s].assoc = rules[s].assoc
    BY <1>8, <1>b
       DEF TagResource, UntagResource, UpdateResolverRule, TypeOK, Live, Rules,
           Work
  <2> QED BY <1>a, <2>1 DEF UpdatePlan, getAttachedVPC
<1>9. ASSUME NEW v \in Vpcs, AssociateResolverRule(v)
      PROVE  UpdatePlan'
  <2>1. /\ ctl' = ctl /\ Live' = Live /\ work'.add = work.add \ {v}
        /\ work'.del = work.del /\ ctl.id \in Live
        /\ rules'[ctl.id].assoc[v] = "CREATING"
        /\ \A w \in Vpcs \ {v} :
             rules'[ctl.id].assoc[w] = rules[ctl.id].assoc[w]
    BY <1>9, <1>b DEF AssociateResolverRule, TypeOK, Live, Rules, Work
  <2>2. getAttachedVPC(ctl.id)' = getAttachedVPC(ctl.id) \cup {v}
    BY <2>1, <1>9 DEF getAttachedVPC, AssociateResolverRule
  <2> QED BY <1>a, <2>1, <2>2 DEF UpdatePlan
<1>10. ASSUME NEW v \in Vpcs, DisassociateResolverRule(v)
       PROVE  UpdatePlan'
  <2>1. /\ ctl' = ctl /\ Live' = Live /\ work'.del = work.del \ {v}
        /\ work'.add = work.add /\ ctl.id \in Live /\ v \in work.del
        /\ ctl.pc = "work"
        /\ \A w \in Vpcs \ {v} :
             rules'[ctl.id].assoc[w] = rules[ctl.id].assoc[w]
    BY <1>10, <1>b
       DEF DisassociateResolverRule, MayDisassociate, TypeOK, Live, Rules, Work
  <2>2. getAttachedVPC(ctl.id) \ {v} \subseteq getAttachedVPC(ctl.id)'
    BY <2>1 DEF getAttachedVPC
  <2> QED BY <1>a, <2>1, <2>2 DEF UpdatePlan
<1>11. ASSUME OperationFails, rules' = rules
       PROVE  UpdatePlan'
  <2>1. CASE ctl' = Idle
    BY <2>1, <1>2, IdleType
  <2>2. CASE ctl' # Idle
    BY <2>2, <1>11, <1>b, <1>a, FailType DEF UpdatePlan, NoWork, Live
  <2> QED BY <2>1, <2>2
<1>12. CASE CallRefused \/ CallFails
  BY <1>11, <1>12 DEF CallRefused, CallFails
<1>13. CASE StartReconcile \/ FindNothing \/ PrepareCreate \/ CreateRetried
            \/ DeleteResolverRule \/ PatchStatus \/ MarkUnmanaged
  BY <1>2, <1>13, <1>b, IdleType
     DEF StartReconcile, FindNothing, PrepareCreate, CreateRetried,
         DeleteResolverRule, PatchStatus, MarkUnmanaged, Reconciles
<1>14. CASE FindPanics \/ MarkManaged \/ CreateRefused \/ Restart
  BY <1>2, <1>14, <1>b, IdleType, EndType
     DEF FindPanics, MarkManaged, CreateRefused, Restart, Reconciles
<1> QED
  BY <1>3, <1>4, <1>5, <1>6, <1>7, <1>8, <1>9, <1>10, <1>12, <1>13, <1>14
     DEF Next, vars, User, Aws, Controller, Associations, EditSpec,
         DeleteResource, Resync, Finished

\* Only DisassociateResolverRule begins the removal of an association.
LEMMA RemovalStep ==
  ASSUME TypeInv, [Next]_vars, NEW r \in Live, NEW v \in Vpcs,
         r \in DOMAIN rules', rules[r].assoc[v] # "DELETING",
         rules'[r].assoc[v] = "DELETING"
  PROVE  r = ctl.id /\ DisassociateResolverRule(v)
<1>1. TypeOK /\ TypeInv /\ ctl \in Reconciles /\ rules \in [Live -> Rules]
  BY DEF Bound, TypeInv, TypeOK
<1>2. CASE rules' = rules
  BY <1>2
<1>3. ASSUME NEW s \in Live, NEW w \in Vpcs, AssociationSettles(s, w)
      PROVE  FALSE
  <2>1. rules' = [rules EXCEPT ![s] = [rules[s] EXCEPT !.assoc[w] =
             IF @ = "CREATING" THEN "COMPLETE" ELSE "NONE"]]
    BY <1>1, <1>3 DEF AssociationSettles
  <2>2. r = s /\ v = w
    BY <1>1, <2>1 DEF Rules
  <2> QED BY <1>1, <2>1, <2>2 DEF Rules
<1>4. ASSUME NEW s \in Live, RuleDrifts(s) PROVE FALSE
  BY <1>1, <1>4, WithoutType DEF RuleDrifts
<1>5. CASE DeleteResolverRule
  BY <1>1, <1>5, WithoutType DEF DeleteResolverRule
<1>6. CASE CreateResolverRule \/ CreateRetried
  BY <1>6 DEF CreateResolverRule, CreateRetried, With
<1>7. CASE TagResource \/ UntagResource \/ UpdateResolverRule
  <2>1. rules[r] \in Rules /\ rules[ctl.id] \in Rules /\ ctl.id \in Live
    BY <1>1, <1>7 DEF TagResource, UntagResource, UpdateResolverRule
  <2>2. CASE TagResource \/ UntagResource
    BY <1>1, <2>1, <2>2 DEF TagResource, UntagResource, Rules
  <2>3. CASE UpdateResolverRule
    <3>1. PICK c : rules' = [rules EXCEPT ![ctl.id].config = c,
                               ![ctl.id].endpoint = ctl.desired.endpoint]
      BY <2>3 DEF UpdateResolverRule
    <3> QED BY <1>1, <2>1, <3>1 DEF Rules
  <2> QED BY <1>7, <2>2, <2>3
<1>8. ASSUME NEW w \in Vpcs, AssociateResolverRule(w) PROVE FALSE
  <2>1. rules' = [rules EXCEPT ![ctl.id] =
                    [rules[ctl.id] EXCEPT !.assoc[w] = "CREATING"]]
    BY <1>1, <1>8 DEF AssociateResolverRule
  <2> QED BY <1>1, <2>1 DEF Rules
<1>9. ASSUME NEW w \in Vpcs, DisassociateResolverRule(w)
      PROVE  r = ctl.id /\ v = w
  <2>1. rules' = [rules EXCEPT ![ctl.id] =
                    [rules[ctl.id] EXCEPT !.assoc[w] = "DELETING"]]
    BY <1>1, <1>9 DEF DisassociateResolverRule
  <2> QED BY <1>1, <2>1 DEF Rules
<1> QED
  BY <1>2, <1>3, <1>4, <1>5, <1>6, <1>7, <1>8, <1>9
     DEF Next, vars, User, Aws, Controller, Associations, EditSpec,
         DeleteResource, StartReconcile, Resync, FindNothing, FindRule,
         FindPanics, MarkManaged, CreateRefused, PrepareCreate, CallRefused,
         CallFails, PatchStatus, MarkUnmanaged, Restart, Finished

\* An update takes a VPC away only when all the wanted ones are attached.
THEOREM VpcsMoveWithoutGap == Spec => AddBeforeRemove
<1> DEFINE Moved ==
      \A r \in Live, v \in Vpcs :
        (ctl.mode # "delete" /\ r \in DOMAIN rules'
         /\ rules[r].assoc[v] # "DELETING" /\ rules'[r].assoc[v] = "DELETING")
        => v \notin ctl.desired.vpcs
           /\ ctl.desired.vpcs \subseteq getAttachedVPC(r)
<1>1. PlanInv /\ [Next]_vars => [Moved]_vars
  <2> SUFFICES ASSUME PlanInv, [Next]_vars, ctl.mode # "delete",
                      NEW r \in Live, NEW v \in Vpcs, r \in DOMAIN rules',
                      rules[r].assoc[v] # "DELETING",
                      rules'[r].assoc[v] = "DELETING"
               PROVE  v \notin ctl.desired.vpcs
                      /\ ctl.desired.vpcs \subseteq getAttachedVPC(r)
    OBVIOUS
  <2>1. r = ctl.id /\ DisassociateResolverRule(v)
    BY RemovalStep DEF PlanInv, Bound
  <2>2. ctl.mode \in {"create", "update"}
    BY <2>1 DEF PlanInv, Bound, ModeOfPc, DisassociateResolverRule,
                MayDisassociate
  <2> QED
    BY <2>1, <2>2 DEF PlanInv, UpdatePlan, DisassociateResolverRule,
                      MayDisassociate
<1> QED BY InitPlan, NextPlan, <1>1, PTL DEF Spec, AddBeforeRemove
-----------------------------------------------------------------------------
(* The promise of every manager *)

ManagedVars == <<cr.phase, cr.finalizer, cr.id, PendingId, Live, drift>>

\* A worker that gives up forgets the rule it had just made.
LEMMA ForgetStep ==
  ASSUME ctl'.pc = "idle", ctl'.mode = "sync", cr'.id = cr.id,
         cr'.phase = cr.phase, cr'.finalizer = cr.finalizer,
         Live' = Live, drift' = drift
  PROVE  Managed!Forget
BY DEF Managed!Forget, PendingId

\* What leaves the worker's task, the object and the rules alone is a stutter.
LEMMA StutterStep ==
  ASSUME Bound, ctl'.id = ctl.id, (ctl'.mode = "create") = (ctl.mode = "create"),
         (ctl'.pc = "work") = (ctl.pc = "work"),
         cr'.id = cr.id, cr'.phase = cr.phase, cr'.finalizer = cr.finalizer,
         Live' = Live, drift' = drift
  PROVE  UNCHANGED ManagedVars
BY DEF ManagedVars, PendingId

LEMMA ManagedStep ==
  ASSUME Bound, Bound', [Next]_vars
  PROVE  [Managed!Next]_ManagedVars
<1> USE DEF ManagedVars
<1>a. /\ TypeOK /\ cr \in Objects /\ ctl \in Reconciles /\ Live \subseteq used
      /\ used \subseteq RuleIds /\ NoId \notin Live /\ NoId \notin RuleIds
      /\ drift \in Nat
  BY NoIdNotLive, SetsAssumption, BoundsAssumption DEF Bound, TypeInv, TypeOK
<1>b. ModeOfPc /\ IdOfPc /\ Guarded /\ IdDrawn
  BY DEF Bound, TypeInv
<1>1. CASE UNCHANGED vars
  BY <1>1, StutterStep DEF vars, Live
<1>2. CASE EditSpec
  BY <1>2, <1>a, StutterStep DEF EditSpec, Live, Objects
<1>3. CASE DeleteResource
  <2>1. Managed!Delete
    BY <1>3, <1>a DEF DeleteResource, Managed!Delete, PendingId, Live, Objects
  <2> QED BY <2>1 DEF Managed!Next
<1>4. ASSUME NEW r \in Live, NEW v \in Vpcs, AssociationSettles(r, v)
      PROVE  UNCHANGED ManagedVars
  <2>1. Live' = Live
    BY <1>4, <1>a DEF AssociationSettles, TypeOK, Live
  <2> QED BY <1>4, <2>1, StutterStep DEF AssociationSettles
<1>5. ASSUME NEW r \in Live, RuleDrifts(r)
      PROVE  Managed!Drift(r) /\ r \in RuleIds
  <2>1. Live' = Live \ {r}
    BY <1>5 DEF RuleDrifts, Without, Live
  <2> QED BY <1>5, <2>1, <1>a DEF RuleDrifts, Managed!Drift, PendingId
<1>6. CASE StartReconcile \/ Resync \/ FindNothing \/ FindRule \/ Finished
  BY <1>6, <1>a, <1>b, IdleType
     DEF StartReconcile, Resync, FindNothing, FindRule, Finished, vars, PendingId,
         Live, Reconciles, ModeOfPc
<1>7. CASE FindPanics \/ CreateRefused \/ Restart
  <2>1. Managed!Forget
    BY <1>7, <1>a, EndType, IdleType, ForgetStep
       DEF FindPanics, CreateRefused, Restart, ReconcileError, ReconcileLost,
           Live, Objects
  <2> QED BY <2>1 DEF Managed!Next
<1>8. CASE MarkManaged
  <2>1. CASE Exists /\ cr' = [cr EXCEPT !.finalizer = TRUE]
                    /\ ctl' = [ctl EXCEPT !.pc = "create"]
    <3>1. Managed!Guard
      BY <1>8, <2>1, <1>a, <1>b
         DEF MarkManaged, Managed!Guard, PendingId, Live, Objects, Reconciles,
             Exists, ModeOfPc
    <3> QED BY <3>1 DEF Managed!Next
  <2>2. CASE ReconcileError
    <3>1. Managed!Forget
      BY <1>8, <2>2, <1>a, IdleType, ForgetStep
         DEF MarkManaged, ReconcileError, Live, Objects
    <3> QED BY <3>1 DEF Managed!Next
  <2> QED BY <1>8, <2>1, <2>2 DEF MarkManaged
<1>9. CASE PrepareCreate
  BY <1>9, <1>a, <1>b
     DEF PrepareCreate, getCreatorRequestId, PendingId, Live, Reconciles, ModeOfPc
<1>10. ASSUME ctl.pc = "creating", rules' = With(ctl.id, ctl.desired),
              cr' = cr, drift' = drift, ctl'.id = ctl.id,
              ctl'.mode = ctl.mode, ctl'.pc \in {"creating", "work"}
       PROVE  [Managed!Next]_ManagedVars
  <2>1. Live' = Live \cup {ctl.id}
    BY <1>10 DEF With, Live
  <2>2. PendingId' = ctl.id /\ ctl.mode = "create" /\ ctl.id \in RuleIds
    BY <1>10, <2>1, <1>a, <1>b DEF PendingId, ModeOfPc, IdDrawn
  <2>3. CASE ctl.id \in Live
    BY <1>10, <2>1, <2>2, <2>3 DEF PendingId
  <2>4. CASE ctl.id \notin Live
    <3>1. Managed!Create(ctl.id)
      BY <1>10, <2>1, <2>2, <2>4, <1>a, <1>b
         DEF Managed!Create, PendingId, IdOfPc, Guarded, Exists
    <3> QED BY <3>1, <2>2 DEF Managed!Next
  <2> QED BY <2>3, <2>4
<1>11. CASE CreateResolverRule \/ CreateRetried
  BY <1>11, <1>10, <1>a DEF CreateResolverRule, CreateRetried, Reconciles
<1>12. CASE TagResource \/ UntagResource \/ UpdateResolverRule
  <2>1. Live' = Live
    BY <1>12, <1>a DEF TagResource, UntagResource, UpdateResolverRule, TypeOK, Live
  <2> QED BY <1>12, <2>1, StutterStep
             DEF TagResource, UntagResource, UpdateResolverRule
<1>13. ASSUME NEW v \in Vpcs,
              AssociateResolverRule(v) \/ DisassociateResolverRule(v)
       PROVE  UNCHANGED ManagedVars
  <2>1. Live' = Live
    BY <1>13, <1>a
       DEF AssociateResolverRule, DisassociateResolverRule, TypeOK, Live
  <2> QED BY <1>13, <2>1, StutterStep
             DEF AssociateResolverRule, DisassociateResolverRule
<1>14. CASE DeleteResolverRule
  <2>1. Live' = Live \ {ctl.id} /\ ctl.id = cr.id /\ cr.phase = "deleting"
    BY <1>14, <1>b DEF DeleteResolverRule, Without, WorkDone, Live, IdOfPc, Guarded
  <2>2. Managed!Destroy
    BY <1>14, <2>1, <1>a
       DEF DeleteResolverRule, WorkDone, Managed!Destroy, PendingId, Reconciles
  <2> QED BY <2>2 DEF Managed!Next
<1>15. CASE CallRefused \/ CallFails
  <2>1. Live' = Live /\ drift' = drift /\ OperationFails
    BY <1>15 DEF CallRefused, CallFails, Live
  <2>2. CASE UNCHANGED <<cr, queued, ctl>>
    BY <2>1, <2>2, StutterStep
  <2>3. CASE ReconcileError
    <3>1. Managed!Forget
      BY <2>1, <2>3, <1>a, IdleType, ForgetStep DEF ReconcileError, Objects
    <3> QED BY <3>1 DEF Managed!Next
  <2> QED BY <2>1, <2>2, <2>3 DEF OperationFails
<1>16. CASE PatchStatus
  <2>1. Live' = Live /\ drift' = drift /\ PendingId' = NoId
    BY <1>16, <1>a, IdleType DEF PatchStatus, PendingId, Live
  <2>2. Exists /\ cr'.id = ctl.id /\ cr'.phase = cr.phase
               /\ cr'.finalizer = cr.finalizer
    BY <1>16, <1>a, <1>b DEF PatchStatus, WorkDone, Guarded, Objects
  <2>3. CASE ctl.mode = "create"
    <3>1. Managed!Bind
      BY <1>16, <2>1, <2>2, <2>3, <1>a, <1>b
         DEF PatchStatus, WorkDone, Managed!Bind, PendingId, IdOfPc, IdDrawn, Exists
    <3> QED BY <3>1 DEF Managed!Next
  <2>4. CASE ctl.mode # "create"
    BY <1>16, <2>1, <2>2, <2>4, <1>b DEF PatchStatus, WorkDone, PendingId, IdOfPc
  <2> QED BY <2>3, <2>4
<1>17. CASE MarkUnmanaged
  <2>1. cr.phase = "deleting" /\ cr.id \notin Live /\ ctl.mode = "delete"
    BY <1>17, <1>b DEF MarkUnmanaged, ModeOfPc, IdOfPc, Guarded
  <2>2. Managed!Release
    BY <1>17, <2>1, <1>a, IdleType
       DEF MarkUnmanaged, Managed!Release, PendingId, Live, Objects
  <2> QED BY <2>2 DEF Managed!Next
<1> QED
  BY <1>1, <1>2, <1>3, <1>4, <1>5, <1>6, <1>7, <1>8, <1>9, <1>11, <1>12, <1>13,
     <1>14, <1>15, <1>16, <1>17
     DEF Next, User, Aws, Controller, Associations, Managed!Next

\* Whatever users, AWS and failures do, each step of the rule's reconciles is
\* one that ManagedResource allows, or none: no rule is made without the
\* finalizer or beside the object's own, none destroyed before the object is
\* deleted, and the object never goes before its rule (MarkManaged, sdkFind,
\* sdkCreate, sdkDelete and MarkUnmanaged in the order of the runtime).
THEOREM RuleIsManaged == Spec => RefinesManaged
<1>1. Init => Managed!Init
  <2> SUFFICES ASSUME Init PROVE Managed!Init
    OBVIOUS
  <2>1. cr.phase = "live" /\ cr.finalizer = FALSE /\ cr.id = NoId /\ drift = 0
    BY DEF Init
  <2>2. Live = {}
    BY DEF Init, Live
  <2>3. PendingId = NoId
    BY IdleType DEF Init, PendingId
  <2> QED BY <2>1, <2>2, <2>3 DEF Managed!Init
<1>2. Bound /\ Bound' /\ [Next]_vars => [Managed!Next]_(Managed!vars)
  BY ManagedStep DEF ManagedVars, Managed!vars
<1> QED
  BY InitBound, NextBound, <1>1, <1>2, PTL
     DEF Spec, RefinesManaged, Managed!Spec
-----------------------------------------------------------------------------
(* Honesty *)

\* The worker's copy of the spec is out of date only while the key is queued, or
\* once the object is being deleted.
CopyIsCurrent ==
  ctl.pc # "idle" /\ ~queued /\ cr.phase = "live" => ctl.desired = cr.spec

\* A rule has the name, targets, endpoint and domain of a spec.
HasFields(r, spec) ==
  /\ rules[r].config = spec.config /\ rules[r].endpoint = spec.endpoint
  /\ rules[r].domain = spec.domain

\* What a create makes is what was asked for.  All that is left over then are
\* associations, none of which exists yet.
CreatePlan ==
  /\ ctl.pc = "creating" /\ ctl.id \in Live =>
       rules[ctl.id] = NewRule(ctl.desired)
  /\ ctl.pc = "work" /\ ctl.mode = "create" /\ ctl.id \in Live =>
       /\ HasFields(ctl.id, ctl.desired)
       /\ rules[ctl.id].tags = ctl.desired.tags
       /\ work = [NoWork EXCEPT !.add = work.add]
       /\ getAttachedVPC(ctl.id) \cup work.add \subseteq ctl.desired.vpcs
       /\ faults = 0 => ctl.desired.vpcs \subseteq getAttachedVPC(ctl.id) \cup work.add
       /\ \A v \in work.add : rules[ctl.id].assoc[v] = "NONE"

\* What an update has still to do brings the tags and the VPCs to those of the
\* spec; the fields have them already, or the key will be queued again.
UpdateLeads ==
  ctl.pc = "work" /\ ctl.mode = "update" /\ ctl.id \in Live =>
    /\ ~ctl.requeue => HasFields(ctl.id, ctl.desired)
    /\ ctl.desired.tags = (rules[ctl.id].tags \cup work.tag) \ work.untag
    /\ getAttachedVPC(ctl.id) \subseteq ctl.desired.vpcs \cup work.del
    /\ work.add \subseteq ctl.desired.vpcs

Honest == CopyIsCurrent /\ CreatePlan /\ UpdateLeads /\ SyncedIsHonest

HonestInv == PlanInv /\ Honest

\* A rule reads as before, and no association begins.
ReadsTheSame(r) ==
  /\ rules'[r].config = rules[r].config /\ rules'[r].endpoint = rules[r].endpoint
  /\ rules'[r].domain = rules[r].domain /\ rules'[r].tags = rules[r].tags
  /\ {v \in Vpcs : rules'[r].assoc[v] \notin {"NONE", "DELETING"}}
       = getAttachedVPC(r)
  /\ \A v \in Vpcs : rules[r].assoc[v] = "NONE" => rules'[r].assoc[v] = "NONE"
  /\ (\A v \in Vpcs : rules[r].assoc[v] = "NONE") => rules'[r] = rules[r]

\* An association that settles changes nothing that a reconcile reads.
LEMMA SettleStep ==
  ASSUME TypeOK, NEW r \in Live, NEW v \in Vpcs, AssociationSettles(r, v)
  PROVE  Live' = Live /\ \A s \in Live : ReadsTheSame(s)
<1>1. rules \in [Live -> Rules] /\ rules[r] \in Rules
  BY DEF TypeOK
<1>2. /\ rules' = [rules EXCEPT ![r] = [rules[r] EXCEPT !.assoc[v] =
           IF @ = "CREATING" THEN "COMPLETE" ELSE "NONE"]]
      /\ rules[r].assoc[v] \in {"CREATING", "DELETING"}
  BY <1>1 DEF AssociationSettles
<1>3. \A s \in Live \ {r} : rules'[s] = rules[s]
  BY <1>1, <1>2
<1>4. ReadsTheSame(r)
  <2>1. /\ rules'[r].config = rules[r].config
        /\ rules'[r].endpoint = rules[r].endpoint
        /\ rules'[r].domain = rules[r].domain /\ rules'[r].tags = rules[r].tags
        /\ \A w \in Vpcs \ {v} : rules'[r].assoc[w] = rules[r].assoc[w]
        /\ rules'[r].assoc[v] =
             IF rules[r].assoc[v] = "CREATING" THEN "COMPLETE" ELSE "NONE"
    BY <1>1, <1>2 DEF Rules
  <2> QED BY <1>2, <2>1 DEF ReadsTheSame, getAttachedVPC
<1>5. \A s \in Live \ {r} : ReadsTheSame(s)
  BY <1>3 DEF ReadsTheSame, getAttachedVPC
<1>6. Live' = Live
  BY <1>1, <1>2 DEF Live
<1> QED BY <1>4, <1>5, <1>6

\* What others do keeps a reconcile honest: they change no rule's reading, and
\* an edit or a deletion of the object queues it.
LEMMA OthersKeepHonest ==
  ASSUME Honest, TypeOK, ctl' = ctl, work' = work, faults' = faults,
         cr'.id = cr.id, queued' = TRUE \/ (cr' = cr /\ queued' = queued),
         \A r \in Live' : r \in Live /\ ReadsTheSame(r)
  PROVE  Honest'
<1>1. CopyIsCurrent'
  BY DEF Honest, CopyIsCurrent
<1>2. CreatePlan'
  <2>1. CASE ctl.pc = "creating" /\ ctl.id \in Live'
    <3>1. rules[ctl.id] = NewRule(ctl.desired)
      BY <2>1 DEF Honest, CreatePlan
    <3>2. rules'[ctl.id] = rules[ctl.id]
      BY <2>1, <3>1 DEF ReadsTheSame, NewRule
    <3> QED BY <2>1, <3>1, <3>2 DEF CreatePlan, NewRule
  <2>2. CASE ctl.pc = "work" /\ ctl.mode = "create" /\ ctl.id \in Live'
    BY <2>2 DEF Honest, CreatePlan, ReadsTheSame, getAttachedVPC, HasFields,
                TypeOK, Work
  <2> QED BY <2>1, <2>2 DEF CreatePlan
<1>3. UpdateLeads'
  BY DEF Honest, UpdateLeads, ReadsTheSame, getAttachedVPC, HasFields
<1>4. SyncedIsHonest'
  <2>1. SUFFICES ASSUME Settled' PROVE SyncedIsHonest'
    BY DEF SyncedIsHonest
  <2>2. Settled /\ cr' = cr /\ cr.id \in Live /\ ReadsTheSame(cr.id)
    BY <2>1 DEF Settled
  <2>3. Observed(cr.id)' = Observed(cr.id)
    BY <2>2 DEF Observed, ReadsTheSame, getAttachedVPC
  <2> QED BY <2>2, <2>3 DEF Honest, SyncedIsHonest
<1> QED BY <1>1, <1>2, <1>3, <1>4 DEF Honest

\* Where the worker has not come to work, or has stopped with the key queued,
\* there is nothing to be honest about.
LEMMA QueuedIsHonest ==
  ASSUME ctl' = Idle, queued' = TRUE
  PROVE  Honest'
BY IdleType
   DEF Honest, CopyIsCurrent, CreatePlan, UpdateLeads, SyncedIsHonest, Settled

LEMMA BeforeWorkIsHonest ==
  ASSUME Honest, ctl'.pc \in {"find", "manage", "create", "unmanage"},
         ctl'.desired = ctl.desired, ctl.pc # "idle",
         cr'.spec = cr.spec, cr'.phase = cr.phase, queued' = queued
  PROVE  Honest'
BY DEF Honest, CopyIsCurrent, CreatePlan, UpdateLeads, SyncedIsHonest, Settled

\* The find that begins an update sees the rule as it is, and plans for that.
LEMMA FindIsHonest ==
  ASSUME Honest, Bound, FindRule
  PROVE  Honest'
<1>a. ctl \in Reconciles
  BY DEF Bound, TypeInv, TypeOK
<1>1. /\ ctl'.pc = "work" /\ ctl'.mode \in {"update", "delete"}
      /\ ctl'.desired = ctl.desired /\ ctl'.id = ctl.id
      /\ UNCHANGED <<cr, queued, rules>> /\ ctl.pc = "find"
  BY <1>a DEF FindRule, Reconciles
<1>2. CopyIsCurrent' /\ CreatePlan' /\ SyncedIsHonest'
  BY <1>1 DEF Honest, CopyIsCurrent, CreatePlan, SyncedIsHonest, Settled
<1>3. UpdateLeads'
  <2>1. SUFFICES ASSUME ctl'.mode = "update" PROVE UpdateLeads'
    BY DEF UpdateLeads
  <2>2. /\ work' = customUpdateResolverRule(ctl.desired, Observed(ctl.id))
        /\ ctl'.requeue = DifferentExceptTagsAssociations(ctl.desired,
                                                          Observed(ctl.id))
    BY <1>a, <2>1 DEF FindRule, Bound, ModeOfPc, Reconciles
  <2>3. ~ctl'.requeue => HasFields(ctl.id, ctl.desired)
    BY <2>2 DEF DifferentExceptTagsAssociations, Observed, HasFields
  <2>4. /\ work'.tag = ctl.desired.tags \ rules[ctl.id].tags
        /\ work'.untag = rules[ctl.id].tags \ ctl.desired.tags
        /\ work'.add = ctl.desired.vpcs \ getAttachedVPC(ctl.id)
        /\ work'.del = getAttachedVPC(ctl.id) \ ctl.desired.vpcs
    BY <2>2 DEF customUpdateResolverRule, Observed, toAdd, toDelete
  <2> QED
    BY <1>1, <2>3, <2>4 DEF UpdateLeads, getAttachedVPC, HasFields
<1> QED BY <1>2, <1>3 DEF Honest

\* A create makes what it was asked for, also when its request is repeated.
LEMMA CreateIsHonest ==
  ASSUME Honest, Bound, CreateResolverRule \/ CreateRetried
  PROVE  Honest'
<1>a. /\ TypeOK /\ ctl \in Reconciles /\ ctl.pc = "creating" /\ ctl.mode = "create"
      /\ ctl.id \in RuleIds /\ ctl.desired \in Specs
  BY DEF Bound, TypeInv, TypeOK, IdDrawn, ModeOfPc, Reconciles,
         CreateResolverRule, CreateRetried
<1>1. /\ ctl'.pc \in {"creating", "work"} /\ ctl'.mode = "create"
      /\ ctl'.desired = ctl.desired /\ ctl'.id = ctl.id
      /\ UNCHANGED <<cr, queued, faults>>
      /\ ctl'.pc = "work" => work' = createAssociation(ctl.desired)
  BY <1>a DEF CreateResolverRule, CreateRetried, Reconciles
<1>s. Sent(ctl.desired.config) = ctl.desired.config
  <2>1. ctl.desired.config \in Configs /\ Payable(ctl.desired)
    BY <1>a DEF Specs, Bound, TypeInv, PayableCreated
  <2> QED BY <2>1, SentAsWritten DEF Payable
<1>2. rules'[ctl.id] = NewRule(ctl.desired)
  <2>1. rules' = With(ctl.id, ctl.desired)
    BY DEF CreateResolverRule, CreateRetried
  <2> QED BY <1>a, <2>1 DEF With, Honest, CreatePlan
<1>3. CreatePlan'
  <2>1. ASSUME ctl'.pc = "work" PROVE
          /\ work' = [NoWork EXCEPT !.add = ctl.desired.vpcs]
          /\ work'.add = ctl.desired.vpcs /\ ctl.desired.vpcs \subseteq Vpcs
    BY <1>a, <1>1, <2>1 DEF createAssociation, toAdd, NoWork, Specs
  <2>2. /\ rules'[ctl.id].config = ctl.desired.config
        /\ rules'[ctl.id].endpoint = ctl.desired.endpoint
        /\ rules'[ctl.id].domain = ctl.desired.domain
        /\ rules'[ctl.id].tags = ctl.desired.tags
        /\ \A v \in Vpcs : rules'[ctl.id].assoc[v] = "NONE"
    BY <1>2, <1>s DEF NewRule
  <2>3. getAttachedVPC(ctl.id)' = {}
    BY <1>1, <2>2 DEF getAttachedVPC
  <2> QED BY <1>1, <1>2, <2>1, <2>2, <2>3 DEF CreatePlan, HasFields, NewRule
<1>4. CopyIsCurrent' /\ UpdateLeads'
  BY <1>1, <1>a DEF Honest, CopyIsCurrent, UpdateLeads
<1>5. SyncedIsHonest'
  BY <1>1 DEF SyncedIsHonest, Settled
<1> QED BY <1>3, <1>4, <1>5 DEF Honest

\* Each call of an update or a create brings the rule nearer to what is wanted.
LEMMA CallIsHonest ==
  ASSUME Honest, Bound,
         \/ TagResource \/ UntagResource \/ UpdateResolverRule
         \/ \E v \in Vpcs : AssociateResolverRule(v) \/ DisassociateResolverRule(v)
  PROVE  Honest'
<1>a. /\ TypeOK /\ ctl \in Reconciles /\ work \in Work /\ rules \in [Live -> Rules]
      /\ ctl.pc = "work" /\ ctl.id \in Live /\ rules[ctl.id] \in Rules
  BY DEF Bound, TypeInv, TypeOK, TagResource, UntagResource, UpdateResolverRule,
         AssociateResolverRule, MayAssociate, DisassociateResolverRule,
         MayDisassociate
<1>b. UNCHANGED <<cr, queued, ctl, used, faults, edits, drift>>
  BY DEF TagResource, UntagResource, UpdateResolverRule, AssociateResolverRule,
         DisassociateResolverRule
<1>c. CopyIsCurrent' /\ SyncedIsHonest'
  BY <1>a, <1>b DEF Honest, CopyIsCurrent, SyncedIsHonest, Settled
<1>1. CASE TagResource
  <2>1. /\ rules'[ctl.id] = [rules[ctl.id] EXCEPT !.tags = @ \cup work.tag]
        /\ work' = [work EXCEPT !.tag = {}] /\ Live' = Live /\ work.tag # {}
    BY <1>1, <1>a DEF TagResource, Live
  <2>2. UpdateLeads'
    BY <1>a, <1>b, <2>1
       DEF Honest, UpdateLeads, HasFields, getAttachedVPC, Work, Rules
  <2>3. CreatePlan'
    BY <1>a, <1>b, <2>1 DEF Honest, CreatePlan, NoWork
  <2> QED BY <1>c, <2>2, <2>3 DEF Honest
<1>2. CASE UntagResource
  <2>1. /\ rules'[ctl.id] = [rules[ctl.id] EXCEPT !.tags = @ \ work.untag]
        /\ work' = [work EXCEPT !.untag = {}] /\ Live' = Live
        /\ work.untag # {} /\ work.tag = {}
    BY <1>2, <1>a DEF UntagResource, Live
  <2>2. UpdateLeads'
    BY <1>a, <1>b, <2>1
       DEF Honest, UpdateLeads, HasFields, getAttachedVPC, Work, Rules
  <2>3. CreatePlan'
    BY <1>a, <1>b, <2>1 DEF Honest, CreatePlan, NoWork
  <2> QED BY <1>c, <2>2, <2>3 DEF Honest
<1>3. CASE UpdateResolverRule
  <2>1. PICK c \in AwsConfigs :
          /\ rules'[ctl.id] = [rules[ctl.id] EXCEPT !.config = c,
                                 !.endpoint = ctl.desired.endpoint]
          /\ rules[ctl.id].config = ctl.desired.config => c = ctl.desired.config
    <3>1. /\ rules[ctl.id].config \in AwsConfigs /\ ctl.desired.config \in Configs
          /\ ~Overflows(ctl.desired.config)
      BY <1>3, <1>a DEF UpdateResolverRule, Rules, AwsConfigs, Reconciles, Specs
    <3>2. rules[ctl.id].config = ctl.desired.config => ~Nameless(ctl.desired.config)
      BY <3>1, SetsAssumption DEF AwsConfigs, Nameless
    <3>3. rules'[ctl.id] =
            [rules[ctl.id] EXCEPT
               !.config = Updated(@, Sent(ctl.desired.config)),
               !.endpoint = ctl.desired.endpoint]
      BY <1>3, <1>a DEF UpdateResolverRule
    <3> QED BY <3>1, <3>2, <3>3, UpdatedType
  <2>2. work' = [work EXCEPT !.config = FALSE] /\ Live' = Live /\ work.config
    BY <1>3, <1>a DEF UpdateResolverRule, Live
  <2>3. UpdateLeads'
    BY <1>a, <1>b, <2>1, <2>2
       DEF Honest, UpdateLeads, HasFields, getAttachedVPC, Work, Rules
  <2>4. CreatePlan'
    BY <1>a, <1>b, <2>2 DEF Honest, CreatePlan, NoWork
  <2> QED BY <1>c, <2>3, <2>4 DEF Honest
<1>4. ASSUME NEW v \in Vpcs, AssociateResolverRule(v)
      PROVE  Honest'
  <2>1. /\ Live' = Live /\ work' = [work EXCEPT !.add = @ \ {v}] /\ v \in work.add
        /\ rules'[ctl.id].config = rules[ctl.id].config
        /\ rules'[ctl.id].endpoint = rules[ctl.id].endpoint
        /\ rules'[ctl.id].domain = rules[ctl.id].domain
        /\ rules'[ctl.id].tags = rules[ctl.id].tags
        /\ rules'[ctl.id].assoc[v] = "CREATING"
        /\ \A w \in Vpcs \ {v} : rules'[ctl.id].assoc[w] = rules[ctl.id].assoc[w]
    BY <1>4, <1>a DEF AssociateResolverRule, MayAssociate, Live, Rules
  <2>2. getAttachedVPC(ctl.id)' = getAttachedVPC(ctl.id) \cup {v}
    BY <1>b, <2>1 DEF getAttachedVPC
  <2>3. UpdateLeads'
    BY <1>a, <1>b, <2>1, <2>2 DEF Honest, UpdateLeads, HasFields, Work
  <2>4. CreatePlan'
    <3>1. CASE ctl.mode = "create"
      <4>1. work = [NoWork EXCEPT !.add = work.add] /\ work'.add = work.add \ {v}
        BY <1>a, <2>1, <3>1 DEF Honest, CreatePlan, Work
      <4>2. work' = [NoWork EXCEPT !.add = work'.add]
        BY <2>1, <4>1 DEF NoWork
      <4> QED
        BY <1>a, <1>b, <2>1, <2>2, <3>1, <4>1, <4>2
           DEF Honest, CreatePlan, HasFields, Work
    <3>2. CASE ctl.mode # "create"
      BY <1>a, <1>b, <3>2 DEF CreatePlan
    <3> QED BY <3>1, <3>2
  <2> QED BY <1>c, <2>3, <2>4 DEF Honest
<1>5. ASSUME NEW v \in Vpcs, DisassociateResolverRule(v)
      PROVE  Honest'
  <2>1. /\ Live' = Live /\ work' = [work EXCEPT !.del = @ \ {v}] /\ v \in work.del
        /\ rules'[ctl.id].config = rules[ctl.id].config
        /\ rules'[ctl.id].endpoint = rules[ctl.id].endpoint
        /\ rules'[ctl.id].domain = rules[ctl.id].domain
        /\ rules'[ctl.id].tags = rules[ctl.id].tags
        /\ rules'[ctl.id].assoc[v] = "DELETING"
        /\ \A w \in Vpcs \ {v} : rules'[ctl.id].assoc[w] = rules[ctl.id].assoc[w]
    BY <1>5, <1>a DEF DisassociateResolverRule, MayDisassociate, Live, Rules
  <2>2. getAttachedVPC(ctl.id)' = getAttachedVPC(ctl.id) \ {v}
    BY <1>b, <2>1 DEF getAttachedVPC
  <2>3. UpdateLeads'
    BY <1>a, <1>b, <2>1, <2>2 DEF Honest, UpdateLeads, HasFields, Work
  <2>4. CreatePlan'
    BY <1>a, <1>b, <2>1 DEF Honest, CreatePlan, NoWork
  <2> QED BY <1>c, <2>3, <2>4 DEF Honest
<1> QED BY <1>1, <1>2, <1>3, <1>4, <1>5

\* Only a fault drops associations that a create has still to make, and leaves
\* the rule in being: AWS has no reason to refuse any of them.
LEMMA DropIsHonest ==
  ASSUME Honest, Bound, CallRefused \/ CallFails
  PROVE  Honest'
<1>a. TypeOK /\ ctl \in Reconciles /\ work \in Work /\ faults \in Nat
  BY BoundsAssumption DEF Bound, TypeInv, TypeOK
<1>1. CASE ReconcileError
  BY <1>1, QueuedIsHonest DEF ReconcileError
<1>2. CASE ~ReconcileError
  <2>1. /\ ctl.pc = "work" /\ ctl.mode = "create" /\ work # NoWork
        /\ work' = NoWork /\ UNCHANGED <<cr, queued, ctl, rules>>
    BY <1>2 DEF CallRefused, CallFails, OperationFails
  <2>2. CopyIsCurrent' /\ UpdateLeads' /\ SyncedIsHonest'
    BY <2>1 DEF Honest, CopyIsCurrent, UpdateLeads, SyncedIsHonest, Settled
  <2>3. faults' # 0 \/ ctl.id \notin Live
    <3>1. CASE CallFails
      BY <1>a, <3>1 DEF CallFails
    <3>2. CASE CallRefused /\ ctl.id \in Live
      <4>1. /\ work = [NoWork EXCEPT !.add = work.add]
            /\ \A v \in work.add : rules[ctl.id].assoc[v] = "NONE"
        BY <2>1, <3>2 DEF Honest, CreatePlan
      <4>2. work.del = {} /\ work.config = FALSE
        BY <4>1 DEF NoWork
      <4> QED
        BY <2>1, <3>2, <4>1, <4>2
           DEF CallRefused, Refused, MayAssociate, MayDisassociate, WorkDone
    <3> QED BY <3>1, <3>2
  <2>4. CreatePlan'
    BY <1>a, <2>1, <2>3 DEF Honest, CreatePlan, HasFields, getAttachedVPC,
                            NoWork, Live, NewRule
  <2> QED BY <2>2, <2>4 DEF Honest
<1> QED BY <1>1, <1>2

\* The final patch says synced of what the operation has brought about.
LEMMA PatchIsHonest ==
  ASSUME HonestInv, PatchStatus
  PROVE  Honest'
<1>a. /\ TypeOK /\ cr \in Objects /\ ctl \in Reconciles /\ Bound
      /\ ctl.pc = "work" /\ work = NoWork /\ ctl.mode \in {"create", "update"}
      /\ ctl' = Idle /\ UNCHANGED <<work, rules, faults>>
      /\ queued' = (queued \/ ctl.requeue)
  BY DEF HonestInv, PlanInv, Bound, TypeInv, TypeOK, PatchStatus, WorkDone
<1>1. CopyIsCurrent' /\ CreatePlan' /\ UpdateLeads'
  BY <1>a, IdleType DEF CopyIsCurrent, CreatePlan, UpdateLeads
<1>2. SyncedIsHonest'
  <2>1. SUFFICES ASSUME Settled' PROVE SyncedIsHonest'
    BY DEF SyncedIsHonest
  <2>2. /\ cr'.id = ctl.id /\ ctl.id \in Live /\ cr'.spec = cr.spec
        /\ cr'.phase = "live" /\ cr.phase = "live" /\ ~queued /\ ~ctl.requeue
    BY <1>a, <2>1 DEF PatchStatus, Settled, Exists, Objects, Live
  <2>3. ctl.desired = cr.spec
    BY <1>a, <2>2 DEF HonestInv, Honest, CopyIsCurrent
  <2>4. /\ HasFields(ctl.id, cr.spec) /\ rules[ctl.id].tags = cr.spec.tags
        /\ getAttachedVPC(ctl.id) \subseteq cr.spec.vpcs
        /\ faults = 0 => getAttachedVPC(ctl.id) = cr.spec.vpcs
    <3>1. work.add = {} /\ work.del = {} /\ work.tag = {} /\ work.untag = {}
      BY <1>a DEF NoWork
    <3>2. CASE ctl.mode = "create"
      BY <1>a, <2>2, <2>3, <3>1, <3>2 DEF HonestInv, Honest, CreatePlan
    <3>3. CASE ctl.mode = "update"
      BY <1>a, <2>2, <2>3, <3>1, <3>3
         DEF HonestInv, Honest, UpdateLeads, PlanInv, UpdatePlan
    <3> QED BY <1>a, <3>2, <3>3
  <2>5. cr.spec \in Specs
    BY <1>a DEF Objects
  <2>6. /\ Observed(cr.id)' = Observed(ctl.id)
    BY <1>a, <2>2 DEF Observed, getAttachedVPC
  <2>7. /\ [Observed(ctl.id) EXCEPT !.vpcs = {}] = [cr.spec EXCEPT !.vpcs = {}]
        /\ Observed(ctl.id).vpcs = getAttachedVPC(ctl.id)
    <3>1. cr.spec = [config |-> cr.spec.config, endpoint |-> cr.spec.endpoint,
                     domain |-> cr.spec.domain, tags |-> cr.spec.tags,
                     vpcs |-> cr.spec.vpcs]
      BY <2>5 DEF Specs
    <3>2. Observed(ctl.id) =
            [config |-> cr.spec.config, endpoint |-> cr.spec.endpoint,
             domain |-> cr.spec.domain, tags |-> cr.spec.tags,
             vpcs |-> getAttachedVPC(ctl.id)]
      BY <2>4 DEF Observed, HasFields
    <3> QED BY <3>1, <3>2
  <2>8. faults' = faults /\ Observed(cr.id)'.vpcs = getAttachedVPC(ctl.id)
    BY <1>a, <2>6, <2>7
  <2> QED BY <2>2, <2>4, <2>6, <2>7, <2>8 DEF SyncedIsHonest
<1> QED BY <1>1, <1>2 DEF Honest

LEMMA InitHonest == Init => HonestInv
BY InitPlan, IdleType
   DEF Init, HonestInv, Honest, CopyIsCurrent, CreatePlan, UpdateLeads,
       SyncedIsHonest, Settled

LEMMA NextHonest == HonestInv /\ [Next]_vars => HonestInv'
<1> SUFFICES ASSUME HonestInv, [Next]_vars PROVE HonestInv'
  OBVIOUS
<1>a. PlanInv' /\ Bound /\ Honest
  BY NextPlan DEF HonestInv, PlanInv
<1>b. /\ TypeOK /\ ctl \in Reconciles /\ cr \in Objects
  BY <1>a DEF Bound, TypeInv, TypeOK
<1>c. SUFFICES Honest'
  BY <1>a DEF HonestInv
<1>1. ASSUME ctl' = ctl, work' = work, faults' = faults, cr'.id = cr.id,
             rules' = rules, queued' = TRUE \/ (cr' = cr /\ queued' = queued)
      PROVE  Honest'
  <2>1. \A r \in Live' : r \in Live /\ ReadsTheSame(r)
    BY <1>1 DEF ReadsTheSame, getAttachedVPC, Live
  <2> QED BY <1>1, <1>a, <1>b, <2>1, OthersKeepHonest
<1>2. CASE UNCHANGED vars \/ EditSpec \/ DeleteResource \/ Resync \/ Finished
  BY <1>1, <1>2, <1>b
     DEF vars, EditSpec, DeleteResource, Resync, Finished, Objects
<1>3. ASSUME NEW r \in Live, NEW v \in Vpcs, AssociationSettles(r, v)
      PROVE  Honest'
  BY <1>3, <1>a, <1>b, SettleStep, OthersKeepHonest DEF AssociationSettles
<1>4. ASSUME NEW r \in Live, RuleDrifts(r) PROVE Honest'
  <2>1. \A s \in Live' : s \in Live /\ rules'[s] = rules[s]
    BY <1>4, <1>b, WithoutType DEF RuleDrifts, Live
  <2>2. \A s \in Live' : s \in Live /\ ReadsTheSame(s)
    BY <2>1 DEF ReadsTheSame, getAttachedVPC
  <2> QED BY <1>4, <1>a, <1>b, <2>2, OthersKeepHonest DEF RuleDrifts
<1>5. CASE StartReconcile
  <2>1. UNCHANGED <<cr, work, rules, faults>>
    BY <1>5 DEF StartReconcile
  <2>2. CASE Exists
    <3>1. ctl'.pc = "find" /\ ctl'.desired = cr.spec
      BY <1>5, <2>2, IdleType DEF StartReconcile, Reconciles
    <3> QED
      BY <2>1, <3>1 DEF Honest, CopyIsCurrent, CreatePlan, UpdateLeads,
                        SyncedIsHonest, Settled
  <2>3. CASE ~Exists
    <3>1. ctl' = Idle /\ cr.phase = "gone"
      BY <1>5, <2>3 DEF StartReconcile, Exists
    <3> QED
      BY <2>1, <3>1, IdleType DEF Honest, CopyIsCurrent, CreatePlan, UpdateLeads,
                                  SyncedIsHonest, Settled
  <2> QED BY <2>2, <2>3
<1>6. CASE FindNothing \/ DeleteResolverRule
  BY <1>6, <1>a, <1>b, BeforeWorkIsHonest
     DEF FindNothing, DeleteResolverRule, WorkDone, Reconciles
<1>7. CASE FindRule
  BY <1>7, <1>a, FindIsHonest
<1>8. CASE FindPanics \/ CreateRefused \/ Restart
  BY <1>8, QueuedIsHonest
     DEF FindPanics, CreateRefused, Restart, ReconcileError, ReconcileLost
<1>9. CASE MarkManaged
  <2>1. CASE ReconcileError
    BY <2>1, QueuedIsHonest DEF ReconcileError
  <2>2. CASE ~ReconcileError
    BY <1>9, <2>2, <1>a, <1>b, BeforeWorkIsHonest
       DEF MarkManaged, Objects, Reconciles
  <2> QED BY <2>1, <2>2
<1>10. CASE PrepareCreate
  <2>1. PICK t \in RuleIds \ used :
          /\ ctl' = [ctl EXCEPT !.pc = "creating", !.mode = "create", !.id = t]
          /\ used' = used \cup {t}
    BY <1>10 DEF PrepareCreate, getCreatorRequestId
  <2>2. /\ ctl'.pc = "creating" /\ ctl'.desired = ctl.desired /\ ctl'.id \notin Live'
        /\ UNCHANGED <<cr, queued>> /\ ctl.pc = "create"
    BY <1>10, <1>b, <2>1 DEF PrepareCreate, TypeOK, Reconciles, Live
  <2> QED
    BY <1>a, <2>2 DEF Honest, CopyIsCurrent, CreatePlan, UpdateLeads,
                      SyncedIsHonest, Settled
<1>11. CASE CreateResolverRule \/ CreateRetried
  BY <1>11, <1>a, CreateIsHonest
<1>12. CASE TagResource \/ UntagResource \/ UpdateResolverRule \/ Associations
  BY <1>12, <1>a, CallIsHonest DEF Associations
<1>13. CASE CallRefused \/ CallFails
  BY <1>13, <1>a, DropIsHonest
<1>14. CASE PatchStatus
  BY <1>14, PatchIsHonest
<1>15. CASE MarkUnmanaged
  <2>1. cr'.phase = "gone" /\ ctl' = Idle
    BY <1>15, <1>b DEF MarkUnmanaged, Objects
  <2> QED
    BY <2>1, IdleType DEF Honest, CopyIsCurrent, CreatePlan, UpdateLeads,
                          SyncedIsHonest, Settled
<1> QED
  BY <1>2, <1>3, <1>4, <1>5, <1>6, <1>7, <1>8, <1>9, <1>10, <1>11, <1>12, <1>13,
     <1>14, <1>15
     DEF Next, User, Aws, Controller

\* A rule whose object says synced, with nothing pending, has the fields and the
\* tags of its spec and no VPC beyond it, and lacks one only after a fault:
\* RequeueOnUpdate is what keeps an update that leaves a field behind from saying
\* so, and the queued key one whose spec was edited meanwhile.
THEOREM SyncedRuleIsHonest == Spec => []SyncedIsHonest
<1>1. HonestInv => SyncedIsHonest
  BY DEF HonestInv, Honest
<1> QED BY InitHonest, NextHonest, <1>1, PTL DEF Spec
-----------------------------------------------------------------------------
(* Ports *)

\* A port that a user wrote.
Written(port) == \E c \in Configs : port = c.port

\* A rule comes by its port in two ways only, and both refuse one that a
\* request cannot carry.
LEMMA PortStep ==
  ASSUME TypeInv, [Next]_vars, NEW r \in DOMAIN rules'
  PROVE  \/ r \in Live /\ rules'[r].config = rules[r].config
         \/ Written(rules'[r].config.port)
<1>1. TypeOK /\ ctl \in Reconciles /\ rules \in [Live -> Rules]
  BY DEF TypeInv, TypeOK
<1>2. CASE rules' = rules
  BY <1>2 DEF Live
<1>3. ASSUME NEW s \in Live, NEW v \in Vpcs, AssociationSettles(s, v)
      PROVE  r \in Live /\ rules'[r].config = rules[r].config
  <2>1. rules' = [rules EXCEPT ![s] = [rules[s] EXCEPT !.assoc[v] =
             IF @ = "CREATING" THEN "COMPLETE" ELSE "NONE"]]
    BY <1>1, <1>3 DEF AssociationSettles
  <2>2. rules[s] \in Rules /\ r \in Live
    BY <1>1, <2>1
  <2> QED BY <1>1, <2>1, <2>2 DEF Rules
<1>4. ASSUME NEW s \in Live, RuleDrifts(s)
      PROVE  r \in Live /\ rules'[r] = rules[r]
  BY <1>1, <1>4, WithoutType DEF RuleDrifts
<1>5. CASE DeleteResolverRule
  BY <1>1, <1>5, WithoutType DEF DeleteResolverRule
<1>6. CASE CreateResolverRule \/ CreateRetried
  <2>1. rules' = With(ctl.id, ctl.desired) /\ Payable(ctl.desired)
        /\ ctl.desired.config \in Configs
    BY <1>1, <1>6 DEF CreateResolverRule, CreateRetried, TypeInv, PayableCreated,
                      Reconciles, Specs
  <2>2. CASE r \in Live
    BY <2>1, <2>2 DEF With
  <2>3. CASE r \notin Live
    <3>1. rules'[r] = NewRule(ctl.desired)
      BY <2>1, <2>3 DEF With
    <3>2. rules'[r].config = ctl.desired.config
      BY <2>1, <3>1, SentAsWritten DEF NewRule, Payable
    <3> QED BY <2>1, <3>2 DEF Written
  <2> QED BY <2>2, <2>3
<1>7. CASE TagResource \/ UntagResource
  BY <1>1, <1>7 DEF TagResource, UntagResource, Rules
<1>8. ASSUME NEW v \in Vpcs,
             AssociateResolverRule(v) \/ DisassociateResolverRule(v)
      PROVE  r \in Live /\ rules'[r].config = rules[r].config
  <2>1. PICK a : rules' = [rules EXCEPT ![ctl.id] =
                             [rules[ctl.id] EXCEPT !.assoc[v] = a]]
    BY <1>1, <1>8 DEF AssociateResolverRule, DisassociateResolverRule
  <2> QED BY <1>1, <2>1 DEF Rules
<1>9. CASE UpdateResolverRule
  <2>1. /\ ctl.id \in Live /\ rules[ctl.id] \in Rules
        /\ rules[ctl.id].config \in AwsConfigs
        /\ ctl.desired.config \in Configs /\ ~Overflows(ctl.desired.config)
    BY <1>1, <1>9 DEF UpdateResolverRule, Rules, AwsConfigs, Reconciles, Specs
  <2>2. PICK c \in AwsConfigs :
          /\ c.port = ctl.desired.config.port
          /\ rules' = [rules EXCEPT ![ctl.id].config = c,
                                    ![ctl.id].endpoint = ctl.desired.endpoint]
    BY <1>9, <2>1, UpdatedType DEF UpdateResolverRule
  <2>3. CASE r = ctl.id
    <3>1. rules'[r].config = c
      BY <1>1, <2>1, <2>2, <2>3 DEF Rules
    <3> QED BY <2>1, <2>2, <3>1 DEF Written
  <2>4. CASE r # ctl.id
    BY <1>1, <2>1, <2>2, <2>4
  <2> QED BY <2>3, <2>4
<1> QED
  BY <1>2, <1>3, <1>4, <1>5, <1>6, <1>7, <1>8, <1>9
     DEF Next, vars, User, Aws, Controller, Associations, EditSpec,
         DeleteResource, StartReconcile, Resync, FindNothing, FindRule,
         FindPanics, MarkManaged, CreateRefused, PrepareCreate, CallRefused,
         CallFails, PatchStatus, MarkUnmanaged, Restart, Finished

\* Whatever the width of the request, no rule is ever sent a port that no user
\* wrote: the range check stands before each of the two conversions to int32
\* (newCreateRequestPayload and syncResolverRuleConfig).
THEOREM PortsAreKept == Spec => []PortsAreAsWritten
<1> DEFINE PortInv == TypeInv /\ PortsAreAsWritten
<1>1. Init => PortInv
  BY InitType DEF Init, PortsAreAsWritten, Live
<1>2. PortInv /\ [Next]_vars => PortInv'
  <2> SUFFICES ASSUME PortInv, [Next]_vars PROVE PortInv'
    OBVIOUS
  <2>1. TypeInv'
    BY NextType
  <2>2. ASSUME NEW r \in DOMAIN rules' PROVE Written(rules'[r].config.port)
    BY PortStep DEF PortsAreAsWritten, Written
  <2> QED BY <2>1, <2>2 DEF PortsAreAsWritten, Written, Live
<1>3. PortInv => PortsAreAsWritten
  OBVIOUS
<1> QED BY <1>1, <1>2, <1>3, PTL DEF Spec
=============================================================================
