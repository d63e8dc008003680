------------------------ MODULE RuleAssociationProofs ------------------------
(***************************************************************************)
(* The controllers of ResolverRule and of ResolverRuleAssociation side by  *)
(* side, for any rules, VPCs, specs, edits and faults: who may take an     *)
(* association away, what guards it, and what its object may say of it.    *)
(***************************************************************************)
EXTENDS RuleAssociation, ResolverRuleProofs

\* What an operation of the rule's controller that is no deletion has still to
\* take away is not wanted by the spec it works on.
Unwanted ==
  ctl.pc = "work" /\ ctl.mode # "delete" => work.del \cap ctl.desired.vpcs = {}

\* The association's controller deletes for an object that is being deleted.
DeletionOnly ==
  /\ actl.pc # "idle" /\ actl.mode = "delete" => acr.phase = "deleting"
  /\ actl.pc = "delete" => actl.mode = "delete"

\* All that matters here of the object and of the worker's record of it.
Shaped == {"pc", "mode"} \subseteq DOMAIN actl /\ "phase" \in DOMAIN acr

SharedInv == TypeInv /\ Unwanted /\ Shaped /\ DeletionOnly

LEMMA AIdleType == AIdle.pc = "idle" /\ {"pc", "mode"} \subseteq DOMAIN AIdle
BY DEF AIdle
-----------------------------------------------------------------------------
(* The rule's controller *)

LEMMA UnwantedStep ==
  ASSUME TypeInv, Unwanted, [Next]_vars
  PROVE  Unwanted'
<1>a. TypeOK /\ ctl \in Reconciles /\ work \in Work
  BY DEF TypeInv, TypeOK
<1>1. ASSUME ctl'.pc = ctl.pc, ctl'.mode = ctl.mode, ctl'.desired = ctl.desired,
             work'.del \subseteq work.del
      PROVE  Unwanted'
  BY <1>1 DEF Unwanted
<1>2. ASSUME ctl'.pc # "work" PROVE Unwanted'
  BY <1>2 DEF Unwanted
<1>3. ASSUME work' = NoWork PROVE Unwanted'
  BY <1>3 DEF Unwanted, NoWork
<1>4. CASE UNCHANGED <<ctl, work>>
  BY <1>1, <1>4
<1>5. CASE FindRule
  <2>1. CASE ctl.mode = "sync"
    <3>1. ctl'.desired = ctl.desired
      BY <1>5, <1>a, <2>1 DEF FindRule, Reconciles
    <3>2. work'.del = Observed(ctl.id).vpcs \ ctl.desired.vpcs
      BY <1>5, <2>1 DEF FindRule, customUpdateResolverRule, toDelete
    <3> QED BY <3>1, <3>2 DEF Unwanted
  <2>2. CASE ctl.mode = "delete"
    BY <1>5, <1>a, <2>2 DEF FindRule, Reconciles, Unwanted
  <2> QED BY <1>5, <2>1, <2>2 DEF FindRule
<1>6. CASE CreateResolverRule
  BY <1>6 DEF CreateResolverRule, createAssociation, NoWork, Unwanted
<1>7. CASE TagResource \/ UntagResource \/ UpdateResolverRule
  <2>1. ctl' = ctl /\ work'.del = work.del
    BY <1>7, <1>a DEF TagResource, UntagResource, UpdateResolverRule, Work
  <2> QED BY <1>1, <2>1
<1>8. ASSUME NEW v \in Vpcs,
             AssociateResolverRule(v) \/ DisassociateResolverRule(v)
      PROVE  Unwanted'
  <2>1. ctl' = ctl /\ work'.del \subseteq work.del
    BY <1>8, <1>a DEF AssociateResolverRule, DisassociateResolverRule, Work
  <2> QED BY <1>1, <2>1
<1>9. CASE CallRefused \/ CallFails
  BY <1>3, <1>9, <1>a, FailType DEF CallRefused, CallFails
<1>10. CASE StartReconcile \/ FindNothing \/ PrepareCreate \/ CreateRetried
            \/ DeleteResolverRule \/ PatchStatus \/ MarkUnmanaged
  BY <1>2, <1>10, <1>a, IdleType
     DEF StartReconcile, FindNothing, PrepareCreate, CreateRetried,
         DeleteResolverRule, PatchStatus, MarkUnmanaged, Reconciles
<1>11. CASE FindPanics \/ MarkManaged \/ CreateRefused \/ Restart
  BY <1>2, <1>11, <1>a, IdleType, EndType
     DEF FindPanics, MarkManaged, CreateRefused, Restart, Reconciles
<1>12. ASSUME NEW r \in Live, NEW v \in Vpcs, AssociationSettles(r, v)
       PROVE  Unwanted'
  BY <1>4, <1>12 DEF AssociationSettles
<1>13. ASSUME NEW r \in Live, RuleDrifts(r) PROVE Unwanted'
  BY <1>4, <1>13 DEF RuleDrifts
<1> QED
  BY <1>4, <1>5, <1>6, <1>7, <1>8, <1>9, <1>10, <1>11, <1>12, <1>13
     DEF Next, vars, User, Aws, Controller, Associations, EditSpec,
         DeleteResource, Resync, Finished

\* A rule that is new has no association yet.
LEMMA NewRuleStep ==
  ASSUME TypeInv, [Next]_vars, NEW r \in Live' \ Live, NEW v \in Vpcs
  PROVE  rules'[r].assoc[v] = "NONE"
<1>a. TypeOK /\ rules \in [Live -> Rules]
  BY DEF TypeInv, TypeOK
<1>1. CASE CreateResolverRule \/ CreateRetried
  <2>1. rules' = With(ctl.id, ctl.desired)
    BY <1>1 DEF CreateResolverRule, CreateRetried
  <2>2. rules'[r] = NewRule(ctl.desired)
    BY <2>1 DEF With, Live
  <2> QED BY <2>2 DEF NewRule
<1>2. ASSUME NEW s \in Live, NEW w \in Vpcs, AssociationSettles(s, w)
      PROVE  FALSE
  BY <1>2, <1>a DEF AssociationSettles, Live
<1>3. ASSUME NEW s \in Live, RuleDrifts(s) PROVE FALSE
  BY <1>3 DEF RuleDrifts, Without, Live
<1>4. ASSUME NEW w \in Vpcs,
             AssociateResolverRule(w) \/ DisassociateResolverRule(w)
      PROVE  FALSE
  BY <1>4, <1>a DEF AssociateResolverRule, DisassociateResolverRule, Live
<1>5. ASSUME TagResource \/ UntagResource \/ UpdateResolverRule PROVE FALSE
  BY <1>5, <1>a DEF TagResource, UntagResource, UpdateResolverRule, Live
<1>6. ASSUME DeleteResolverRule PROVE FALSE
  BY <1>6 DEF DeleteResolverRule, Without, Live
<1>7. ASSUME rules' = rules PROVE FALSE
  BY <1>7 DEF Live
<1> QED
  BY <1>1, <1>2, <1>3, <1>4, <1>5, <1>6, <1>7
     DEF Next, vars, User, Aws, Controller, Associations, EditSpec,
         DeleteResource, StartReconcile, Resync, FindNothing, FindRule,
         FindPanics, MarkManaged, CreateRefused, PrepareCreate, CallRefused,
         CallFails, PatchStatus, MarkUnmanaged, Restart, Finished

\* What the rule's controller removes, it removes from the rule it works on.
LEMMA RuleRemoval ==
  ASSUME SharedInv, [Next]_vars, NEW p \in Places, Removed(p)
  PROVE  /\ ctl.pc = "work" /\ ctl.id = p[1]
         /\ ctl.mode = "delete" \/ p[2] \notin ctl.desired.vpcs
<1>1. p[1] \in RuleIds /\ p[2] \in Vpcs
  BY DEF Places
<1>2. p[1] \in Live' /\ rules'[p[1]].assoc[p[2]] = "DELETING"
  BY DEF Removed, StatusAt
<1>3. p[1] \in Live /\ rules[p[1]].assoc[p[2]] # "DELETING"
  BY <1>1, <1>2, NewRuleStep DEF SharedInv, Removed, StatusAt
<1>4. p[1] = ctl.id /\ DisassociateResolverRule(p[2])
  BY <1>1, <1>2, <1>3, RemovalStep DEF SharedInv, Live
<1>5. ctl.pc = "work" /\ p[2] \in work.del
  BY <1>4 DEF DisassociateResolverRule, MayDisassociate
<1> QED BY <1>4, <1>5 DEF SharedInv, Unwanted
-----------------------------------------------------------------------------
(* The association's controller *)

\* One association changes its status.
Moved(r, v, s) == [rules EXCEPT ![r].assoc[v] = s]

LEMMA PlaceType ==
  ASSUME TypeInv, NEW r \in Live, NEW v, NEW s \in AssocStatus,
         rules' = Moved(r, v, s)
  PROVE  /\ Live' = Live /\ rules' \in [Live' -> Rules]
         /\ \A q \in Live, w \in Vpcs :
              <<q, w>> # <<r, v>> => rules'[q].assoc[w] = rules[q].assoc[w]
         /\ v \in Vpcs => rules'[r].assoc[v] = s
<1>a. rules \in [Live -> Rules] /\ rules[r] \in Rules
  BY DEF TypeInv, TypeOK
<1> DEFINE assoc == [rules[r].assoc EXCEPT ![v] = s]
<1>1. /\ assoc \in [Vpcs -> AssocStatus]
      /\ \A w \in Vpcs \ {v} : assoc[w] = rules[r].assoc[w]
      /\ v \in Vpcs => assoc[v] = s
  BY <1>a DEF Rules
<1>2. rules' = [rules EXCEPT ![r] = [rules[r] EXCEPT !.assoc = assoc]]
  BY DEF Moved
<1> HIDE DEF assoc
<1>3. [rules[r] EXCEPT !.assoc = assoc] \in Rules
      /\ [rules[r] EXCEPT !.assoc = assoc].assoc = assoc
  BY <1>a, <1>1 DEF Rules
<1>4. /\ Live' = Live /\ rules' \in [Live' -> Rules]
      /\ rules'[r].assoc = assoc /\ \A q \in Live \ {r} : rules'[q] = rules[q]
  BY <1>a, <1>2, <1>3 DEF Live
<1> QED BY <1>1, <1>4

\* How a reconcile of the association ends.
LEMMA AErrorType ==
  ASSUME SharedInv, AError
  PROVE  "phase" \in DOMAIN acr' /\ actl' = AIdle /\ acr'.phase = acr.phase
<1>1. CASE acr' = acr
  BY <1>1 DEF SharedInv, Shaped, AError
<1>2. CASE acr' # acr
  <2>1. \/ acr' = [acr EXCEPT !.synced = Conditions("unsynced").synced,
                              !.terminal = Conditions("unsynced").terminal]
        \/ acr' = [acr EXCEPT !.terminal = FALSE]
    BY <1>2 DEF AError, PatchedConditions
  <2> QED BY <2>1 DEF SharedInv, Shaped, AError
<1> QED BY <1>1, <1>2

\* Steps of the association's reconcile that leave the rules alone.
LEMMA AQuietStep ==
  ASSUME SharedInv, UNCHANGED <<cr, queued, ctl, work, rules, used, drift>>,
         faults' \in 0..MaxFaults, edits' \in 0..MaxEdits,
         Shaped', DeletionOnly'
  PROVE  SharedInv'
BY DEF SharedInv, TypeInv, TypeOK, IdDrawn, PayableCreated, Unwanted, Live

LEMMA AEndStep ==
  ASSUME SharedInv, UNCHANGED <<cr, queued, ctl, work, rules, used, drift>>,
         faults' \in 0..MaxFaults, edits' \in 0..MaxEdits,
         "phase" \in DOMAIN acr', actl' = AIdle
  PROVE  SharedInv'
BY AIdleType, AQuietStep DEF Shaped, DeletionOnly

\* The calls to AWS change one association of a rule that exists.
LEMMA ACallStep ==
  ASSUME SharedInv,
         CreateAssociation \/ CreateAssociationLost \/ DeleteTheAssociation
  PROVE  /\ SharedInv'
         /\ \A p \in Places : Removed(p) =>
              acr.phase = "deleting" /\ actl.mode = "delete"
<1>a. TypeOK /\ BoundsAssumption /\ Shaped
  BY BoundsAssumption DEF SharedInv, TypeInv
<1>1. actl.rule \in Live
  BY DEF CreateAssociation, CreateAssociationLost, Associates,
         DeleteTheAssociation, StatusAt, Here
<1>2. PICK s \in {"CREATING", "DELETING"} :
        /\ rules' = Moved(actl.rule, actl.vpc, s)
        /\ s = "DELETING" => DeleteTheAssociation
  BY DEF CreateAssociation, CreateAssociationLost, Associates,
         DeleteTheAssociation, Moved
<1>3. /\ Live' = Live /\ rules' \in [Live' -> Rules]
      /\ \A q \in Live, w \in Vpcs : <<q, w>> # Here =>
           rules'[q].assoc[w] = rules[q].assoc[w]
      /\ actl.vpc \in Vpcs => rules'[actl.rule].assoc[actl.vpc] = s
  <2>1. s \in AssocStatus
    BY DEF AssocStatus
  <2> QED BY <1>1, <1>2, <2>1, PlaceType DEF SharedInv, Here
<1>4. /\ UNCHANGED <<cr, queued, ctl, work, used, edits, drift>>
      /\ faults' \in 0..MaxFaults
  BY <1>a DEF CreateAssociation, CreateAssociationLost, DeleteTheAssociation,
              BoundsAssumption, TypeOK
<1>5. TypeInv' /\ Unwanted'
  BY <1>3, <1>4 DEF SharedInv, TypeInv, TypeOK, IdDrawn, PayableCreated, Unwanted
<1>6. ASSUME NEW p \in Places, Removed(p)
      PROVE  acr.phase = "deleting" /\ actl.mode = "delete"
  <2>1. p[1] \in RuleIds /\ p[2] \in Vpcs /\ p = <<p[1], p[2]>>
    BY DEF Places
  <2>2. p[1] \in Live /\ rules'[p[1]].assoc[p[2]] = "DELETING"
        /\ rules[p[1]].assoc[p[2]] # "DELETING"
    BY <1>3, <1>6 DEF Removed, StatusAt
  <2>3. p = Here
    BY <1>3, <2>1, <2>2
  <2>4. s = "DELETING"
    BY <1>3, <2>1, <2>2, <2>3 DEF Here
  <2>5. actl.pc = "delete"
    BY <1>2, <2>4 DEF DeleteTheAssociation
  <2> QED BY <2>5 DEF SharedInv, DeletionOnly
<1>7. Shaped' /\ DeletionOnly'
  <2>1. CASE CreateAssociation
    BY <1>a, <2>1
       DEF CreateAssociation, Associates, SharedInv, Shaped, DeletionOnly
  <2>2. CASE CreateAssociationLost
    BY <2>2, AErrorType, AIdleType DEF CreateAssociationLost, Shaped, DeletionOnly
  <2>3. CASE DeleteTheAssociation
    BY <1>a, <2>3 DEF DeleteTheAssociation, SharedInv, Shaped, DeletionOnly
  <2> QED BY <2>1, <2>2, <2>3
<1> QED BY <1>5, <1>6, <1>7 DEF SharedInv

\* The other steps of the association's reconcile, and what users do to it.
LEMMA AOtherStep ==
  ASSUME SharedInv,
         \/ EditAssociation \/ DeleteAssociation \/ ApplyRuleAgain \/ VpcSettles
         \/ AStart \/ AResync \/ ResolveReferences \/ FindNoAssociation
         \/ FindAssociation \/ ManageAssociation \/ ACallRefused \/ ACallFails
         \/ PatchAssociationStatus \/ PatchTerminal \/ UnmanageAssociation
         \/ AFinished
  PROVE  SharedInv' /\ rules' = rules
<1>a. /\ TypeOK /\ Shaped /\ DeletionOnly /\ MaxEdits \in Nat /\ MaxFaults \in Nat
      /\ faults \in 0..MaxFaults /\ edits \in 0..MaxEdits
  BY BoundsAssumption DEF SharedInv, TypeInv, TypeOK
<1>1. CASE EditAssociation
  <2>1. PICK s \in AssociationSpecs : acr' = [acr EXCEPT !.spec = s]
    BY <1>1 DEF EditAssociation
  <2>2. Shaped' /\ DeletionOnly'
    BY <1>1, <1>a, <2>1 DEF EditAssociation, Shaped, DeletionOnly
  <2> QED BY <1>1, <1>a, <2>2, AQuietStep DEF EditAssociation
<1>2. CASE DeleteAssociation
  <2>1. Shaped' /\ DeletionOnly'
    BY <1>2, <1>a DEF DeleteAssociation, Shaped, DeletionOnly, AGone
  <2> QED BY <1>2, <1>a, <2>1, AQuietStep DEF DeleteAssociation, ruleVars
<1>3. CASE ApplyRuleAgain
  <2>1. cr' \in Objects /\ edits' \in 0..MaxEdits
    BY <1>3, <1>a DEF ApplyRuleAgain, Objects
  <2>2. UNCHANGED <<ctl, work, rules, used, faults, drift, acr, actl>>
        /\ queued' = TRUE
    BY <1>3 DEF ApplyRuleAgain, avars
  <2> QED
    BY <2>1, <2>2 DEF SharedInv, TypeInv, TypeOK, IdDrawn, PayableCreated,
                      Unwanted, Shaped, DeletionOnly, Live
<1>4. CASE VpcSettles \/ AResync \/ AFinished
  BY <1>4, <1>a, AQuietStep
     DEF VpcSettles, AResync, AFinished, allVars, avars, ruleVars, Shaped,
         DeletionOnly
<1>5. CASE AStart
  <2>1. CASE actl' = AIdle
    BY <1>5, <1>a, <2>1, AEndStep DEF AStart, ruleVars, Shaped
  <2>2. ASSUME actl' # AIdle PROVE Shaped' /\ DeletionOnly'
    <3>1. CASE acr.phase = "live"
      BY <1>5, <1>a, <3>1 DEF AStart, AIdle, Shaped, DeletionOnly
    <3>2. CASE acr.phase = "deleting"
      BY <1>5, <1>a, <3>2 DEF AStart, AIdle, Shaped, DeletionOnly
    <3> QED BY <1>5, <2>2, <3>1, <3>2 DEF AStart
  <2> QED BY <1>5, <1>a, <2>1, <2>2, AQuietStep DEF AStart, ruleVars
<1>6. ASSUME AError, faults' \in 0..MaxFaults,
             UNCHANGED <<cr, queued, ctl, work, rules, used, edits, drift>>
      PROVE  SharedInv' /\ rules' = rules
  BY <1>6, <1>a, AErrorType, AEndStep
<1>7. ASSUME NEW pc \in {"find", "manage", "create", "delete", "patch", "unmanage"},
             actl'.pc = pc, actl'.mode = actl.mode,
             pc = "delete" => actl.mode = "delete", actl.pc # "idle",
             {"pc", "mode"} \subseteq DOMAIN actl',
             "phase" \in DOMAIN acr', acr'.phase = acr.phase, UNCHANGED ruleVars
      PROVE  SharedInv' /\ rules' = rules
  <2>1. Shaped' /\ DeletionOnly'
    BY <1>7, <1>a DEF Shaped, DeletionOnly
  <2> QED BY <1>7, <1>a, <2>1, AQuietStep DEF ruleVars
<1>8. CASE ResolveReferences
  <2>1. CASE AError
    BY <1>6, <1>8, <1>a, <2>1 DEF ResolveReferences, ruleVars
  <2>2. CASE ~AError
    <3>1. PICK r, v : actl' = [actl EXCEPT !.pc = "find", !.rule = r, !.vpc = v]
      BY <1>8, <2>2 DEF ResolveReferences
    <3>2. acr' = acr /\ actl.pc = "resolve" /\ UNCHANGED ruleVars
      BY <1>8, <2>2 DEF ResolveReferences
    <3> QED BY <1>7, <1>a, <3>1, <3>2 DEF Shaped
  <2> QED BY <2>1, <2>2
<1>9. CASE FindNoAssociation
  <2>1. /\ actl'.pc \in {"unmanage", "manage"} /\ actl'.mode = actl.mode
        /\ {"pc", "mode"} \subseteq DOMAIN actl' /\ acr' = acr
        /\ actl.pc = "find" /\ UNCHANGED ruleVars
    BY <1>9, <1>a DEF FindNoAssociation, Shaped
  <2> QED BY <1>7, <1>a, <2>1 DEF Shaped
<1>10. CASE FindAssociation
  <2>1. /\ actl'.pc \in {"patch", "delete"} /\ actl'.mode = actl.mode
        /\ actl'.pc = "delete" => actl.mode = "delete"
        /\ {"pc", "mode"} \subseteq DOMAIN actl' /\ acr' = acr
        /\ actl.pc = "find" /\ UNCHANGED ruleVars
    BY <1>10, <1>a DEF FindAssociation, sdkUpdate, Shaped
  <2> QED BY <1>7, <1>a, <2>1 DEF Shaped
<1>11. CASE ManageAssociation
  <2>1. CASE AError
    BY <1>6, <1>11, <1>a, <2>1 DEF ManageAssociation, ruleVars
  <2>2. CASE ~AError
    <3>1. /\ actl' = [actl EXCEPT !.pc = "create"]
          /\ acr' = [acr EXCEPT !.finalizer = TRUE]
          /\ actl.pc = "manage" /\ UNCHANGED ruleVars
      BY <1>11, <2>2 DEF ManageAssociation
    <3> QED BY <1>7, <1>a, <3>1 DEF Shaped
  <2> QED BY <2>1, <2>2
<1>12. CASE ACallRefused \/ ACallFails
  BY <1>6, <1>12, <1>a DEF ACallRefused, ACallFails, ruleVars
<1>13. ASSUME actl' = AIdle, UNCHANGED ruleVars, "phase" \in DOMAIN acr'
       PROVE  SharedInv' /\ rules' = rules
  BY <1>13, <1>a, AEndStep DEF ruleVars
<1>14. CASE PatchAssociationStatus
  <2>1. "phase" \in DOMAIN acr'
    BY <1>14, <1>a DEF PatchAssociationStatus, Shaped
  <2> QED BY <1>13, <1>14, <2>1 DEF PatchAssociationStatus
<1>15. CASE PatchTerminal
  <2>1. "phase" \in DOMAIN acr'
    BY <1>15, <1>a DEF PatchTerminal, PatchedConditions, Shaped
  <2> QED BY <1>13, <1>15, <2>1 DEF PatchTerminal
<1>16. CASE UnmanageAssociation
  BY <1>13, <1>16 DEF UnmanageAssociation, AGone
<1> QED
  BY <1>1, <1>2, <1>3, <1>4, <1>5, <1>8, <1>9, <1>10, <1>11, <1>12, <1>14,
     <1>15, <1>16

\* A step of the rule's controller, or a restart of both.
LEMMA RuleSideStep ==
  ASSUME SharedInv, [Next]_vars,
         UNCHANGED <<acr, actl>> \/ (acr' = acr /\ actl' = AIdle)
  PROVE  SharedInv'
<1>1. TypeInv' /\ Unwanted'
  BY NextType, UnwantedStep DEF SharedInv
<1>2. Shaped' /\ DeletionOnly'
  BY AIdleType DEF SharedInv, Shaped, DeletionOnly
<1> QED BY <1>1, <1>2 DEF SharedInv
-----------------------------------------------------------------------------
LEMMA InitShared == AInit => SharedInv
<1> SUFFICES ASSUME AInit PROVE SharedInv
  OBVIOUS
<1>1. TypeInv /\ Unwanted
  BY InitType, IdleType DEF AInit, Init, Unwanted
<1>2. Shaped /\ DeletionOnly
  BY AIdleType DEF AInit, Shaped, DeletionOnly
<1> QED BY <1>1, <1>2 DEF SharedInv

\* Either a step is the other controller's, or one of this module.
LEMMA StepSides ==
  ASSUME SharedInv, [ANext]_allVars
  PROVE  \/ /\ [Next]_vars
            /\ UNCHANGED <<acr, actl>> \/ (acr' = acr /\ actl' = AIdle)
         \/ CreateAssociation \/ CreateAssociationLost \/ DeleteTheAssociation
         \/ SharedInv' /\ rules' = rules
<1>1. CASE UNCHANGED allVars
  BY <1>1 DEF allVars, avars, ruleVars, vars
<1>2. CASE \/ RuleStep(User) \/ RuleStep(Aws) \/ RuleStep(Controller)
           \/ RuleStep(Resync) \/ RuleStep(\E r \in Live : RuleDrifts(r))
  BY <1>2 DEF RuleStep, Next
<1>3. CASE RestartBoth
  BY <1>3 DEF RestartBoth, Next
<1> QED
  BY <1>1, <1>2, <1>3, AOtherStep DEF ANext, AController

LEMMA NextShared == SharedInv /\ [ANext]_allVars => SharedInv'
BY StepSides, RuleSideStep, ACallStep

\* For any specs, edits, restarts and faults of either side, an association is
\* taken away only by a rule's reconcile that does not want it or deletes the
\* rule, or for an association object that is being deleted: an update of the
\* latter takes none away (the terminal error of sdkUpdate, toDelete, sdkDelete).
THEOREM OnlyRemovedByRight == ASpec => RemovedByRight
<1> DEFINE Right ==
      \A p \in Places : Removed(p) =>
        \/ /\ ctl.pc = "work" /\ ctl.id = p[1]
           /\ ctl.mode = "delete" \/ p[2] \notin ctl.desired.vpcs
        \/ acr.phase = "deleting" /\ actl.mode = "delete"
<1>1. SharedInv /\ [ANext]_allVars => [Right]_allVars
  <2> SUFFICES ASSUME SharedInv, [ANext]_allVars, NEW p \in Places, Removed(p)
               PROVE  \/ /\ ctl.pc = "work" /\ ctl.id = p[1]
                         /\ ctl.mode = "delete" \/ p[2] \notin ctl.desired.vpcs
                      \/ acr.phase = "deleting" /\ actl.mode = "delete"
    OBVIOUS
  <2>1. CASE [Next]_vars
    BY <2>1, RuleRemoval
  <2>2. CASE CreateAssociation \/ CreateAssociationLost \/ DeleteTheAssociation
    BY <2>2, ACallStep
  <2>3. ASSUME rules' = rules PROVE FALSE
    BY <2>3 DEF Removed, StatusAt, Live
  <2> QED BY <2>1, <2>2, <2>3, StepSides
<1> QED BY InitShared, NextShared, <1>1, PTL DEF ASpec, RemovedByRight
-----------------------------------------------------------------------------
(* What the worker knows, and what the object may say *)

\* No association without an id, no id twice.
Identified ==
  /\ assocId \in [RuleIds -> [Vpcs -> AssocIds \cup {NoId}]]
  /\ assocName \in [RuleIds -> [Vpcs -> AssociationNames \cup {NoName}]]
  /\ \A p \in Places :
       /\ IdAt(p) = NoId <=> StatusAt(p) = "NONE"
       /\ \A q \in Places \ {p} : IdAt(p) = IdAt(q) => IdAt(p) = NoId

AssociationTypes ==
  /\ acr \in AssociationObjects /\ actl \in AssociationReconciles
  /\ aqueued \in QueueStates /\ vpcReady \in BOOLEAN

\* The association with this id.
HasId(p, i) == i # NoId /\ IdAt(p) = i

AsksFor(s, r, v) ==
  /\ s.ruleId \in {NoId, r} /\ s.vpcId \in {NoVpc, v}
  /\ s.vpcRef => v = ReferencedVpc

\* Where the worker is and what that says of its record and of the object.
Course ==
  /\ actl.pc # "idle" => aqueued # "later"
  /\ actl.pc \notin {"idle", "patch"} => actl.id = acr.id /\ actl.end = "unsynced"
  /\ actl.pc \in {"resolve", "manage", "create", "patch"} => actl.mode = "sync"
  /\ actl.pc \in {"find", "manage", "create", "patch"} /\ actl.mode = "sync" =>
       /\ actl.rule \in RuleIds /\ actl.vpc \in Vpcs
       /\ AsksFor(actl.spec, actl.rule, actl.vpc)
  /\ actl.pc = "create" => AExists /\ acr.finalizer
  /\ actl.pc = "delete" => actl.rule \in RuleIds /\ actl.vpc \in Vpcs
  /\ actl.pc # "idle" /\ aqueued = "never" /\ acr.phase = "live" =>
       actl.spec = acr.spec

\* What it has found out of the association, which is still so.
Found ==
  \A p \in Places : HasId(p, actl.id) =>
    /\ actl.pc = "delete" => p = Here
    /\ actl.pc = "unmanage" => StatusAt(p) = "DELETING"
    /\ actl.pc = "patch" /\ actl.end = "synced" =>
         /\ p = Here /\ NameAt(p) = actl.spec.name
         /\ StatusAt(p) \in {"COMPLETE", "DELETING"}

\* SyncedAssociationIsHonest, of whichever place has the id, but for the rule
\* that a reference leads to.
HonestObject ==
  acr.phase = "live" /\ acr.synced /\ ~acr.terminal /\ aqueued = "later"
  /\ actl.pc = "idle"
  => \A p \in Places : HasId(p, acr.id) =>
       /\ AsksFor(acr.spec, p[1], p[2]) /\ NameAt(p) = acr.spec.name
       /\ StatusAt(p) \in {"COMPLETE", "DELETING"}

AssociationInv ==
  /\ SharedInv /\ Identified /\ AssociationTypes
  /\ Course /\ Found /\ KnownAssociationIsGuarded /\ HonestObject
-----------------------------------------------------------------------------
(* How associations and their ids change *)

\* What may become of an association in one step.
Allowed(from, to) ==
  \/ to = from
  \/ from = "NONE" /\ to = "CREATING"
  \/ from = "CREATING" /\ to = "COMPLETE"
  \/ from \in {"CREATING", "COMPLETE"} /\ to = "DELETING"
  \/ from = "DELETING" /\ to = "NONE"

Born(p) == StatusAt(p) = "NONE" /\ StatusAt(p)' # "NONE"

\* A step makes one association at most.
StatusMoves ==
  /\ \A p \in Places : Allowed(StatusAt(p), StatusAt(p)')
  /\ \A p, q \in Places : Born(p) /\ Born(q) => p = q

LEMMA SameStatus ==
  ASSUME \A p \in Places : StatusAt(p)' = StatusAt(p)
  PROVE  StatusMoves
BY DEF StatusMoves, Allowed, Born

LEMMA OneMove ==
  ASSUME TypeInv, NEW r \in Live, NEW v \in Vpcs, NEW s \in AssocStatus,
         rules' = Moved(r, v, s), Allowed(rules[r].assoc[v], s)
  PROVE  StatusMoves
<1>1. /\ Live' = Live
      /\ \A q \in Live, w \in Vpcs :
           <<q, w>> # <<r, v>> => rules'[q].assoc[w] = rules[q].assoc[w]
      /\ rules'[r].assoc[v] = s
  BY PlaceType
<1>2. ASSUME NEW p \in Places, p # <<r, v>>
      PROVE  StatusAt(p)' = StatusAt(p)
  <2>1. p[2] \in Vpcs /\ <<p[1], p[2]>> # <<r, v>>
    BY <1>2 DEF Places
  <2> QED BY <1>1, <2>1 DEF StatusAt
<1>3. /\ <<r, v>>[1] \in Live /\ StatusAt(<<r, v>>) = rules[r].assoc[v]
      /\ StatusAt(<<r, v>>)' = s
  BY <1>1 DEF StatusAt
<1>4. \A p \in Places : Allowed(StatusAt(p), StatusAt(p)')
  <2> SUFFICES ASSUME NEW p \in Places PROVE Allowed(StatusAt(p), StatusAt(p)')
    OBVIOUS
  <2>1. CASE p = <<r, v>>
    BY <1>3, <2>1
  <2>2. CASE p # <<r, v>>
    BY <1>2, <2>2 DEF Allowed
  <2> QED BY <2>1, <2>2
<1>5. \A p, q \in Places : Born(p) /\ Born(q) => p = q
  BY <1>2 DEF Born
<1> QED BY <1>4, <1>5 DEF StatusMoves

\* The rule's controller, AWS and those who delete rules: a rule is made without
\* associations, and deleted without.
LEMMA RuleMoves ==
  ASSUME TypeInv, [Next]_vars
  PROVE  StatusMoves
<1>a. TypeOK /\ rules \in [Live -> Rules] /\ ctl \in Reconciles
  BY DEF TypeInv, TypeOK
<1>1. ASSUME rules' = rules PROVE StatusMoves
  BY <1>1, SameStatus DEF StatusAt, Live
<1>2. CASE TagResource \/ UntagResource \/ UpdateResolverRule
  <2>1. Live' = Live /\ \A r \in Live : rules'[r].assoc = rules[r].assoc
    BY <1>a, <1>2 DEF TagResource, UntagResource, UpdateResolverRule, Live, Rules
  <2> QED BY <2>1, SameStatus DEF StatusAt
<1>3. CASE CreateResolverRule \/ CreateRetried
  <2>1. rules' = With(ctl.id, ctl.desired)
    BY <1>3 DEF CreateResolverRule, CreateRetried
  <2>2. /\ Live \subseteq Live' /\ \A r \in Live : rules'[r] = rules[r]
        /\ \A r \in Live' \ Live : rules'[r] = NewRule(ctl.desired)
    BY <2>1 DEF With, Live
  <2>3. ASSUME NEW p \in Places PROVE StatusAt(p)' = StatusAt(p)
    <3>1. p[2] \in Vpcs
      BY DEF Places
    <3>2. CASE p[1] \in Live
      BY <2>2, <3>2 DEF StatusAt
    <3>3. CASE p[1] \in Live' \ Live
      BY <2>2, <3>1, <3>3 DEF StatusAt, NewRule
    <3>4. CASE p[1] \notin Live'
      BY <2>2, <3>4 DEF StatusAt
    <3> QED BY <3>2, <3>3, <3>4
  <2> QED BY <2>3, SameStatus
<1>4. ASSUME NEW r \in Live, rules' = Without(r), Attached(r) = {}
      PROVE  StatusMoves
  <2>1. Live' = Live \ {r} /\ \A s \in Live' : rules'[s] = rules[s]
    BY <1>4 DEF Without, Live
  <2>2. \A v \in Vpcs : rules[r].assoc[v] = "NONE"
    BY <1>4 DEF Attached
  <2>3. ASSUME NEW p \in Places PROVE StatusAt(p)' = StatusAt(p)
    <3>1. p[2] \in Vpcs
      BY DEF Places
    <3> QED BY <2>1, <2>2, <3>1 DEF StatusAt
  <2> QED BY <2>3, SameStatus
<1>5. ASSUME NEW r \in Live, NEW v \in Vpcs, AssociationSettles(r, v)
      PROVE  StatusMoves
  <2>1. PICK s \in AssocStatus :
          /\ rules' = Moved(r, v, s)
          /\ Allowed(rules[r].assoc[v], s)
    <3>1. CASE rules[r].assoc[v] = "CREATING"
      <4>1. rules' = Moved(r, v, "COMPLETE")
        BY <1>5, <3>1 DEF AssociationSettles, Moved
      <4> QED BY <3>1, <4>1 DEF Allowed, AssocStatus
    <3>2. CASE rules[r].assoc[v] = "DELETING"
      <4>1. rules' = Moved(r, v, "NONE")
        BY <1>5, <3>2 DEF AssociationSettles, Moved
      <4> QED BY <3>2, <4>1 DEF Allowed, AssocStatus
    <3> QED BY <1>5, <3>1, <3>2 DEF AssociationSettles
  <2> QED BY <2>1, OneMove
<1>6. ASSUME NEW v \in Vpcs,
             AssociateResolverRule(v) \/ DisassociateResolverRule(v)
      PROVE  StatusMoves
  <2>1. ctl.id \in Live
    BY <1>6 DEF AssociateResolverRule, DisassociateResolverRule
  <2>2. PICK s \in AssocStatus :
          /\ rules' = Moved(ctl.id, v, s)
          /\ Allowed(rules[ctl.id].assoc[v], s)
    BY <1>6 DEF AssociateResolverRule, DisassociateResolverRule, Allowed,
                AssocStatus, Moved
  <2> QED BY <2>1, <2>2, OneMove
<1>7. CASE DeleteResolverRule
  BY <1>4, <1>7 DEF DeleteResolverRule
<1>8. ASSUME NEW r \in Live, RuleDrifts(r) PROVE StatusMoves
  BY <1>4, <1>8 DEF RuleDrifts
<1> QED
  BY <1>1, <1>2, <1>3, <1>5, <1>6, <1>7, <1>8
     DEF Next, vars, User, Aws, Controller, Associations, EditSpec,
         DeleteResource, StartReconcile, Resync, FindNothing, FindRule,
         FindPanics, MarkManaged, CreateRefused, PrepareCreate, CallRefused,
         CallFails, PatchStatus, MarkUnmanaged, Restart, Finished

\* The calls of the association's own controller.
LEMMA CallMoves ==
  ASSUME TypeInv, actl.vpc \in Vpcs,
         Associates \/ DeleteTheAssociation
  PROVE  StatusMoves
<1>1. actl.rule \in Live /\ StatusAt(Here) = rules[actl.rule].assoc[actl.vpc]
  BY DEF Associates, DeleteTheAssociation, StatusAt, Here
<1>2. PICK s \in AssocStatus :
        /\ rules' = Moved(actl.rule, actl.vpc, s)
        /\ Allowed(StatusAt(Here), s)
  BY DEF Associates, DeleteTheAssociation, Allowed, AssocStatus, Moved
<1> QED BY <1>1, <1>2, OneMove

\* What is known of an association stays so: another one never gets its id, its
\* name stays, and removals are not undone.
KeepsKnown ==
  \A p \in Places, i \in {acr.id, actl.id} : i # NoId /\ IdAt(p)' = i =>
    /\ IdAt(p) = i /\ NameAt(p)' = NameAt(p)
    /\ StatusAt(p) = "DELETING" => StatusAt(p)' = "DELETING"
    /\ StatusAt(p) \in {"COMPLETE", "DELETING"} =>
         StatusAt(p)' \in {"COMPLETE", "DELETING"}

LEMMA FreshIdIsFresh ==
  ASSUME AssociationTypes, Identified, NEW p \in Places, IdAt(p) = NoId
  PROVE  /\ FreshId \in AssocIds /\ FreshId # acr.id /\ FreshId # actl.id
         /\ \A q \in Places : IdAt(q) # FreshId
<1>1. acr.id \in AssocIds \cup {NoId} /\ actl.id \in AssocIds \cup {NoId}
  BY DEF AssociationTypes, AssociationObjects, AssociationReconciles
<1>2. assocId \in [RuleIds -> [Vpcs -> AssocIds \cup {NoId}]]
      /\ assocId[p[1]][p[2]] = NoId
  BY DEF Identified, IdAt
<1>3. \E k \in AssocIds \ {acr.id, actl.id} :
        \A q \in Places : assocId[q[1]][q[2]] # k
  <2>1. \E q \in Places : assocId[q[1]][q[2]] = NoId
    BY <1>2
  <2>2. \A i, j \in AssocIds \cup {NoId} :
          (\E q \in Places : assocId[q[1]][q[2]] = NoId) =>
            \E k \in AssocIds \ {i, j} :
              \A q \in Places : assocId[q[1]][q[2]] # k
    BY <1>2, FreshIdAssumption
  <2>3. \A i, j \in AssocIds \cup {NoId} :
          \E k \in AssocIds \ {i, j} :
            \A q \in Places : assocId[q[1]][q[2]] # k
    BY <2>1, <2>2
  <2> QED BY <1>1, <2>3
<1>4. \E k \in AssocIds : k \notin LiveAssociations \cup {acr.id, actl.id}
  BY <1>3 DEF LiveAssociations, IdAt
<1>5. FreshId \in AssocIds /\ FreshId \notin LiveAssociations \cup {acr.id, actl.id}
  BY <1>4 DEF FreshId
<1>6. FreshId # NoId
  BY <1>5, AssociationAssumption
<1> QED BY <1>5, <1>6 DEF LiveAssociations

LEMMA IdsStep ==
  ASSUME AssociationTypes, Identified, StatusMoves,
         NEW name \in AssociationNames \cup {NoName}, TrackIds(name)
  PROVE  Identified' /\ KeepsKnown
<1>a. /\ assocId' = [r \in RuleIds |-> [v \in Vpcs |-> assocId'[r][v]]]
      /\ assocName' = [r \in RuleIds |-> [v \in Vpcs |-> assocName'[r][v]]]
  BY Zenon DEF TrackIds
<1>b. \A r \in RuleIds, v \in Vpcs :
        /\ assocName'[r][v] \in {NoName, assocName[r][v], name}
        /\ assocId[r][v] # NoId /\ assocId'[r][v] # NoId =>
             assocName'[r][v] = assocName[r][v]
  BY DEF TrackIds
<1>1. ASSUME NEW p \in Places
      PROVE  /\ IdAt(p)' \in AssocIds \cup {NoId}
             /\ IdAt(p)' = IF StatusAt(p)' = "NONE" THEN NoId
                           ELSE IF IdAt(p) # NoId THEN IdAt(p) ELSE FreshId
             /\ IdAt(p) \in AssocIds \cup {NoId}
             /\ IdAt(p) = NoId <=> StatusAt(p) = "NONE"
  <2>1. p[1] \in RuleIds /\ p[2] \in Vpcs
    BY DEF Places
  <2>2. IdAt(p)' = IF StatusAt(p)' = "NONE" THEN NoId
                   ELSE IF IdAt(p) # NoId THEN IdAt(p) ELSE FreshId
    BY <2>1 DEF TrackIds, IdAt, StatusAt, Live
  <2>3. IdAt(p) \in AssocIds \cup {NoId}
    BY <2>1 DEF Identified, IdAt
  <2>4. IdAt(p) = NoId => FreshId \in AssocIds
    BY FreshIdIsFresh
  <2> QED BY <2>2, <2>3, <2>4 DEF Identified
<1>2. assocId' \in [RuleIds -> [Vpcs -> AssocIds \cup {NoId}]]
  <2>1. ASSUME NEW r \in RuleIds, NEW v \in Vpcs
        PROVE  assocId'[r][v] \in AssocIds \cup {NoId}
    <3>1. <<r, v>> \in Places
      BY DEF Places
    <3>2. IdAt(<<r, v>>)' \in AssocIds \cup {NoId}
      BY <1>1, <3>1
    <3> QED BY <3>2 DEF IdAt
  <2> QED BY <1>a, <2>1
<1>3. ASSUME NEW p \in Places
      PROVE  /\ IdAt(p)' = NoId <=> StatusAt(p)' = "NONE"
             /\ IdAt(p)' # NoId /\ IdAt(p)' # IdAt(p) =>
                  /\ Born(p) /\ IdAt(p)' = FreshId /\ StatusAt(p)' = "CREATING"
                  /\ IdAt(p) = NoId
  <2>1. IdAt(p) = NoId => FreshId \in AssocIds
    BY FreshIdIsFresh
  <2>2. Allowed(StatusAt(p), StatusAt(p)')
    BY DEF StatusMoves
  <2> QED BY <1>1, <2>1, <2>2, AssociationAssumption DEF Born, Allowed
<1>4. ASSUME NEW p \in Places, NEW q \in Places \ {p}, IdAt(p)' = IdAt(q)',
             IdAt(p)' # NoId
      PROVE  FALSE
  <2>1. IdAt(p) = IdAt(q) => IdAt(p) = NoId
    BY DEF Identified
  <2>2. ~(Born(p) /\ Born(q))
    BY DEF StatusMoves
  <2>3. IdAt(p) = NoId => IdAt(q) # FreshId
    BY FreshIdIsFresh
  <2>4. IdAt(q) = NoId => IdAt(p) # FreshId
    BY FreshIdIsFresh
  <2> QED BY <1>3, <1>4, <2>1, <2>2, <2>3, <2>4
<1>n. assocName' \in [RuleIds -> [Vpcs -> AssociationNames \cup {NoName}]]
  <2>1. \A r \in RuleIds, v \in Vpcs :
          assocName'[r][v] \in AssociationNames \cup {NoName}
    BY <1>b DEF Identified
  <2> QED BY <1>a, <2>1
<1>5. Identified'
  BY <1>2, <1>n, <1>3, <1>4 DEF Identified, Places
<1>6. ASSUME NEW p \in Places, NEW i \in {acr.id, actl.id}, i # NoId,
             IdAt(p)' = i
      PROVE  /\ IdAt(p) = i /\ NameAt(p)' = NameAt(p)
             /\ StatusAt(p) = "DELETING" => StatusAt(p)' = "DELETING"
             /\ StatusAt(p) \in {"COMPLETE", "DELETING"} =>
                  StatusAt(p)' \in {"COMPLETE", "DELETING"}
  <2>1. IdAt(p) = NoId => FreshId # i
    BY <1>6, FreshIdIsFresh
  <2>2. Allowed(StatusAt(p), StatusAt(p)')
    BY DEF StatusMoves
  <2>3. IdAt(p) = i
    BY <1>3, <1>6, <2>1
  <2>4. NameAt(p)' = NameAt(p)
    BY <1>b, <1>6, <2>3 DEF Places, IdAt, NameAt
  <2> QED BY <1>3, <1>6, <2>2, <2>3, <2>4 DEF Allowed
<1> QED BY <1>5, <1>6 DEF KeepsKnown
-----------------------------------------------------------------------------
(* The association's reconcile, step by step *)

Told == Course /\ Found /\ KnownAssociationIsGuarded /\ HonestObject

LEMMA RecordTypes ==
  ASSUME AssociationTypes
  PROVE  /\ AIdle \in AssociationReconciles /\ AIdle.pc = "idle"
         /\ AIdle.mode = "sync" /\ AIdle.id = NoId /\ AIdle.end = "unsynced"
         /\ AGone \in AssociationObjects /\ AGone.phase = "gone"
         /\ AGone.finalizer = FALSE /\ AGone.id = acr.id
<1>1. AnyAssociationSpec \in AssociationSpecs /\ acr.id \in AssocIds \cup {NoId}
  BY DEF AssociationTypes, AssociationObjects, AnyAssociationSpec
<1>2. AIdle \in AssociationReconciles
  BY <1>1 DEF AIdle, AssociationReconciles
<1>3. AGone \in AssociationObjects
  BY <1>1 DEF AGone, AssociationObjects
<1> QED BY <1>2, <1>3 DEF AIdle, AGone

LEMMA StillIsKept ==
  ASSUME Identified, UNCHANGED <<rules, assocId, assocName>>
  PROVE  /\ Identified' /\ KeepsKnown
         /\ \A p \in Places : StatusAt(p)' = StatusAt(p) /\ IdAt(p)' = IdAt(p)
                           /\ NameAt(p)' = NameAt(p)
                              /\ NameAt(p)' = NameAt(p)
<1>1. \A p \in Places : StatusAt(p)' = StatusAt(p) /\ IdAt(p)' = IdAt(p)
                        /\ NameAt(p)' = NameAt(p)
  BY DEF StatusAt, IdAt, NameAt, Live
<1> QED BY <1>1 DEF Identified, KeepsKnown

\* The other controller leaves all that is known as it is.
LEMMA OthersTell ==
  ASSUME AssociationInv, KeepsKnown, UNCHANGED <<acr, aqueued, actl>>
  PROVE  Told'
<1>1. Course'
  BY DEF AssociationInv, Course, AExists
<1>2. Found'
  BY DEF AssociationInv, Found, HasId, KeepsKnown, Here
<1>3. KnownAssociationIsGuarded'
  BY DEF AssociationInv, KnownAssociationIsGuarded, KeepsKnown, AExists
<1>4. HonestObject'
  BY DEF AssociationInv, HonestObject, HasId, KeepsKnown
<1> QED BY <1>1, <1>2, <1>3, <1>4 DEF Told

\* A reconcile that ends without a word of success.
LEMMA EndTells ==
  ASSUME AssociationInv, KeepsKnown, actl' = AIdle, aqueued' # "later",
         acr'.id = acr.id, acr'.phase = acr.phase,
         acr'.finalizer = acr.finalizer
  PROVE  Told'
<1>a. AIdle.pc = "idle" /\ AIdle.id = NoId
  BY DEF AIdle
<1>1. Course' /\ Found'
  BY <1>a DEF Course, Found, HasId
<1>2. KnownAssociationIsGuarded'
  BY <1>a DEF AssociationInv, KnownAssociationIsGuarded, KeepsKnown, AExists
<1>3. HonestObject'
  BY DEF HonestObject
<1> QED BY <1>1, <1>2, <1>3 DEF Told

LEMMA AErrorTells ==
  ASSUME AssociationInv, KeepsKnown, AError
  PROVE  /\ Told' /\ acr' \in AssociationObjects
         /\ actl' \in AssociationReconciles /\ aqueued' \in QueueStates
<1>a. AssociationTypes /\ acr \in AssociationObjects
  BY DEF AssociationInv, AssociationTypes
<1>1. /\ acr' \in AssociationObjects /\ acr'.id = acr.id
      /\ acr'.phase = acr.phase /\ acr'.finalizer = acr.finalizer
  <2>1. CASE acr' = acr
    BY <1>a, <2>1
  <2>2. CASE acr' # acr
    <3>1. \/ acr' = [acr EXCEPT !.synced = Conditions("unsynced").synced,
                                !.terminal = Conditions("unsynced").terminal]
          \/ acr' = [acr EXCEPT !.terminal = FALSE]
      BY <2>2 DEF AError, PatchedConditions
    <3>2. /\ Conditions("unsynced").synced \in BOOLEAN
          /\ Conditions("unsynced").terminal \in BOOLEAN
      BY DEF Conditions
    <3> QED BY <1>a, <3>1, <3>2 DEF AssociationObjects
  <2> QED BY <2>1, <2>2
<1>2. actl' = AIdle /\ aqueued' = "now"
  BY DEF AError
<1> QED BY <1>a, <1>1, <1>2, RecordTypes, EndTells DEF QueueStates

\* A reconcile that goes on without a word of success, about the association
\* that it or the object knows.
LEMMA GoingOnTells ==
  ASSUME AssociationInv, KeepsKnown, actl'.pc # "idle",
         actl'.id \in {acr.id, actl.id}, acr'.id = acr.id,
         AExists /\ acr.finalizer => AExists' /\ acr'.finalizer
  PROVE  KnownAssociationIsGuarded' /\ HonestObject'
<1>1. HonestObject'
  BY DEF HonestObject
<1>2. KnownAssociationIsGuarded'
  BY DEF AssociationInv, KnownAssociationIsGuarded, KeepsKnown
<1> QED BY <1>1, <1>2

\* What the steps of a reconcile need of the types.
LEMMA AssociationFacts ==
  ASSUME AssociationInv
  PROVE  /\ AssociationTypes /\ Identified /\ Course
         /\ acr \in AssociationObjects /\ actl \in AssociationReconciles
         /\ acr.phase \in {"live", "deleting", "gone"} /\ acr.finalizer \in BOOLEAN
         /\ acr.spec \in AssociationSpecs /\ actl.spec \in AssociationSpecs
         /\ acr.id \in AssocIds \cup {NoId} /\ actl.id \in AssocIds \cup {NoId}
         /\ aqueued \in QueueStates /\ vpcReady \in BOOLEAN
         /\ NoId \notin AssocIds /\ NoId \notin RuleIds
         /\ AssociationSpecs \subseteq FullAssociationSpecs
BY AssociationAssumption, SetsAssumption
   DEF AssociationInv, AssociationTypes, AssociationObjects,
       AssociationReconciles

LEMMA UsersTell ==
  ASSUME AssociationInv, EditAssociation \/ DeleteAssociation
  PROVE  Identified' /\ AssociationTypes' /\ Told'
<1>a. /\ AssociationTypes /\ acr \in AssociationObjects /\ acr.phase = "live"
      /\ UNCHANGED <<rules, assocId, assocName, actl, vpcReady>> /\ aqueued' = "now"
  BY AssociationFacts DEF EditAssociation, DeleteAssociation, ruleVars
<1>b. /\ Identified' /\ KeepsKnown
      /\ \A p \in Places : StatusAt(p)' = StatusAt(p) /\ IdAt(p)' = IdAt(p)
                           /\ NameAt(p)' = NameAt(p)
  BY <1>a, AssociationFacts, StillIsKept
<1>1. /\ acr' \in AssociationObjects /\ acr'.id = acr.id
      /\ AExists /\ acr.finalizer => AExists' /\ acr'.finalizer
  <2>1. CASE EditAssociation
    <3>1. PICK s \in AssociationSpecs : acr' = [acr EXCEPT !.spec = s]
      BY <2>1 DEF EditAssociation
    <3> QED BY <1>a, <3>1 DEF AssociationObjects, AExists
  <2>2. CASE DeleteAssociation /\ acr.finalizer
    <3>1. acr' = [acr EXCEPT !.phase = "deleting"]
      BY <2>2 DEF DeleteAssociation
    <3> QED BY <1>a, <3>1 DEF AssociationObjects, AExists
  <2>3. CASE DeleteAssociation /\ ~acr.finalizer
    <3>1. acr' = AGone
      BY <2>3 DEF DeleteAssociation
    <3> QED BY <1>a, <2>3, <3>1, RecordTypes
  <2> QED BY <2>1, <2>2, <2>3
<1>2. AssociationTypes'
  BY <1>a, <1>1 DEF AssociationTypes, QueueStates
<1>3. Course'
  BY <1>a, <1>1 DEF AssociationInv, Course
<1>4. Found'
  BY <1>a, <1>b DEF AssociationInv, Found, HasId, Here
<1>5. KnownAssociationIsGuarded'
  BY <1>a, <1>b, <1>1 DEF AssociationInv, KnownAssociationIsGuarded
<1>6. HonestObject'
  BY <1>a DEF HonestObject
<1> QED BY <1>b, <1>2, <1>3, <1>4, <1>5, <1>6 DEF Told

LEMMA StartTells ==
  ASSUME AssociationInv, AStart \/ AResync
  PROVE  Identified' /\ AssociationTypes' /\ Told'
<1>a. /\ AssociationTypes /\ actl.pc = "idle" /\ acr' = acr
      /\ UNCHANGED <<rules, assocId, assocName, vpcReady>>
  BY AssociationFacts DEF AStart, AResync, ruleVars
<1>b. Identified' /\ KeepsKnown
  BY <1>a, AssociationFacts, StillIsKept
<1>1. CASE AResync
  <2>1. actl' = actl /\ aqueued' = "now"
    BY <1>1 DEF AResync
  <2>2. AssociationTypes' /\ Course' /\ HonestObject'
    BY <1>a, <2>1 DEF AssociationInv, AssociationTypes, Course, HonestObject,
                      QueueStates, AExists
  <2>3. Found'
    BY <1>a, <1>b, <2>1 DEF Found
  <2>4. KnownAssociationIsGuarded'
    BY <1>a, <1>b, <2>1
       DEF AssociationInv, KnownAssociationIsGuarded, KeepsKnown, AExists
  <2> QED BY <1>b, <2>2, <2>3, <2>4 DEF Told
<1>2. CASE AStart /\ actl' = AIdle
  <2>1. aqueued' = "never"
    BY <1>2 DEF AStart
  <2> QED
    BY <1>a, <1>b, <1>2, <2>1, RecordTypes, EndTells
       DEF AssociationTypes, QueueStates
<1>3. CASE AStart /\ actl' # AIdle
  <2>1. /\ actl' \in AssociationReconciles /\ actl'.id = acr.id
        /\ actl'.spec = acr.spec /\ actl'.end = "unsynced"
        /\ \/ actl'.pc = "resolve" /\ actl'.mode = "sync"
           \/ actl'.pc = "find" /\ actl'.mode = "delete"
    <3>1. CASE acr.phase = "live"
      <4>1. actl' = [AIdle EXCEPT !.pc = "resolve", !.spec = acr.spec,
                                  !.id = acr.id]
        BY <1>3, <3>1 DEF AStart
      <4> QED BY <1>a, <4>1, RecordTypes, AssociationFacts
                 DEF AssociationReconciles
    <3>2. CASE acr.phase = "deleting"
      <4>1. actl' = [AIdle EXCEPT !.pc = "find", !.mode = "delete",
                                  !.spec = acr.spec, !.id = acr.id]
        BY <1>3, <3>2 DEF AStart
      <4> QED BY <1>a, <4>1, RecordTypes, AssociationFacts
                 DEF AssociationReconciles
    <3> QED BY <1>3, <3>1, <3>2 DEF AStart
  <2>2. aqueued' = "never"
    BY <1>3 DEF AStart
  <2>3. AssociationTypes' /\ Course' /\ Found'
    BY <1>a, <2>1, <2>2 DEF AssociationTypes, QueueStates, Course, Found
  <2>4. KnownAssociationIsGuarded' /\ HonestObject'
    BY <1>a, <1>b, <2>1, GoingOnTells DEF AExists
  <2> QED BY <1>b, <2>3, <2>4 DEF Told
<1> QED BY <1>1, <1>2, <1>3

\* A rule and a VPC that resolve are known, and are what the spec asks for.
LEMMA ResolveTells ==
  ASSUME AssociationInv, ResolveReferences
  PROVE  Identified' /\ AssociationTypes' /\ Told'
<1>a. /\ actl.pc = "resolve" /\ UNCHANGED <<rules, assocId, assocName, vpcReady>>
      /\ actl.mode = "sync" /\ actl.id = acr.id /\ actl.end = "unsynced"
      /\ aqueued # "later"
  BY AssociationFacts DEF ResolveReferences, ruleVars, Course
<1>b. Identified' /\ KeepsKnown
  BY <1>a, AssociationFacts, StillIsKept
<1>1. CASE AError
  BY <1>a, <1>b, <1>1, AErrorTells, AssociationFacts DEF AssociationTypes
<1>2. CASE ~AError
  <2>1. Resolvable(actl.spec) /\ UNCHANGED <<acr, aqueued>>
    BY <1>2 DEF ResolveReferences
  <2> DEFINE rule == IF actl.spec.ruleRef THEN cr.id ELSE actl.spec.ruleId
             vpc == IF actl.spec.vpcRef THEN ReferencedVpc ELSE actl.spec.vpcId
  <2>2. actl' = [actl EXCEPT !.pc = "find", !.rule = rule, !.vpc = vpc]
    BY <1>2 DEF ResolveReferences
  <2>3. /\ rule \in RuleIds /\ vpc \in Vpcs /\ AsksFor(actl.spec, rule, vpc)
    <3>1. /\ actl.spec.ruleRef \in BOOLEAN /\ actl.spec.vpcRef \in BOOLEAN
          /\ actl.spec.ruleId \in RuleIds \cup {NoId}
          /\ actl.spec.vpcId \in Vpcs \cup {NoVpc}
      BY AssociationFacts DEF FullAssociationSpecs
    <3>2. cr.id \in RuleIds \cup {NoId} /\ ReferencedVpc \in Vpcs
      BY AssociationAssumption
         DEF AssociationInv, SharedInv, TypeInv, TypeOK, Objects
    <3>3. /\ actl.spec.ruleRef <=> actl.spec.ruleId = NoId
          /\ actl.spec.vpcRef <=> actl.spec.vpcId = NoVpc
          /\ actl.spec.ruleRef => cr.id # NoId
      BY <2>1, <3>1
         DEF Resolvable, validateReferenceFields, ReferencedRuleReady
    <3> QED BY <3>1, <3>2, <3>3 DEF AsksFor
  <2> HIDE DEF rule, vpc
  <2>4. /\ actl' \in AssociationReconciles /\ actl'.pc = "find"
        /\ actl'.mode = "sync" /\ actl'.id = actl.id
        /\ actl'.spec = actl.spec /\ actl'.end = "unsynced"
        /\ actl'.rule = rule /\ actl'.vpc = vpc
    BY <1>a, <2>2, <2>3, AssociationFacts DEF AssociationReconciles
  <2>5. AssociationTypes'
    BY <1>a, <2>1, <2>4, AssociationFacts DEF AssociationTypes
  <2>6. Course'
    BY <1>a, <2>1, <2>3, <2>4, AssociationFacts DEF Course, AExists
  <2>7. Found'
    BY <2>4 DEF Found
  <2>8. KnownAssociationIsGuarded' /\ HonestObject'
    BY <1>b, <2>1, <2>4, GoingOnTells DEF AExists
  <2> QED BY <1>b, <2>5, <2>6, <2>7, <2>8 DEF Told
<1> QED BY <1>1, <1>2

\* What was found is compared with, or removed, where it was found.
LEMMA FindTells ==
  ASSUME AssociationInv, FindNoAssociation \/ FindAssociation
  PROVE  Identified' /\ AssociationTypes' /\ Told'
<1>a. /\ actl.pc = "find"
      /\ UNCHANGED <<rules, acr, aqueued, assocId, assocName, vpcReady>>
      /\ actl.id = acr.id /\ actl.end = "unsynced" /\ aqueued # "later"
      /\ actl.mode \in {"sync", "delete"}
  BY AssociationFacts DEF FindNoAssociation, FindAssociation, ruleVars, Course,
                          AssociationReconciles
<1>b. /\ Identified' /\ KeepsKnown
      /\ \A p \in Places : StatusAt(p)' = StatusAt(p) /\ IdAt(p)' = IdAt(p)
                           /\ NameAt(p)' = NameAt(p)
  BY <1>a, AssociationFacts, StillIsKept
<1>c. /\ actl.mode = "sync" => /\ actl.rule \in RuleIds /\ actl.vpc \in Vpcs
                               /\ AsksFor(actl.spec, actl.rule, actl.vpc)
      /\ aqueued = "never" /\ acr.phase = "live" => actl.spec = acr.spec
  BY <1>a, AssociationFacts DEF Course
<1>1. CASE FindNoAssociation
  <2>1. /\ actl' \in AssociationReconciles /\ actl'.id = actl.id
        /\ actl'.mode = actl.mode /\ actl'.spec = actl.spec
        /\ actl'.rule = actl.rule /\ actl'.vpc = actl.vpc
        /\ actl'.end = "unsynced"
        /\ \/ actl'.pc = "unmanage" /\ actl.mode = "delete"
           \/ actl'.pc = "manage" /\ actl.mode = "sync"
    BY <1>a, <1>1, AssociationFacts DEF FindNoAssociation, AssociationReconciles
  <2>2. AssociationTypes' /\ Course'
    BY <1>a, <1>c, <2>1, AssociationFacts DEF AssociationTypes, Course, AExists
  <2>3. \A p \in Places : ~HasId(p, actl.id)
    BY <1>1 DEF FindNoAssociation, HasId, LiveAssociations
  <2>4. Found'
    BY <1>b, <2>1, <2>3 DEF Found, HasId
  <2>5. KnownAssociationIsGuarded' /\ HonestObject'
    BY <1>a, <1>b, <2>1, GoingOnTells DEF AExists
  <2> QED BY <1>b, <2>2, <2>4, <2>5 DEF Told
<1>2. CASE FindAssociation
  <2> DEFINE place == PlaceOf(actl.id)
  <2>1. /\ place \in Places /\ IdAt(place) = actl.id /\ actl.id # NoId
        /\ \A p \in Places : HasId(p, actl.id) => p = place
    <3>1. actl.id # NoId /\ \E p \in Places : IdAt(p) = actl.id
      BY <1>2 DEF FindAssociation, LiveAssociations
    <3>2. place \in Places /\ IdAt(place) = actl.id
      BY <3>1 DEF PlaceOf
    <3> QED BY <3>1, <3>2, AssociationFacts DEF Identified, HasId
  <2>2. place[1] \in RuleIds /\ place[2] \in Vpcs /\ place = <<place[1], place[2]>>
    BY <2>1 DEF Places
  <2>3. StatusAt(place) \in AssocStatus
    <3>1. ASSUME place[1] \in Live PROVE rules[place[1]].assoc \in [Vpcs -> AssocStatus]
      BY <3>1 DEF AssociationInv, SharedInv, TypeInv, TypeOK, Rules
    <3> QED BY <2>2, <3>1 DEF StatusAt, AssocStatus
  <2>4. \/ actl.mode = "sync" /\ actl' = sdkUpdate(place)
        \/ /\ actl.mode = "sync" /\ Here = place
           /\ NameAt(place) = actl.spec.name
           /\ actl' = [actl EXCEPT !.pc = "patch",
                !.end = IF AssociationIsSynced(StatusAt(place))
                        THEN "synced" ELSE "unsynced"]
        \/ /\ actl.mode = "delete"
           /\ actl' = [actl EXCEPT !.pc = "delete",
                                   !.rule = place[1], !.vpc = place[2]]
    BY <1>2, <2>2 DEF FindAssociation, AssociationDiffers, Here
  <2> HIDE DEF place
  <2>5. CASE actl.mode = "sync"
    <3>1. PICK end \in {"synced", "unsynced", "terminal"} :
            /\ actl' = [actl EXCEPT !.pc = "patch", !.end = end]
            /\ end = "synced" => /\ Here = place /\ StatusAt(place) = "COMPLETE"
                                 /\ NameAt(place) = actl.spec.name
      BY <2>4, <2>5 DEF sdkUpdate, AssociationIsSynced
    <3>2. /\ actl' \in AssociationReconciles /\ actl'.id = actl.id
          /\ actl'.mode = "sync" /\ actl'.spec = actl.spec
          /\ actl'.rule = actl.rule /\ actl'.vpc = actl.vpc
          /\ actl'.pc = "patch" /\ actl'.end = end
      BY <2>5, <3>1, AssociationFacts DEF AssociationReconciles
    <3>3. AssociationTypes' /\ Course'
      BY <1>a, <1>c, <2>5, <3>2, AssociationFacts
         DEF AssociationTypes, Course, AExists
    <3>4. Found'
      BY <1>b, <2>1, <3>1, <3>2 DEF Found, HasId, Here
    <3>5. KnownAssociationIsGuarded' /\ HonestObject'
      BY <1>a, <1>b, <3>2, GoingOnTells DEF AExists
    <3> QED BY <1>b, <3>3, <3>4, <3>5 DEF Told
  <2>6. CASE actl.mode = "delete"
    <3>1. /\ actl' \in AssociationReconciles /\ actl'.id = actl.id
          /\ actl'.mode = "delete" /\ actl'.spec = actl.spec
          /\ actl'.rule = place[1] /\ actl'.vpc = place[2]
          /\ actl'.pc = "delete" /\ actl'.end = "unsynced"
      BY <1>a, <2>2, <2>4, <2>6, AssociationFacts DEF AssociationReconciles
    <3>2. AssociationTypes' /\ Course'
      BY <1>a, <1>c, <2>2, <3>1, AssociationFacts
         DEF AssociationTypes, Course, AExists
    <3>3. Found'
      BY <1>b, <2>1, <2>2, <3>1 DEF Found, HasId, Here
    <3>4. KnownAssociationIsGuarded' /\ HonestObject'
      BY <1>a, <1>b, <3>1, GoingOnTells DEF AExists
    <3> QED BY <1>b, <3>2, <3>3, <3>4 DEF Told
  <2> QED BY <1>a, <2>5, <2>6
<1> QED BY <1>1, <1>2

LEMMA ManageTells ==
  ASSUME AssociationInv, ManageAssociation
  PROVE  Identified' /\ AssociationTypes' /\ Told'
<1>a. /\ actl.pc = "manage" /\ UNCHANGED <<rules, assocId, assocName, vpcReady>>
      /\ actl.mode = "sync" /\ actl.id = acr.id /\ actl.end = "unsynced"
      /\ aqueued # "later" /\ actl.rule \in RuleIds /\ actl.vpc \in Vpcs
      /\ AsksFor(actl.spec, actl.rule, actl.vpc)
      /\ aqueued = "never" /\ acr.phase = "live" => actl.spec = acr.spec
  BY AssociationFacts DEF ManageAssociation, ruleVars, Course
<1>b. Identified' /\ KeepsKnown
  BY <1>a, AssociationFacts, StillIsKept
<1>1. CASE AError
  BY <1>a, <1>b, <1>1, AErrorTells, AssociationFacts DEF AssociationTypes
<1>2. CASE ~AError
  <2>1. /\ AExists /\ aqueued' = aqueued
        /\ acr' = [acr EXCEPT !.finalizer = TRUE]
        /\ actl' = [actl EXCEPT !.pc = "create"]
    BY <1>2 DEF ManageAssociation
  <2>2. /\ acr' \in AssociationObjects /\ acr'.id = acr.id
        /\ acr'.phase = acr.phase /\ acr'.finalizer = TRUE
        /\ acr'.spec = acr.spec
    BY <2>1, AssociationFacts DEF AssociationObjects
  <2>3. /\ actl' \in AssociationReconciles /\ actl'.pc = "create"
        /\ actl'.id = actl.id /\ actl'.mode = actl.mode
        /\ actl'.spec = actl.spec /\ actl'.end = actl.end
        /\ actl'.rule = actl.rule /\ actl'.vpc = actl.vpc
    BY <2>1, AssociationFacts DEF AssociationReconciles
  <2>4. AssociationTypes' /\ Course'
    BY <1>a, <2>1, <2>2, <2>3, AssociationFacts
       DEF AssociationTypes, Course, AExists
  <2>5. Found'
    BY <2>3 DEF Found
  <2>6. KnownAssociationIsGuarded' /\ HonestObject'
    BY <1>b, <2>1, <2>2, <2>3, GoingOnTells DEF AExists
  <2> QED BY <1>b, <2>4, <2>5, <2>6 DEF Told
<1> QED BY <1>1, <1>2

\* The calls that make an association, for an object with its finalizer, and
\* that remove one, which is the one that was found.
LEMMA CallTells ==
  ASSUME AssociationInv,
         CreateAssociation \/ CreateAssociationLost \/ DeleteTheAssociation
  PROVE  Identified' /\ AssociationTypes' /\ Told'
<1>a. /\ actl.pc \in {"create", "delete"} /\ vpcReady' = vpcReady
      /\ Associates \/ DeleteTheAssociation
      /\ \E name \in AssociationNames \cup {NoName} : TrackIds(name)
  <2>1. actl.spec.name \in AssociationNames \cup {NoName}
    BY AssociationFacts DEF FullAssociationSpecs
  <2> QED BY <2>1 DEF CreateAssociation, CreateAssociationLost,
                      DeleteTheAssociation, Associates
<1>b. /\ actl.id = acr.id /\ actl.end = "unsynced" /\ aqueued # "later"
      /\ actl.rule \in RuleIds /\ actl.vpc \in Vpcs
      /\ actl.pc = "create" => /\ actl.mode = "sync" /\ AExists /\ acr.finalizer
                               /\ AsksFor(actl.spec, actl.rule, actl.vpc)
      /\ aqueued = "never" /\ acr.phase = "live" => actl.spec = acr.spec
  BY <1>a, AssociationFacts DEF Course
<1>c. StatusMoves
  BY <1>a, <1>b, CallMoves DEF AssociationInv, SharedInv
<1>d. Identified' /\ KeepsKnown
  BY <1>a, <1>c, AssociationFacts, IdsStep
<1>1. CASE CreateAssociation
  <2>1. FreshId \in AssocIds
    <3>1. Here \in Places /\ StatusAt(Here) = "NONE"
      BY <1>b, <1>1 DEF CreateAssociation, Associates, Here, Places
    <3>2. IdAt(Here) = NoId
      BY <3>1, AssociationFacts DEF Identified
    <3> QED BY <3>1, <3>2, AssociationFacts, FreshIdIsFresh
  <2>2. /\ actl' \in AssociationReconciles /\ actl'.pc = "patch"
        /\ actl'.mode = "sync" /\ actl'.spec = actl.spec
        /\ actl'.end = "unsynced" /\ actl'.rule = actl.rule
        /\ actl'.vpc = actl.vpc /\ UNCHANGED <<acr, aqueued>>
        /\ actl.pc = "create"
    BY <1>b, <1>1, <2>1, AssociationFacts
       DEF CreateAssociation, Associates, AssociationReconciles
  <2>3. AssociationTypes' /\ Course'
    BY <1>a, <1>b, <2>2, AssociationFacts DEF AssociationTypes, Course, AExists
  <2>4. Found'
    BY <2>2 DEF Found
  <2>5. KnownAssociationIsGuarded' /\ HonestObject'
    BY <1>b, <2>2 DEF KnownAssociationIsGuarded, HonestObject, AExists
  <2> QED BY <1>d, <2>3, <2>4, <2>5 DEF Told
<1>2. CASE CreateAssociationLost
  BY <1>a, <1>d, <1>2, AErrorTells, AssociationFacts
     DEF CreateAssociationLost, AssociationTypes
<1>3. CASE DeleteTheAssociation
  <2>1. /\ actl' \in AssociationReconciles /\ actl'.pc = "unmanage"
        /\ actl'.id = actl.id /\ actl'.mode = actl.mode
        /\ actl'.spec = actl.spec /\ actl'.end = "unsynced"
        /\ UNCHANGED <<acr, aqueued>> /\ actl.pc = "delete"
        /\ actl.rule \in Live
        /\ rules' = Moved(actl.rule, actl.vpc, "DELETING")
    BY <1>b, <1>3, AssociationFacts
       DEF DeleteTheAssociation, AssociationReconciles, StatusAt, Here, Moved
  <2>2. AssociationTypes' /\ Course'
    BY <1>a, <1>b, <2>1, AssociationFacts DEF AssociationTypes, Course, AExists
  <2>3. Found'
    <3> SUFFICES ASSUME NEW p \in Places, HasId(p, actl.id)'
                 PROVE  StatusAt(p)' = "DELETING"
      BY <2>1 DEF Found
    <3>1. HasId(p, actl.id)
      BY <1>d, <2>1 DEF HasId, KeepsKnown
    <3>2. p = Here
      BY <2>1, <3>1 DEF AssociationInv, Found
    <3>3. Live' = Live /\ rules'[actl.rule].assoc[actl.vpc] = "DELETING"
      BY <1>b, <2>1, PlaceType DEF AssociationInv, SharedInv, AssocStatus
    <3> QED BY <2>1, <3>2, <3>3 DEF StatusAt, Here
  <2>4. KnownAssociationIsGuarded' /\ HonestObject'
    BY <1>d, <2>1, GoingOnTells DEF AExists
  <2> QED BY <1>d, <2>2, <2>3, <2>4 DEF Told
<1> QED BY <1>1, <1>2, <1>3

\* The patch that ends an operation: what it reports as synced was found where
\* the spec asks for it, and the queue tells of any edit since.
LEMMA PatchTells ==
  ASSUME AssociationInv, PatchAssociationStatus
  PROVE  Identified' /\ AssociationTypes' /\ Told'
<1>a. /\ actl.pc = "patch" /\ UNCHANGED <<rules, assocId, assocName, vpcReady>>
      /\ actl' = AIdle /\ actl.mode = "sync" /\ aqueued # "later"
      /\ aqueued' = IF aqueued = "now" THEN "now" ELSE "later"
      /\ AsksFor(actl.spec, actl.rule, actl.vpc)
      /\ aqueued = "never" /\ acr.phase = "live" => actl.spec = acr.spec
  BY AssociationFacts DEF PatchAssociationStatus, ruleVars, Course
<1>b. /\ Identified'
      /\ \A p \in Places : StatusAt(p)' = StatusAt(p) /\ IdAt(p)' = IdAt(p)
                           /\ NameAt(p)' = NameAt(p)
  BY <1>a, AssociationFacts, StillIsKept
<1>1. /\ acr' \in AssociationObjects /\ acr'.phase = acr.phase
      /\ acr'.finalizer = acr.finalizer /\ acr'.spec = acr.spec
      /\ AExists => /\ acr'.id = actl.id
                    /\ acr'.synced = (actl.end # "unsynced")
                    /\ acr'.terminal = (actl.end = "terminal")
      /\ ~AExists => acr' = acr
  <2>1. CASE AExists
    <3>1. acr' = [acr EXCEPT !.id = actl.id,
                    !.synced = Conditions(actl.end).synced,
                    !.terminal = Conditions(actl.end).terminal]
      BY <2>1 DEF PatchAssociationStatus
    <3>2. /\ Conditions(actl.end).synced = (actl.end # "unsynced")
          /\ Conditions(actl.end).terminal = (actl.end = "terminal")
      BY DEF Conditions
    <3> QED BY <2>1, <3>1, <3>2, AssociationFacts DEF AssociationObjects
  <2>2. CASE ~AExists
    BY <2>2, AssociationFacts DEF PatchAssociationStatus
  <2> QED BY <2>1, <2>2
<1>2. AssociationTypes' /\ Course' /\ Found'
  BY <1>a, <1>1, RecordTypes, AssociationFacts
     DEF AssociationTypes, QueueStates, Course, Found, HasId
<1>3. KnownAssociationIsGuarded'
  BY <1>a, <1>b, <1>1, RecordTypes, AssociationFacts
     DEF AssociationInv, KnownAssociationIsGuarded, AExists
<1>4. HonestObject'
  <2> SUFFICES ASSUME acr'.phase = "live", acr'.synced, ~acr'.terminal,
                      aqueued' = "later", NEW p \in Places, HasId(p, acr.id)'
               PROVE  /\ AsksFor(acr.spec, p[1], p[2])'
                      /\ NameAt(p)' = acr'.spec.name
                      /\ StatusAt(p)' \in {"COMPLETE", "DELETING"}
    BY DEF HonestObject
  <2>1. AExists /\ aqueued = "never"
    BY <1>a, <1>1, AssociationFacts DEF AExists, QueueStates
  <2>2. actl.end = "synced"
    BY <1>1, <2>1, AssociationFacts DEF AssociationReconciles
  <2>3. HasId(p, actl.id)
    BY <1>b, <1>1, <2>1 DEF HasId
  <2>4. /\ p = Here /\ StatusAt(p) \in {"COMPLETE", "DELETING"}
        /\ NameAt(p) = actl.spec.name
    BY <1>a, <2>2, <2>3 DEF AssociationInv, Found
  <2>5. acr'.spec = actl.spec
    BY <1>a, <1>1, <2>1
  <2>6. AsksFor(actl.spec, p[1], p[2])
    BY <1>a, <2>4 DEF Here
  <2> QED BY <1>b, <2>4, <2>5, <2>6 DEF AsksFor
<1> QED BY <1>b, <1>2, <1>3, <1>4 DEF Told

\* The ends that report no success.
LEMMA OtherEndsTell ==
  ASSUME AssociationInv,
         \/ ACallRefused \/ ACallFails \/ PatchTerminal \/ UnmanageAssociation
         \/ RestartBoth
  PROVE  Identified' /\ AssociationTypes' /\ Told'
<1>a. UNCHANGED <<rules, assocId, assocName, vpcReady>>
  BY DEF ACallRefused, ACallFails, PatchTerminal, UnmanageAssociation,
         RestartBoth, Restart, ruleVars
<1>b. /\ Identified' /\ KeepsKnown
      /\ \A p \in Places : StatusAt(p)' = StatusAt(p) /\ IdAt(p)' = IdAt(p)
                           /\ NameAt(p)' = NameAt(p)
  BY <1>a, AssociationFacts, StillIsKept
<1>1. CASE ACallRefused \/ ACallFails
  BY <1>a, <1>b, <1>1, AErrorTells, AssociationFacts
     DEF ACallRefused, ACallFails, AssociationTypes
<1>2. CASE PatchTerminal
  <2>1. /\ actl' = AIdle /\ aqueued' = aqueued /\ aqueued # "later"
    BY <1>2, AssociationFacts DEF PatchTerminal, Course
  <2>2. /\ acr' \in AssociationObjects /\ acr'.id = acr.id
        /\ acr'.phase = acr.phase /\ acr'.finalizer = acr.finalizer
    <3>1. CASE acr' = acr
      BY <3>1, AssociationFacts
    <3>2. CASE acr' # acr
      <4>1. acr' = [acr EXCEPT !.synced = Conditions("terminal").synced,
                               !.terminal = Conditions("terminal").terminal]
        BY <1>2, <3>2 DEF PatchTerminal, PatchedConditions
      <4>2. /\ Conditions("terminal").synced \in BOOLEAN
            /\ Conditions("terminal").terminal \in BOOLEAN
        BY DEF Conditions
      <4> QED BY <4>1, <4>2, AssociationFacts DEF AssociationObjects
    <3> QED BY <3>1, <3>2
  <2> QED BY <1>a, <1>b, <2>1, <2>2, EndTells, RecordTypes, AssociationFacts
             DEF AssociationTypes
<1>3. CASE UnmanageAssociation
  <2>1. /\ actl' = AIdle /\ aqueued' = aqueued /\ acr' = AGone
        /\ actl.pc = "unmanage" /\ actl.id = acr.id /\ aqueued # "later"
    BY <1>3, AssociationFacts DEF UnmanageAssociation, Course
  <2>2. AssociationTypes' /\ Course' /\ Found' /\ HonestObject'
    BY <1>a, <2>1, RecordTypes, AssociationFacts
       DEF AssociationTypes, Course, Found, HasId, HonestObject
  <2>3. KnownAssociationIsGuarded'
    <3> SUFFICES ASSUME NEW p \in Places, IdAt(p)' \in {acr'.id, actl'.id} \ {NoId}
                 PROVE  StatusAt(p)' = "DELETING"
      BY DEF KnownAssociationIsGuarded
    <3>1. HasId(p, actl.id)
      BY <1>b, <2>1, RecordTypes, AssociationFacts DEF HasId
    <3> QED BY <1>b, <2>1, <3>1 DEF AssociationInv, Found
  <2> QED BY <1>b, <2>2, <2>3 DEF Told
<1>4. CASE RestartBoth
  <2>1. /\ actl' = AIdle /\ acr' = acr
        /\ aqueued' = IF AExists THEN "now" ELSE aqueued
    BY <1>4 DEF RestartBoth
  <2>2. aqueued' # "later" => Told'
    BY <1>b, <2>1, EndTells
  <2>3. AssociationTypes'
    BY <1>a, <2>1, RecordTypes, AssociationFacts DEF AssociationTypes, QueueStates
  <2>4. CASE ~AExists
    <3>1. acr.phase = "gone"
      BY <2>4 DEF AExists
    <3>2. Course' /\ Found' /\ HonestObject'
      BY <2>1, <3>1, RecordTypes, AssociationFacts
         DEF Course, Found, HasId, HonestObject
    <3>3. KnownAssociationIsGuarded'
      BY <1>b, <2>1, RecordTypes, AssociationFacts
         DEF AssociationInv, KnownAssociationIsGuarded, AExists
    <3> QED BY <1>b, <2>3, <3>2, <3>3 DEF Told
  <2> QED BY <1>b, <2>1, <2>2, <2>3, <2>4
<1> QED BY <1>1, <1>2, <1>3, <1>4

\* Steps that do not concern the association's worker.
LEMMA AsideTells ==
  ASSUME AssociationInv,
         \/ ApplyRuleAgain \/ VpcSettles \/ AFinished \/ UNCHANGED allVars
         \/ RuleStep(User) \/ RuleStep(Aws) \/ RuleStep(Controller)
         \/ RuleStep(Resync) \/ RuleStep(\E r \in Live : RuleDrifts(r))
  PROVE  Identified' /\ AssociationTypes' /\ Told'
<1>1. UNCHANGED <<acr, aqueued, actl>> /\ vpcReady' \in BOOLEAN
  BY AssociationFacts
     DEF ApplyRuleAgain, VpcSettles, AFinished, allVars, avars, ruleVars, RuleStep
<1>2. CASE UNCHANGED <<rules, assocId, assocName>>
  BY <1>1, <1>2, AssociationFacts, StillIsKept, OthersTell DEF AssociationTypes
<1>3. CASE \/ RuleStep(User) \/ RuleStep(Aws) \/ RuleStep(Controller)
           \/ RuleStep(Resync) \/ RuleStep(\E r \in Live : RuleDrifts(r))
  <2>1. [Next]_vars /\ TrackIds(NoName)
    BY <1>3 DEF RuleStep, Next
  <2>2. Identified' /\ KeepsKnown
    BY <2>1, RuleMoves, IdsStep, AssociationFacts DEF AssociationInv, SharedInv
  <2> QED BY <1>1, <2>2, OthersTell, AssociationFacts DEF AssociationTypes
<1> QED
  BY <1>2, <1>3 DEF ApplyRuleAgain, VpcSettles, AFinished, allVars, avars, ruleVars

LEMMA InitTells == AInit => AssociationInv
<1> SUFFICES ASSUME AInit PROVE AssociationInv
  OBVIOUS
<1>1. /\ acr \in AssociationObjects /\ acr.id = NoId /\ acr.synced = FALSE
      /\ aqueued = "now" /\ actl = AIdle /\ vpcReady = FALSE
      /\ assocId = [r \in RuleIds |-> [v \in Vpcs |-> NoId]] /\ Live = {}
      /\ assocName = [r \in RuleIds |-> [v \in Vpcs |-> NoName]]
  BY DEF AInit, AssociationObjects, Init, Live
<1>2. AIdle \in AssociationReconciles /\ AIdle.pc = "idle" /\ AIdle.id = NoId
  <2>1. AnyAssociationSpec \in AssociationSpecs
    BY <1>1 DEF AssociationObjects, AnyAssociationSpec
  <2> QED BY <2>1 DEF AIdle, AssociationReconciles
<1>3. \A p \in Places : IdAt(p) = NoId /\ StatusAt(p) = "NONE"
  BY <1>1 DEF Places, IdAt, StatusAt
<1>4. Identified /\ AssociationTypes
  BY <1>1, <1>2, <1>3 DEF Identified, AssociationTypes, QueueStates
<1>5. Course /\ Found /\ KnownAssociationIsGuarded /\ HonestObject
  BY <1>1, <1>2, <1>3
     DEF Course, Found, HasId, KnownAssociationIsGuarded, HonestObject
<1> QED BY <1>4, <1>5, InitShared DEF AssociationInv

LEMMA NextTells == AssociationInv /\ [ANext]_allVars => AssociationInv'
<1> SUFFICES ASSUME AssociationInv, [ANext]_allVars PROVE AssociationInv'
  OBVIOUS
<1>1. SharedInv'
  BY NextShared DEF AssociationInv
<1>2. Identified' /\ AssociationTypes' /\ Told'
  BY UsersTell, StartTells, ResolveTells, FindTells, ManageTells, CallTells,
     PatchTells, OtherEndsTell, AsideTells DEF ANext, AController
<1> QED BY <1>1, <1>2 DEF AssociationInv, Told

\* For any specs, edits, faults and interleaving of the two controllers each
\* association has one id and no two the same, and no request goes out before
\* its rule and its VPC are known (the checks of ResolveReferences).
THEOREM AssociationTypeCorrect == ASpec => []AssociationTypeOK
<1>1. AssociationInv => AssociationTypeOK
  BY DEF AssociationInv, SharedInv, TypeInv, AssociationTypeOK, Identified,
         AssociationTypes, Course
<1> QED BY InitTells, NextTells, <1>1, PTL DEF ASpec

\* An association that the object or its worker knows of, and that nobody is
\* removing, has an object with its finalizer: also while the answer of its
\* create is on the way, after any call that fails, and when the rule's
\* controller acts on it (AddFinalizer before sdkCreate, the errors of sdkDelete).
THEOREM AssociationIsGuarded == ASpec => []KnownAssociationIsGuarded
BY InitTells, NextTells, PTL DEF ASpec, AssociationInv
-----------------------------------------------------------------------------
(* The rule, with the other controller at work *)

\* An object without the finalizer was given no id: also one that was applied
\* under the name of an object that went while its reconcile was going on.
NotYetBound == ~cr.finalizer /\ (Exists \/ ctl.pc # "idle") => cr.id = NoId

RuleInv == SharedInv /\ OrphanInv /\ NotYetBound

LEMMA InitRule == AInit => RuleInv
<1> SUFFICES ASSUME AInit PROVE RuleInv
  OBVIOUS
<1>1. cr.id = NoId
  BY DEF AInit, Init
<1> QED BY <1>1, InitShared, InitOrphans DEF AInit, RuleInv, NotYetBound

\* The steps of the association's controller, and those of the users of its
\* object, leave the rules' existence and all of the rule's reconcile alone.
LEMMA AStepsAside ==
  ASSUME SharedInv, [ANext]_allVars
  PROVE  \/ [Next]_vars
         \/ ApplyRuleAgain
         \/ /\ UNCHANGED <<cr, ctl, used>> /\ Live' = Live
            /\ faults' \in {faults, faults + 1}
<1> DEFINE Aside == /\ UNCHANGED <<cr, ctl, used>> /\ Live' = Live
                    /\ faults' \in {faults, faults + 1}
<1>1. CASE UNCHANGED allVars
  BY <1>1 DEF allVars, avars, ruleVars, vars
<1>2. CASE \/ RuleStep(User) \/ RuleStep(Aws) \/ RuleStep(Controller)
           \/ RuleStep(Resync) \/ RuleStep(\E r \in Live : RuleDrifts(r))
           \/ RestartBoth
  BY <1>2 DEF RuleStep, RestartBoth, Next
<1>3. CASE CreateAssociation \/ CreateAssociationLost \/ DeleteTheAssociation
  <2>1. Live' = Live
    BY <1>3 DEF SharedInv, TypeInv, TypeOK, CreateAssociation,
                CreateAssociationLost, Associates, DeleteTheAssociation, Live
  <2> QED
    BY <1>3, <2>1 DEF CreateAssociation, CreateAssociationLost,
                      DeleteTheAssociation
<1>4. CASE UNCHANGED ruleVars
  BY <1>4 DEF ruleVars, Live
<1>5. CASE EditAssociation \/ ACallFails
  BY <1>5 DEF EditAssociation, ACallFails, Live
<1> QED
  BY <1>1, <1>2, <1>3, <1>4, <1>5
     DEF ANext, AController, DeleteAssociation, VpcSettles, AResync, AFinished,
         AStart, ResolveReferences, FindNoAssociation, FindAssociation,
         ManageAssociation, ACallRefused, PatchAssociationStatus, PatchTerminal,
         UnmanageAssociation, allVars

\* Another object takes the name of one that is gone.  The reconcile of the old
\* one, if there is any, has not come to a call that makes a rule.
LEMMA AgainStep ==
  ASSUME RuleInv, TypeInv', ApplyRuleAgain
  PROVE  OrphanInv' /\ NotYetBound'
<1>a. Bound /\ TypeOK /\ NoId \notin Live
  BY NoIdNotLive DEF RuleInv, SharedInv, TypeInv, OrphanInv
<1>1. /\ cr'.phase = "live" /\ cr'.finalizer = FALSE /\ cr'.id = NoId
      /\ UNCHANGED <<ctl, used, rules, faults>> /\ Live' = Live
      /\ ~Exists /\ ~cr.finalizer
  BY <1>a DEF ApplyRuleAgain, Live, Bound, Guarded, avars
<1>2. ctl.pc # "idle" => cr.id = NoId
  BY <1>1 DEF RuleInv, NotYetBound
<1>3. ctl.pc \notin {"create", "creating", "work", "unmanage"}
  BY <1>1, <1>a DEF Bound, Guarded
<1>4. Bound'
  BY <1>a, <1>1, <1>2, <1>3
     DEF Bound, ModeOfPc, IdOfPc, Guarded, KnownRuleIsGuarded, Exists
<1>5. Orphans' = Orphans
  <2>1. (Bound => Orphans = Live \ {cr.id, ctl.id})'
    BY OrphansAre, PTL
  <2>2. cr.id \notin Live /\ cr'.id \notin Live
    BY <1>a, <1>1 DEF Bound, Guarded, KnownRuleIsGuarded
  <2> QED BY <1>a, <1>1, <1>4, <2>1, <2>2, OrphansAre
<1>6. OrphanInv'
  BY <1>1, <1>4, <1>5 DEF RuleInv, OrphanInv, OrphansBoundedByFaults
<1>7. NotYetBound'
  BY <1>1 DEF NotYetBound
<1> QED BY <1>6, <1>7

\* Of the rule's controller: the finalizer comes before the id, and an object
\* loses the finalizer only when it goes and its reconcile ends.
LEMMA NotYetBoundStep ==
  ASSUME Bound, NotYetBound, [Next]_vars
  PROVE  NotYetBound'
<1>a. TypeOK /\ cr \in Objects /\ ctl \in Reconciles /\ Guarded
  BY DEF Bound, TypeInv, TypeOK
<1>1. ASSUME cr'.finalizer = cr.finalizer, cr'.id = cr.id, cr'.phase = cr.phase,
             ctl'.pc # "idle" => Exists \/ ctl.pc # "idle"
      PROVE  NotYetBound'
  BY <1>1 DEF NotYetBound, Exists
<1>2. CASE EditSpec
  BY <1>1, <1>2, <1>a DEF EditSpec, Objects
<1>3. CASE DeleteResource
  BY <1>3, <1>a DEF DeleteResource, Objects, NotYetBound, Exists
<1>4. CASE StartReconcile
  BY <1>1, <1>4, IdleType DEF StartReconcile
<1>5. CASE MarkManaged
  <2>1. CASE ReconcileError
    BY <1>1, <2>1, <1>a, EndType, IdleType
  <2>2. CASE ~ReconcileError
    BY <1>5, <2>2, <1>a DEF MarkManaged, Objects, NotYetBound
  <2> QED BY <2>1, <2>2
<1>6. CASE FindPanics \/ CreateRefused \/ Restart
  BY <1>1, <1>6, <1>a, EndType, IdleType DEF FindPanics, CreateRefused, Restart
<1>7. CASE CallRefused \/ CallFails
  BY <1>1, <1>7, <1>a, FailType, IdleType
     DEF CallRefused, CallFails, Bound, Refused
<1>8. CASE PatchStatus
  BY <1>8, <1>a DEF PatchStatus, WorkDone, Guarded, Objects, NotYetBound
<1>9. CASE MarkUnmanaged
  BY <1>9, <1>a, IdleType DEF MarkUnmanaged, NotYetBound, Exists, Objects
<1>10. CASE cr' = cr /\ (ctl'.pc # "idle" => ctl.pc # "idle")
  BY <1>1, <1>10
<1> QED
  BY <1>2, <1>3, <1>4, <1>5, <1>6, <1>7, <1>8, <1>9, <1>10
     DEF Next, vars, User, Aws, Controller, Associations, AssociationSettles,
         RuleDrifts, Resync, FindNothing, FindRule, PrepareCreate,
         CreateResolverRule, CreateRetried, TagResource, UntagResource,
         AssociateResolverRule, DisassociateResolverRule, UpdateResolverRule,
         DeleteResolverRule, WorkDone, MayDisassociate, Finished

LEMMA NextRule == RuleInv /\ [ANext]_allVars => RuleInv'
<1> SUFFICES ASSUME RuleInv, [ANext]_allVars PROVE RuleInv'
  OBVIOUS
<1>a. SharedInv /\ SharedInv' /\ TypeInv' /\ Bound
  BY NextShared DEF RuleInv, SharedInv, OrphanInv
<1>1. CASE [Next]_vars
  BY <1>1, <1>a, NextOrphans, NotYetBoundStep DEF RuleInv
<1>2. CASE ApplyRuleAgain
  BY <1>2, <1>a, AgainStep DEF RuleInv
<1>3. ASSUME UNCHANGED <<cr, ctl, used>>, Live' = Live,
             faults' \in {faults, faults + 1}
      PROVE  RuleInv'
  <2>1. Bound'
    BY <1>3, <1>a, QuietStep
  <2>2. Orphans' = Orphans
    BY <1>3 DEF Orphans, Exists
  <2>3. Cardinality(Orphans) \in Nat /\ faults \in Nat
    <3>1. IsFiniteSet(Orphans)
      BY FS_Subset DEF Orphans, RuleInv, OrphanInv
    <3>2. faults \in Nat
      BY <1>a, BoundsAssumption DEF SharedInv, TypeInv, TypeOK
    <3> QED BY <3>1, <3>2, FS_CardinalityType
  <2>4. OrphansBoundedByFaults'
    BY <1>3, <2>2, <2>3 DEF RuleInv, OrphanInv, OrphansBoundedByFaults
  <2>5. NotYetBound'
    BY <1>3 DEF RuleInv, NotYetBound, Exists
  <2> QED BY <1>3, <1>a, <2>1, <2>4, <2>5 DEF RuleInv, OrphanInv
<1> QED BY <1>1, <1>2, <1>3, <1>a, AStepsAside

\* The finalizer guards every known rule still, although another object may be
\* applied under the name of one that is gone, even while the reconcile of that
\* one goes on, and although others change the rule's associations.
THEOREM RuleIsGuardedStill == ASpec => []KnownRuleIsGuarded
<1>1. RuleInv => KnownRuleIsGuarded
  BY DEF RuleInv, OrphanInv, Bound, Guarded
<1> QED BY InitRule, NextRule, <1>1, PTL DEF ASpec

\* Nor does any step of the two controllers bind an object to another rule while
\* its own exists.
THEOREM BindingIsStableStill == ASpec => StableBinding
<1>1. RuleInv /\ [ANext]_allVars => [cr.id \in Live => cr'.id = cr.id]_vars
  <2> SUFFICES ASSUME RuleInv, [ANext]_allVars, cr.id \in Live
               PROVE  cr'.id = cr.id
    OBVIOUS
  <2>1. SharedInv /\ Bound
    BY DEF RuleInv, OrphanInv
  <2>2. CASE [Next]_vars
    BY <2>1, <2>2, BindingStep
  <2>3. CASE ApplyRuleAgain
    BY <2>1, <2>3 DEF ApplyRuleAgain, Bound, Guarded, KnownRuleIsGuarded
  <2> QED BY <2>1, <2>2, <2>3, AStepsAside
<1> QED BY InitRule, NextRule, <1>1, PTL DEF ASpec, StableBinding

\* The rules that nobody will find again are still no more than the failed calls
\* and restarts, those of the other controller counted with them.
THEOREM OrphansBoundedStill == ASpec => []OrphansBoundedByFaults
<1>1. RuleInv => OrphansBoundedByFaults
  BY DEF RuleInv, OrphanInv
<1> QED BY InitRule, NextRule, <1>1, PTL DEF ASpec
-----------------------------------------------------------------------------
(* What a reference is worth later *)

\* A rule that the object of this name has led to is that object's as long as it
\* exists, and no create in progress can bring it.
LedTo(r) ==
  /\ r \in used /\ (r \in Live => Exists /\ cr.id = r)
  /\ ctl.pc = "creating" => ctl.id # r

\* A rule found through a reference stays worth that while the worker is busy
\* with it, and when the association's object has been reported as synced.
ReferenceHolds ==
  /\ actl.pc \in {"find", "manage", "create", "patch"} /\ actl.mode = "sync"
     /\ actl.spec.ruleRef => LedTo(actl.rule)
  /\ acr.phase = "live" /\ acr.synced /\ ~acr.terminal /\ aqueued = "later"
     /\ actl.pc = "idle" /\ acr.spec.ruleRef =>
       \A p \in Places : HasId(p, acr.id) => LedTo(p[1])

ReferenceInv == RuleInv /\ AssociationInv /\ ReferenceHolds

\* The rule's controller never draws an id again.
LEMMA DrawnStep ==
  ASSUME TypeInv, [Next]_vars
  PROVE  /\ used \subseteq used'
         /\ ctl'.pc = "creating" => \/ ctl.pc = "creating" /\ ctl'.id = ctl.id
                                    \/ ctl'.id \notin used
<1>a. TypeOK /\ ctl \in Reconciles
  BY DEF TypeInv, TypeOK
<1>1. ASSUME used' = used, ctl'.pc # "creating" \/ ctl' = ctl
      PROVE  used \subseteq used'
             /\ (ctl'.pc = "creating" => ctl.pc = "creating" /\ ctl'.id = ctl.id)
  BY <1>1
<1>2. CASE PrepareCreate
  <2>1. PICK t \in RuleIds \ used :
          /\ ctl' = [ctl EXCEPT !.pc = "creating", !.mode = "create", !.id = t]
          /\ used' = used \cup {t}
    BY <1>2 DEF PrepareCreate, getCreatorRequestId
  <2>2. ctl'.id = t
    BY <1>a, <2>1 DEF Reconciles
  <2> QED BY <2>1, <2>2
<1>3. CASE StartReconcile
  BY <1>1, <1>3, IdleType DEF StartReconcile, Idle
<1>4. CASE \/ FindNothing \/ FindRule \/ CreateResolverRule \/ DeleteResolverRule
           \/ PatchStatus \/ MarkUnmanaged
  <2>1. used' = used /\ ctl'.pc # "creating"
    BY <1>4, <1>a, IdleType
       DEF FindNothing, FindRule, CreateResolverRule, DeleteResolverRule,
           PatchStatus, MarkUnmanaged, Reconciles
  <2> QED BY <1>1, <2>1
<1>5. CASE FindPanics \/ MarkManaged \/ CreateRefused \/ Restart
  <2>1. used' = used /\ ctl'.pc # "creating"
    BY <1>5, <1>a, EndType, IdleType
       DEF FindPanics, MarkManaged, CreateRefused, Restart, Reconciles
  <2> QED BY <1>1, <2>1
<1>6. CASE CallRefused \/ CallFails
  <2>1. used' = used /\ (ctl'.pc # "creating" \/ ctl' = ctl)
    BY <1>6, <1>a, FailType, IdleType DEF CallRefused, CallFails
  <2> QED BY <1>1, <2>1
<1>7. CASE UNCHANGED <<ctl, used>>
  BY <1>1, <1>7
<1> QED
  BY <1>2, <1>3, <1>4, <1>5, <1>6, <1>7
     DEF Next, vars, User, Aws, Controller, Associations, EditSpec,
         DeleteResource, AssociationSettles, RuleDrifts, Resync, CreateRetried,
         TagResource, UntagResource, AssociateResolverRule,
         DisassociateResolverRule, UpdateResolverRule, Finished

\* No step takes a rule that exists away from the object that led to it, nor
\* brings back one that is gone.
LEMMA LedToStays ==
  ASSUME RuleInv, RuleInv', [ANext]_allVars, NEW r, LedTo(r)
  PROVE  LedTo(r)'
<1>a. SharedInv /\ TypeInv /\ Bound /\ Bound'
  BY DEF RuleInv, SharedInv, OrphanInv
<1>1. CASE [Next]_vars
  <2>1. r \in used' /\ (ctl'.pc = "creating" => ctl'.id # r)
    BY <1>1, <1>a, DrawnStep DEF LedTo
  <2>2. ASSUME r \in Live' PROVE r \in Live
    BY <1>1, <1>a, <2>2, LiveStep DEF LedTo
  <2>3. ASSUME r \in Live' PROVE Exists' /\ cr'.id = r
    <3>1. cr'.id = r
      BY <1>1, <1>a, <2>2, <2>3, BindingStep DEF LedTo
    <3> QED BY <1>a, <2>3, <3>1 DEF Bound, Guarded, KnownRuleIsGuarded
  <2> QED BY <2>1, <2>3 DEF LedTo
<1>2. CASE ApplyRuleAgain
  <2>1. UNCHANGED <<ctl, used, rules>> /\ ~Exists
    BY <1>2 DEF ApplyRuleAgain
  <2> QED BY <2>1 DEF LedTo, Live
<1>3. CASE UNCHANGED <<cr, ctl, used>> /\ Live' = Live
  BY <1>3 DEF LedTo, Exists
<1> QED BY <1>a, <1>1, <1>2, <1>3, AStepsAside

\* A rule object that is ready has led to its rule.
LEMMA ReadyLeads ==
  ASSUME RuleInv, ReferencedRuleReady
  PROVE  LedTo(cr.id)
BY DEF RuleInv, OrphanInv, Bound, Guarded, IdOfPc, ReferencedRuleReady, LedTo

LEMMA AnyStepKeepsKnown ==
  ASSUME AssociationInv, [ANext]_allVars
  PROVE  KeepsKnown
<1>1. CASE UNCHANGED <<rules, assocId, assocName>>
  BY <1>1, AssociationFacts, StillIsKept
<1>2. CASE \/ RuleStep(User) \/ RuleStep(Aws) \/ RuleStep(Controller)
           \/ RuleStep(Resync) \/ RuleStep(\E r \in Live : RuleDrifts(r))
  <2>1. [Next]_vars /\ TrackIds(NoName)
    BY <1>2 DEF RuleStep, Next
  <2> QED BY <2>1, RuleMoves, IdsStep, AssociationFacts DEF AssociationInv, SharedInv
<1>3. CASE CreateAssociation \/ CreateAssociationLost \/ DeleteTheAssociation
  <2>1. actl.spec.name \in AssociationNames \cup {NoName}
    BY AssociationFacts DEF FullAssociationSpecs
  <2>2. /\ \E name \in AssociationNames \cup {NoName} : TrackIds(name)
        /\ Associates \/ DeleteTheAssociation
    BY <1>3, <2>1 DEF CreateAssociation, CreateAssociationLost,
                      DeleteTheAssociation, Associates
  <2>3. actl.vpc \in Vpcs
    BY <2>2, AssociationFacts DEF Course, Associates, DeleteTheAssociation
  <2> QED BY <2>2, <2>3, CallMoves, IdsStep, AssociationFacts
             DEF AssociationInv, SharedInv
<1> QED
  BY <1>1, <1>2, <1>3
     DEF ANext, AController, EditAssociation, DeleteAssociation, ApplyRuleAgain,
         VpcSettles, AStart, AResync, ResolveReferences, FindNoAssociation,
         FindAssociation, ManageAssociation, ACallRefused, ACallFails,
         PatchAssociationStatus, PatchTerminal, UnmanageAssociation, RestartBoth,
         Restart, AFinished, ruleVars, allVars, avars

\* The worker comes by the rule where it resolves the reference.
LEMMA CourseOfReference ==
  ASSUME AssociationInv, [ANext]_allVars,
         actl'.pc \in {"find", "manage", "create", "patch"}, actl'.mode = "sync"
  PROVE  \/ /\ actl.pc \in {"find", "manage", "create", "patch"}
            /\ actl.mode = "sync"
            /\ actl'.spec = actl.spec /\ actl'.rule = actl.rule
         \/ /\ Resolvable(actl.spec) /\ cr' = cr /\ actl'.spec = actl.spec
            /\ actl.spec.ruleRef => actl'.rule = cr.id
<1>a. /\ actl \in AssociationReconciles /\ actl' # AIdle
      /\ acr.phase \in {"live", "deleting", "gone"}
  BY AssociationFacts, AIdleType
<1>1. ~AStart
  BY <1>a DEF AStart, AIdle
<1>2. CASE ResolveReferences
  <2>1. /\ Resolvable(actl.spec) /\ UNCHANGED ruleVars
        /\ actl' = [actl EXCEPT
             !.pc = "find",
             !.rule = IF actl.spec.ruleRef THEN cr.id ELSE actl.spec.ruleId,
             !.vpc = IF actl.spec.vpcRef THEN ReferencedVpc ELSE actl.spec.vpcId]
    BY <1>2, <1>a DEF ResolveReferences, AError
  <2> QED BY <1>a, <2>1 DEF AssociationReconciles, ruleVars
<1>3. CASE FindNoAssociation \/ FindAssociation
  BY <1>3, <1>a DEF FindNoAssociation, FindAssociation, sdkUpdate,
                    AssociationReconciles
<1>4. CASE ManageAssociation \/ CreateAssociation
  BY <1>4, <1>a, AssociationFacts
     DEF ManageAssociation, AError, CreateAssociation, Associates,
         AssociationReconciles, Course
<1>5. CASE DeleteTheAssociation
  BY <1>5, <1>a DEF DeleteTheAssociation, AssociationReconciles
<1>6. CASE actl' = actl
  BY <1>6
<1> QED
  BY <1>a, <1>1, <1>2, <1>3, <1>4, <1>5, <1>6
     DEF ANext, AController, EditAssociation, DeleteAssociation, ApplyRuleAgain,
         VpcSettles, AResync, CreateAssociationLost, ACallRefused, ACallFails,
         AError, PatchAssociationStatus, PatchTerminal, UnmanageAssociation,
         RestartBoth, AFinished, RuleStep, allVars, avars

\* No step but the status patch sets an object aside until the resync period ends.
LEMMA SetAside ==
  ASSUME AssociationInv, [ANext]_allVars, aqueued' = "later", actl'.pc = "idle",
         acr'.phase = "live"
  PROVE  \/ PatchAssociationStatus
         \/ UNCHANGED <<acr, aqueued>> /\ actl.pc = "idle"
<1>1. ASSUME actl.pc # "idle" PROVE aqueued # "later"
  BY <1>1, AssociationFacts DEF Course
<1>2. CASE EditAssociation \/ DeleteAssociation \/ AStart \/ AResync
  BY <1>2 DEF EditAssociation, DeleteAssociation, AStart, AResync
<1>3. ASSUME AError PROVE FALSE
  BY <1>3 DEF AError
<1>4. CASE ResolveReferences \/ FindNoAssociation \/ FindAssociation
           \/ ManageAssociation \/ CreateAssociation \/ CreateAssociationLost
           \/ DeleteTheAssociation \/ UnmanageAssociation \/ PatchTerminal
           \/ ACallRefused \/ ACallFails
  BY <1>1, <1>3, <1>4
     DEF ResolveReferences, FindNoAssociation, FindAssociation,
         ManageAssociation, CreateAssociation, CreateAssociationLost, Associates,
         DeleteTheAssociation, UnmanageAssociation, PatchTerminal, ACallRefused,
         ACallFails
<1>5. CASE RestartBoth
  BY <1>5 DEF RestartBoth, AExists
<1>6. CASE UNCHANGED <<acr, aqueued, actl>>
  BY <1>6
<1> QED
  BY <1>2, <1>4, <1>5, <1>6
     DEF ANext, AController, ApplyRuleAgain, VpcSettles, AFinished, RuleStep,
         allVars, avars

LEMMA ReferenceStep ==
  ASSUME ReferenceInv, [ANext]_allVars
  PROVE  ReferenceInv'
<1>a. RuleInv /\ RuleInv' /\ AssociationInv /\ AssociationInv' /\ KeepsKnown
  BY NextRule, NextTells, AnyStepKeepsKnown DEF ReferenceInv
<1>1. ASSUME actl'.pc \in {"find", "manage", "create", "patch"},
             actl'.mode = "sync", actl'.spec.ruleRef
      PROVE  LedTo(actl.rule)'
  <2>1. CASE /\ actl.pc \in {"find", "manage", "create", "patch"}
             /\ actl.mode = "sync"
             /\ actl'.spec = actl.spec /\ actl'.rule = actl.rule
    <3>1. LedTo(actl.rule)
      BY <1>1, <2>1 DEF ReferenceInv, ReferenceHolds
    <3>2. \A r : LedTo(r) => LedTo(r)'
      BY <1>a, LedToStays
    <3> QED BY <2>1, <3>1, <3>2 DEF LedTo
  <2>2. CASE /\ Resolvable(actl.spec) /\ cr' = cr /\ actl'.spec = actl.spec
             /\ actl.spec.ruleRef => actl'.rule = cr.id
    <3>1. LedTo(cr.id) /\ actl'.rule = cr.id
      BY <1>1, <1>a, <2>2, ReadyLeads DEF Resolvable
    <3>2. \A r : LedTo(r) => LedTo(r)'
      BY <1>a, LedToStays
    <3> QED BY <2>2, <3>1, <3>2 DEF LedTo
  <2> QED BY <1>1, <1>a, <2>1, <2>2, CourseOfReference
<1>2. ASSUME acr'.phase = "live", acr'.synced, ~acr'.terminal,
             aqueued' = "later", actl'.pc = "idle", acr'.spec.ruleRef,
             NEW p \in Places, HasId(p, acr.id)'
      PROVE  LedTo(p[1])'
  <2>0. SUFFICES LedTo(p[1])
    BY <1>a, LedToStays
  <2>1. CASE UNCHANGED <<acr, aqueued>> /\ actl.pc = "idle"
    <3>1. HasId(p, acr.id)
      BY <1>2, <1>a, <2>1 DEF HasId, KeepsKnown
    <3> QED BY <1>2, <2>1, <3>1 DEF ReferenceInv, ReferenceHolds
  <2>2. CASE PatchAssociationStatus
    <3>1. /\ acr'.phase = acr.phase /\ acr'.spec = acr.spec
          /\ AExists => /\ acr'.id = actl.id
                        /\ acr'.synced = (actl.end # "unsynced")
                        /\ acr'.terminal = (actl.end = "terminal")
      <4>1. /\ Conditions(actl.end).synced = (actl.end # "unsynced")
            /\ Conditions(actl.end).terminal = (actl.end = "terminal")
        BY DEF Conditions
      <4> QED BY <1>a, <2>2, <4>1, AssociationFacts
                 DEF PatchAssociationStatus, AssociationObjects
    <3>2. /\ actl.pc = "patch" /\ aqueued # "later" /\ aqueued # "now"
          /\ UNCHANGED <<rules, assocId>>
      BY <1>2, <1>a, <2>2, AssociationFacts
         DEF PatchAssociationStatus, Course, ruleVars
    <3>3. aqueued = "never" /\ actl.mode = "sync"
      BY <1>a, <3>2, AssociationFacts DEF QueueStates, Course
    <3>4. /\ acr'.id = actl.id /\ actl.end = "synced" /\ acr.spec = actl.spec
      BY <1>2, <1>a, <3>1, <3>2, <3>3, AssociationFacts
         DEF AExists, Course, AssociationReconciles
    <3>5. HasId(p, actl.id)
      BY <1>2, <3>2, <3>4 DEF HasId, IdAt
    <3>6. p[1] = actl.rule
      BY <1>a, <3>2, <3>4, <3>5 DEF AssociationInv, Found, Here
    <3> QED BY <1>2, <3>1, <3>2, <3>3, <3>4, <3>6 DEF ReferenceInv, ReferenceHolds
  <2> QED BY <1>2, <1>a, <2>1, <2>2, SetAside
<1>3. ReferenceHolds'
  BY <1>1, <1>2 DEF ReferenceHolds
<1> QED BY <1>a, <1>3 DEF ReferenceInv

LEMMA InitReference == AInit => ReferenceInv
<1> SUFFICES ASSUME AInit PROVE ReferenceInv
  OBVIOUS
<1>1. actl.pc = "idle" /\ acr.synced = FALSE
  BY DEF AInit, AIdle
<1> QED BY <1>1, InitRule, InitTells DEF ReferenceInv, ReferenceHolds

\* The association behind an object that is reported as synced, with no event
\* pending, is the one its spec asks for by name and ids; where the spec refers
\* to other objects it is of the rule that the rule object has by now, although
\* that object may have gone and come back with another rule since the reference
\* was followed, and of the VPC behind the VPC object.  It is complete unless
\* someone removes it (the resolved fields that newResourceDelta compares,
\* IsSynced, and the terminal error of sdkUpdate for all else).
THEOREM SyncedAssociationIsTrue == ASpec => []SyncedAssociationIsHonest
<1>1. ReferenceInv => SyncedAssociationIsHonest
  <2> SUFFICES ASSUME ReferenceInv, acr.phase = "live", acr.synced,
                      ~acr.terminal, aqueued = "later", actl.pc = "idle",
                      acr.id \in LiveAssociations
               PROVE  LET p == PlaceOf(acr.id) IN
                      /\ acr.spec.ruleId \in {NoId, p[1]}
                      /\ acr.spec.vpcId \in {NoVpc, p[2]}
                      /\ acr.spec.name = NameAt(p)
                      /\ acr.spec.ruleRef => Exists /\ cr.id = p[1]
                      /\ acr.spec.vpcRef => p[2] = ReferencedVpc
                      /\ StatusAt(p) \in {"COMPLETE", "DELETING"}
    BY DEF SyncedAssociationIsHonest
  <2> DEFINE p == PlaceOf(acr.id)
  <2>1. acr.id # NoId /\ \E q \in Places : IdAt(q) = acr.id
    BY DEF LiveAssociations
  <2>2. p \in Places /\ HasId(p, acr.id)
    BY <2>1 DEF PlaceOf, HasId
  <2> HIDE DEF p
  <2>3. /\ AsksFor(acr.spec, p[1], p[2]) /\ NameAt(p) = acr.spec.name
        /\ StatusAt(p) \in {"COMPLETE", "DELETING"}
    BY <2>2 DEF ReferenceInv, AssociationInv, HonestObject
  <2>4. ASSUME acr.spec.ruleRef PROVE Exists /\ cr.id = p[1]
    <3>1. LedTo(p[1])
      BY <2>2, <2>4 DEF ReferenceInv, ReferenceHolds
    <3>2. p[1] \in Live
      BY <2>3 DEF StatusAt
    <3> QED BY <3>1, <3>2 DEF LedTo
  <2> QED BY <2>3, <2>4 DEF AsksFor, p
<1> QED BY InitReference, ReferenceStep, <1>1, PTL DEF ASpec
=============================================================================
