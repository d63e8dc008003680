-------------------------- MODULE MCRuleAssociation --------------------------
(* Small instances of RuleAssociation for TLC. *)
EXTENDS RuleAssociation, TLC

CONSTANTS r1, v1, n1, m1

OneConfig == {[name |-> n1, port |-> 1]}

Spec2(name, ruleRef, ruleId, vpcRef, vpcId) ==
  [name |-> name, ruleRef |-> ruleRef, ruleId |-> ruleId,
   vpcRef |-> vpcRef, vpcId |-> vpcId]

\* By reference, by id, by id and with a name, and both at once, which is refused.
SomeSpecs ==
  {Spec2(NoName, TRUE, NoId, TRUE, NoVpc), Spec2(NoName, FALSE, r1, FALSE, v1),
   Spec2(m1, FALSE, r1, FALSE, v1), Spec2(NoName, TRUE, r1, TRUE, NoVpc)}

ByReference == {Spec2(NoName, TRUE, NoId, TRUE, NoVpc)}

\* A failure and an edit, or a rule deleted by others.
MCNext == ANext /\ (drift' = 0 \/ faults' + edits' = 0)

MCSpec ==
  /\ AInit /\ [][MCNext]_allVars
  /\ WF_allVars(AController) /\ WF_allVars(AResync)
  /\ WF_allVars(RuleStep(Controller)) /\ WF_allVars(RuleStep(Aws))
  /\ WF_allVars(RuleStep(Resync))
=============================================================================
