--------------------------- MODULE MCQueryLogging ---------------------------
(* Small instances of QueryLogAssociation for TLC. *)
EXTENDS QueryLogAssociation

CONSTANTS env, controllerVersion, prod, test, q1

Tagged(k, v) == [key |-> k, value |-> v]

\* None, one with a value in place of the controller's, one key twice, and tags
\* that lack a key or a value.
SomeTagLists ==
  {<<>>, <<Tagged(env, prod), Tagged(controllerVersion, test)>>,
   <<Tagged(env, prod), Tagged(env, test)>>,
   <<Tagged(NoKey, prod), Tagged(env, NoValue)>>}

Spec2(configRef, configId, vpcRef, vpcId) ==
  [configRef |-> configRef, configId |-> configId,
   vpcRef |-> vpcRef, vpcId |-> vpcId]

\* By reference, by id, and both at once, which is refused.
SomeSpecs ==
  {Spec2(TRUE, NoId, TRUE, NoVpc), Spec2(FALSE, q1, FALSE, Vpc),
   Spec2(TRUE, q1, TRUE, NoVpc)}

\* Three parts: a configuration with everything that can happen to its tags and
\* no association object; and a configuration that its user leaves alone with
\* an association object, when calls fail and the VPC object takes its time, or
\* when others delete configurations and the association is edited or removed.
NoAssociation ==
  /\ acr.phase = "gone" /\ vpcReady /\ aedits = MaxAssociationEdits
  /\ faults = 0 /\ edits = 0 /\ drift = 0

Untouched == acr.phase = "live" /\ cr.tags = <<>> /\ cr.valid /\ edits = MaxEdits

Failures ==
  Untouched /\ ~vpcReady /\ aedits = MaxAssociationEdits
  /\ faults = 0 /\ drift = MaxDrift

Interference ==
  Untouched /\ vpcReady /\ aedits = 0 /\ faults = MaxFaults /\ drift = 0

MCInit == AInit /\ (NoAssociation \/ Failures \/ Interference)

MCSpec ==
  /\ MCInit /\ [][ANext]_allVars
  /\ WF_allVars(AController) /\ WF_allVars(AResync)
  /\ WF_allVars(ConfigStep(Controller)) /\ WF_allVars(ConfigStep(Aws))
  /\ WF_allVars(ConfigStep(Resync))
=============================================================================
