---------------------------- MODULE GateModelProofs ----------------------------
(***************************************************************************)
(* Facts about the contracts and the evaluator, for every profile, input,  *)
(* authorization and run.                                                  *)
(***************************************************************************)
EXTENDS GateModel, TLAPS

\* An input that was accepted for its profile is digested the same when it is
\* rebuilt from the predicates of the report, as reconcile does.
LEMMA RebuiltInput ==
    ASSUME NEW input, NEW profile,
           IsGateInput(input),
           ValidateGateInput(input, profile)
    PROVE  EvidenceDigest(input) =
           EvidenceDigest([schemaVersion |-> SchemaVersion,
                           predicates    |-> input.predicates])
<1>1. input.schemaVersion = SchemaVersion
  BY DEF ValidateGateInput
<1>2. input = [schemaVersion |-> SchemaVersion, predicates |-> input.predicates]
  BY <1>1 DEF IsGateInput
<1>. QED
  BY <1>2

\* What gateCommand checked before an evaluation implies every check that
\* AppendGateLocked and reconcile make of the report: a report is never refused
\* after its run was created.
THEOREM EvaluationIsJournalable ==
    ASSUME NEW run, NEW profile, NEW input, NEW auth,
           IsGateInput(input),
           ValidateGateInput(input, profile),
           AuthorizationAccepted(auth, run, input)
    PROVE  ValidateGateReport(Evaluate(run, profile, input, auth), run)
<1>. DEFINE rep == Evaluate(run, profile, input, auth)
<1>1. BoundTo(rep, run)
  BY DEF BoundTo, Evaluate
<1>2. /\ rep.evidenceDigest = EvidenceDigest(input)
      /\ rep.predicates = input.predicates
      /\ rep.operatorAuthorization = auth
      /\ rep.allMandatoryPass = AllMandatoryPass(profile, input)
      /\ rep.eligible = AllMandatoryPass(profile, input)
      /\ rep.decision =
            decision(AllMandatoryPass(profile, input) /\ Authorized(run, input, auth))
  BY DEF Evaluate
<1>3. rep.evidenceDigest =
         EvidenceDigest([schemaVersion |-> SchemaVersion, predicates |-> rep.predicates])
  BY <1>2, RebuiltInput
<1>4. \A id \in DOMAIN rep.predicates : ValidObservation(rep.predicates[id])
  BY <1>2 DEF ValidateGateInput
<1>5. rep.decision \in Decisions
  BY <1>2 DEF decision, Decisions
<1>6. rep.operatorAuthorization # NoAuthorization =>
         ValidateAuthorization(rep.operatorAuthorization, run, rep.evidenceDigest)
  BY <1>2 DEF AuthorizationAccepted
<1>7. rep.decision = "GO" =>
         AllMandatoryPass(profile, input) /\ Authorized(run, input, auth)
  BY <1>2 DEF decision
<1>8. rep.decision = "GO" =>
         /\ rep.allMandatoryPass
         /\ rep.eligible
         /\ rep.operatorAuthorization # NoAuthorization
  BY <1>2, <1>7 DEF Authorized
<1>. HIDE DEF rep
<1>9. ValidateGateReport(rep, run)
  BY <1>1, <1>3, <1>4, <1>5, <1>6, <1>8 DEF ValidateGateReport
<1>. QED
  BY <1>9 DEF rep

\* A GO is computed exactly when every mandatory predicate is PASS and a valid
\* authorization was given; eligibility alone never is a GO.
THEOREM GoNeedsAuthorization ==
    ASSUME NEW run, NEW profile, NEW input, NEW auth
    PROVE  Evaluate(run, profile, input, auth).decision = "GO" <=>
              AllMandatoryPass(profile, input) /\ Authorized(run, input, auth)
BY DEF Evaluate, decision

\* An authorization that is valid for one run and one evidence is valid for
\* another only if all six anchors are the same.
THEOREM AuthorizationIsBound ==
    ASSUME NEW auth, NEW run1, NEW run2, NEW input1, NEW input2,
           ValidateAuthorization(auth, run1, EvidenceDigest(input1)),
           ValidateAuthorization(auth, run2, EvidenceDigest(input2))
    PROVE  /\ run1.runID = run2.runID
           /\ run1.profileDigest = run2.profileDigest
           /\ run1.recoveryCommit = run2.recoveryCommit
           /\ run1.checkpointDigest = run2.checkpointDigest
           /\ run1.planDigest = run2.planDigest
           /\ input1 = input2
<1>1. EvidenceDigest(input1) = EvidenceDigest(input2)
  BY DEF ValidateAuthorization
<1>2. input1 = input2
  BY <1>1 DEF EvidenceDigest, Digest
<1>. QED
  BY <1>2 DEF ValidateAuthorization
===============================================================================
