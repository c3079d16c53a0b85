-------------------------- MODULE GateContractsProofs --------------------------
(***************************************************************************)
(* One evaluation, for all documents: a verdict is accepted by every later *)
(* check, and an authorization that is not valid never gets one.           *)
(***************************************************************************)
EXTENDS GateContracts, GateModelProofs

\* A verdict is the evaluation of documents that passed all checks.
VerdictInv ==
    /\ IsGateInput(input)
    /\ verdict # NoVerdict => Checked /\ verdict = Evaluate(run, profile, input, auth)

LEMMA VerdictInvariant == Spec => []VerdictInv
<1>1. Init => VerdictInv
  BY DEF Init, VerdictInv, IsGateInput, Inputs
<1>2. VerdictInv /\ [Next]_vars => VerdictInv'
  <2>. SUFFICES ASSUME VerdictInv, [Next]_vars PROVE VerdictInv'
    OBVIOUS
  <2>1. UNCHANGED <<profile, input, spoiled>>
    BY DEF Next, EvaluateGate, vars
  <2>2. run' = run /\ auth' = auth
    BY <2>1 DEF run, auth
  <2>3. IsGateInput(input)' /\ Checked' = Checked
    BY <2>1, <2>2 DEF VerdictInv, Checked
  <2>4. CASE EvaluateGate
    BY <2>1, <2>2, <2>3, <2>4 DEF EvaluateGate, VerdictInv
  <2>5. CASE UNCHANGED vars
    BY <2>1, <2>2, <2>3, <2>5 DEF vars, VerdictInv
  <2>. QED
    BY <2>4, <2>5 DEF Next
<1>. QED
  BY <1>1, <1>2, PTL DEF Spec

\* The checks of gateCommand imply those of AppendGateLocked and of reconcile.
THEOREM VerdictsAreJournalable == Spec => []VerdictIsJournalable
<1>1. VerdictInv => VerdictIsJournalable
  BY EvaluationIsJournalable DEF VerdictInv, VerdictIsJournalable, Checked
<1>. QED
  BY <1>1, VerdictInvariant, PTL

\* The third branch of noGoReason is never taken: an authorization that is not
\* valid ends the evaluation before there is a verdict to explain.
THEOREM NoGoIsAlwaysExplained == Spec => []NoGoIsExplained
<1>1. VerdictInv => NoGoIsExplained
  <2>. SUFFICES ASSUME VerdictInv, verdict # NoVerdict, verdict.decision = "NO-GO"
                PROVE  noGoReason(verdict) # "eligible, authorization not valid"
    BY DEF NoGoIsExplained
  <2>1. Checked /\ verdict = Evaluate(run, profile, input, auth)
    BY DEF VerdictInv
  <2>2. /\ verdict.allMandatoryPass = AllMandatoryPass(profile, input)
        /\ verdict.operatorAuthorization = auth
        /\ ~(AllMandatoryPass(profile, input) /\ Authorized(run, input, auth))
    BY <2>1 DEF Evaluate, decision
  <2>3. auth # NoAuthorization => Authorized(run, input, auth)
    BY <2>1 DEF Checked, AuthorizationAccepted, Authorized
  <2>4. ~verdict.allMandatoryPass \/ verdict.operatorAuthorization = NoAuthorization
    BY <2>2, <2>3
  <2>. QED
    BY <2>4 DEF noGoReason
<1>. QED
  BY <1>1, VerdictInvariant, PTL

\* The documents are among those the specification starts from.
DocumentsInv ==
    /\ profile \in Profiles
    /\ input \in Inputs
    /\ spoiled \in Flags \cup Anchors \cup {"absent", "nothing"}

LEMMA DocumentsInvariant == Spec => []DocumentsInv
<1>1. Init => DocumentsInv
  BY DEF Init, DocumentsInv
<1>2. DocumentsInv /\ [Next]_vars => DocumentsInv'
  BY DEF DocumentsInv, Next, EvaluateGate, vars
<1>. QED
  BY <1>1, <1>2, PTL DEF Spec

\* A document that is spoiled in one field is refused, whatever the others say.
LEMMA SpoiledIsRefused ==
    ASSUME DocumentsInv, Checked
    PROVE  spoiled \in {"absent", "nothing"}
<1>. SUFFICES ASSUME spoiled \in Flags \cup Anchors PROVE FALSE
  BY DEF DocumentsInv
<1>1. spoiled # "absent" /\ spoiled # "nothing"
  BY DEF Flags, Anchors
<1>2. auth = Spoil(Authorizing(profile, input), spoiled)
  BY <1>1 DEF auth
<1>3. ValidateAuthorization(auth, run, EvidenceDigest(input))
  BY <1>2, SpoiledValues DEF DocumentsInv, Checked, AuthorizationAccepted
<1>4. CASE spoiled \in Flags
  BY <1>2, <1>3, <1>4 DEF ValidateAuthorization, Spoil, Authorizing, Flags
<1>5. CASE spoiled \in Anchors
  <2>1. auth = [Authorizing(profile, input) EXCEPT ![spoiled] = Malformed]
    BY <1>2, <1>5 DEF Spoil, Flags, Anchors
  <2>2. /\ run.runID = RunID
        /\ Malformed \notin {run.profileDigest, run.recoveryCommit,
                             run.checkpointDigest, run.planDigest}
    BY DEF Checked, ValidateRun, IsDigest, run
  <2>3. Malformed \notin {run.runID, EvidenceDigest(input)}
    BY <2>2, SpoiledValues DEF DocumentsInv
  <2>. QED
    BY <1>5, <2>1, <2>2, <2>3, <1>3 DEF ValidateAuthorization, Authorizing, Anchors
<1>. QED
  BY <1>4, <1>5

\* A GO needs each mandatory predicate of the profile observed PASS with
\* evidence and an authorization with nothing spoiled; and one field spoiled
\* means no verdict at all.
THEOREM GoOnlyWhenAuthorized == Spec => []GoExactlyWhenAuthorized
<1>1. VerdictInv /\ DocumentsInv => GoExactlyWhenAuthorized
  <2>. SUFFICES ASSUME VerdictInv, DocumentsInv, verdict # NoVerdict
                PROVE  /\ spoiled \in {"absent", "nothing"}
                       /\ verdict.decision = "GO" <=>
                             /\ spoiled = "nothing"
                             /\ \A i \in DOMAIN profile.mandatoryPredicates :
                                   LET seen == input.predicates[profile.mandatoryPredicates[i]]
                                   IN  seen.status = "PASS" /\ seen.evidence # {}
    BY DEF GoExactlyWhenAuthorized
  <2>1. Checked /\ verdict = Evaluate(run, profile, input, auth)
    BY DEF VerdictInv
  <2>2. spoiled \in {"absent", "nothing"}
    BY <2>1, SpoiledIsRefused
  <2>3. verdict.decision = "GO" <=> AllMandatoryPass(profile, input) /\ Authorized(run, input, auth)
    BY <2>1, GoNeedsAuthorization
  <2>4. Authorized(run, input, auth) <=> spoiled = "nothing"
    <3>1. CASE spoiled = "absent"
      BY <3>1 DEF Authorized, auth
    <3>2. CASE spoiled = "nothing"
      <4>1. auth = Authorizing(profile, input)
        BY <3>2 DEF auth
      <4>2. auth # NoAuthorization
        BY <4>1, SpoiledValues DEF DocumentsInv
      <4>3. ValidateAuthorization(auth, run, EvidenceDigest(input))
        BY <4>1 DEF ValidateAuthorization, Authorizing, run
      <4>. QED
        BY <3>2, <4>2, <4>3 DEF Authorized
    <3>. QED
      BY <2>2, <3>1, <3>2
  <2>5. \A id \in MandatoryIDs(profile) :
           id \in DOMAIN input.predicates /\ input.predicates[id].evidence # {}
    BY <2>1 DEF Checked, ValidateGateInput, ValidObservation
  <2>6. AllMandatoryPass(profile, input) <=>
           \A i \in DOMAIN profile.mandatoryPredicates :
              LET seen == input.predicates[profile.mandatoryPredicates[i]]
              IN  seen.status = "PASS" /\ seen.evidence # {}
    BY <2>5 DEF AllMandatoryPass, Passes, MandatoryIDs
  <2>. QED
    BY <2>2, <2>3, <2>4, <2>6
<1>. QED
  BY <1>1, VerdictInvariant, DocumentsInvariant, PTL
===============================================================================
