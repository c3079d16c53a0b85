----------------------------- MODULE GateContracts -----------------------------
(***************************************************************************)
(* One gate evaluation as a function of its documents: the checks of       *)
(* gateCommand in their order, then Evaluate.  The documents range over    *)
(* everything a decoder can deliver, valid or not; an authorization is the *)
(* one that fits the run and the evidence, with at most one field spoiled. *)
(***************************************************************************)
EXTENDS GateModel

CONSTANTS
    Profiles, Predicates,   \* the profile documents, the maps of observations
    SchemaVersions,
    RunID, RunCommit, RunCheckpoint, RunPlan,
    NoVerdict

Inputs == [schemaVersion : SchemaVersions, predicates : Predicates]

VARIABLES profile, input, spoiled, verdict

vars == <<profile, input, spoiled, verdict>>

run ==
    [runID            |-> RunID,
     profileID        |-> profile.id,
     profileDigest    |-> ProfileDigest(profile),
     recoveryCommit   |-> RunCommit,
     checkpointDigest |-> RunCheckpoint,
     planDigest       |-> RunPlan]

\* An authorization of an operator who has seen this profile and this evidence.
Authorizing(seenProfile, seenInput) ==
    [wellFormed                  |-> TRUE,
     pointOfNoReturnAcknowledged |-> TRUE,
     runID                       |-> RunID,
     profileDigest               |-> ProfileDigest(seenProfile),
     recoveryCommit              |-> RunCommit,
     checkpointDigest            |-> RunCheckpoint,
     planDigest                  |-> RunPlan,
     evidenceDigest              |-> EvidenceDigest(seenInput)]

Flags == {"wellFormed", "pointOfNoReturnAcknowledged"}

Anchors ==
    {"runID", "profileDigest", "recoveryCommit", "checkpointDigest", "planDigest",
     "evidenceDigest"}

Spoil(document, field) ==
    [document EXCEPT ![field] = IF field \in Flags THEN FALSE ELSE Malformed]

\* What is malformed or absent is no digest, no run id and no authorization.
ASSUME SpoiledValues ==
    /\ Malformed # RunID
    /\ \A seen \in Inputs : EvidenceDigest(seen) # Malformed
    /\ \A p \in Profiles, seen \in Inputs :
          /\ Authorizing(p, seen) # NoAuthorization
          /\ \A field \in Flags \cup Anchors :
                Spoil(Authorizing(p, seen), field) # NoAuthorization

auth ==
    CASE spoiled = "absent"  -> NoAuthorization
      [] spoiled = "nothing" -> Authorizing(profile, input)
      [] OTHER               -> Spoil(Authorizing(profile, input), spoiled)

Init ==
    /\ profile \in Profiles
    /\ input \in Inputs
    /\ spoiled \in Flags \cup Anchors \cup {"absent", "nothing"}
    /\ verdict = NoVerdict

Checked ==
    /\ ValidateProfile(profile)
    /\ ValidateGateInput(input, profile)
    /\ ProfileBinds(run, profile)
    /\ AuthorizationAccepted(auth, run, input)
    /\ ValidateRun(run)

EvaluateGate ==
    /\ verdict = NoVerdict
    /\ Checked
    /\ verdict' = Evaluate(run, profile, input, auth)
    /\ UNCHANGED <<profile, input, spoiled>>

Next == EvaluateGate

Spec == Init /\ [][Next]_vars

-----------------------------------------------------------------------------
\* Evaluate never produces a report that AppendGateLocked or a later reconcile
\* would reject: the checks before the evaluation imply those of the report.
VerdictIsJournalable == verdict # NoVerdict => ValidateGateReport(verdict, run)

\* GO means that every mandatory predicate was observed PASS with evidence and
\* that an authorization fits in every field; a document with one field
\* spoiled gets no verdict at all, not even a NO-GO.
GoExactlyWhenAuthorized ==
    verdict # NoVerdict =>
        /\ spoiled \in {"absent", "nothing"}
        /\ verdict.decision = "GO" <=>
              /\ spoiled = "nothing"
              /\ \A i \in DOMAIN profile.mandatoryPredicates :
                    LET seen == input.predicates[profile.mandatoryPredicates[i]]
                    IN  seen.status = "PASS" /\ seen.evidence # {}

\* The reason printed for a NO-GO is one of the two that can be true: an
\* evaluation with an authorization that is not valid ends before a verdict.
NoGoIsExplained ==
    verdict # NoVerdict /\ verdict.decision = "NO-GO" =>
        noGoReason(verdict) # "eligible, authorization not valid"
===============================================================================
