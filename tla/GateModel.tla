------------------------------ MODULE GateModel ------------------------------
(***************************************************************************)
(* The contracts of internal/model and the evaluator of internal/gate:     *)
(* what a profile, a gate input, an authorization, a run and a report must *)
(* satisfy, and the report a gate evaluation computes.  Pure operators;    *)
(* RunDirectory.tla says when the program calls them and what it stores.   *)
(*                                                                         *)
(* Data that no check tells apart is left out: timestamps, kinds, display  *)
(* names.  A run and a report carry schema version 1 by construction.      *)
(***************************************************************************)
EXTENDS Naturals, Sequences, FiniteSets

CONSTANTS
    Text,             \* evidence strings
    SafeText,         \* those ValidateSafeEvidence accepts
    ScanLimit,        \* evidence strings that fit one 64 KiB journal line
    Blank,            \* a flag or a field that is absent or only white space
    Malformed,        \* a value that is no digest or commit id
    NoNote,           \* an observation without a note
    NoAuthorization   \* no --authorization was given

ASSUME GateConstants == SafeText \subseteq Text /\ ScanLimit \in Nat

SchemaVersion == 1

Statuses == {"PASS", "FAIL", "BLOCKED", "STALE", "NOT_RUN"}

Decisions == {"GO", "NO-GO"}

\* The two fields of a gate input; the decoder rejects any other.
IsGateInput(input) ==
    input = [schemaVersion |-> input.schemaVersion, predicates |-> input.predicates]

(***************************************************************************)
(* sha256 over the canonical encoding, taken to be free of collisions.     *)
(***************************************************************************)
Digest(value) == <<"sha256", value>>

ProfileDigest(profile) == Digest(profile)

EvidenceDigest(input) == Digest(input)

IsDigest(value) == value \notin {Blank, Malformed}

(***************************************************************************)
(* Validators.                                                             *)
(***************************************************************************)
MandatoryIDs(profile) ==
    {profile.mandatoryPredicates[i] : i \in DOMAIN profile.mandatoryPredicates}

\* A predicate without an id or without a description is written Blank.
ValidateProfile(profile) ==
    /\ profile.schemaVersion = SchemaVersion
    /\ profile.id # Blank
    /\ profile.mandatoryPredicates # <<>>
    /\ Blank \notin MandatoryIDs(profile)
    /\ \A i, j \in DOMAIN profile.mandatoryPredicates :
          profile.mandatoryPredicates[i] = profile.mandatoryPredicates[j] => i = j

ValidateSafeEvidence(text) == text \in SafeText

ValidObservation(observation) ==
    /\ observation.status \in Statuses
    /\ observation.evidence # {}
    /\ \A text \in observation.evidence : ValidateSafeEvidence(text)
    /\ observation.note # NoNote => ValidateSafeEvidence(observation.note)

\* Mutant: the notes of the observations are not looked at.
MutantValidateGateInput(input, profile) ==
    /\ input.schemaVersion = SchemaVersion
    /\ \A id \in MandatoryIDs(profile) :
          /\ id \in DOMAIN input.predicates
          /\ ValidObservation([input.predicates[id] EXCEPT !.note = NoNote])
    /\ DOMAIN input.predicates \subseteq MandatoryIDs(profile)

ValidateGateInput(input, profile) ==
    /\ input.schemaVersion = SchemaVersion
    /\ \A id \in MandatoryIDs(profile) :
          id \in DOMAIN input.predicates /\ ValidObservation(input.predicates[id])
    /\ DOMAIN input.predicates \subseteq MandatoryIDs(profile)

\* Mutant: the authorization is not bound to the evidence it was given for.
MutantValidateAuthorization(auth, run, evidenceDigest) ==
    /\ auth.wellFormed
    /\ auth.pointOfNoReturnAcknowledged
    /\ auth.runID = run.runID
    /\ auth.profileDigest = run.profileDigest
    /\ auth.recoveryCommit = run.recoveryCommit
    /\ auth.checkpointDigest = run.checkpointDigest
    /\ auth.planDigest = run.planDigest

\* "wellFormed" stands for the identity and the RFC 3339 time being acceptable.
ValidateAuthorization(auth, run, evidenceDigest) ==
    /\ auth.wellFormed
    /\ auth.pointOfNoReturnAcknowledged
    /\ auth.runID = run.runID
    /\ auth.profileDigest = run.profileDigest
    /\ auth.recoveryCommit = run.recoveryCommit
    /\ auth.checkpointDigest = run.checkpointDigest
    /\ auth.planDigest = run.planDigest
    /\ auth.evidenceDigest = evidenceDigest

ValidateRun(run) ==
    /\ run.runID # Blank
    /\ run.profileID # Blank
    /\ IsDigest(run.profileDigest)
    /\ IsDigest(run.recoveryCommit)
    /\ IsDigest(run.checkpointDigest)
    /\ IsDigest(run.planDigest)

\* What gateCommand asks of the run, the profile and the authorization of an
\* evaluation before it creates the run or appends to its journal.
ProfileBinds(run, profile) ==
    run.profileID = profile.id /\ run.profileDigest = ProfileDigest(profile)

\* Mutant: an authorization is left to the evaluator to judge.
MutantAuthorizationAccepted(auth, run, input) == TRUE

AuthorizationAccepted(auth, run, input) ==
    auth # NoAuthorization => ValidateAuthorization(auth, run, EvidenceDigest(input))

BoundTo(report, run) ==
    /\ report.runID = run.runID
    /\ report.profileID = run.profileID
    /\ report.profileDigest = run.profileDigest
    /\ report.recoveryCommit = run.recoveryCommit
    /\ report.checkpointDigest = run.checkpointDigest
    /\ report.planDigest = run.planDigest

ValidateGateReport(report, run) ==
    /\ BoundTo(report, run)
    /\ report.evidenceDigest =
          EvidenceDigest([schemaVersion |-> SchemaVersion,
                          predicates    |-> report.predicates])
    /\ \A id \in DOMAIN report.predicates : ValidObservation(report.predicates[id])
    /\ report.decision \in Decisions
    /\ report.operatorAuthorization # NoAuthorization =>
          ValidateAuthorization(report.operatorAuthorization, run, report.evidenceDigest)
    /\ report.decision = "GO" =>
          /\ report.allMandatoryPass
          /\ report.eligible
          /\ report.operatorAuthorization # NoAuthorization

(***************************************************************************)
(* gate.Evaluate.                                                          *)
(***************************************************************************)
\* A predicate the input leaves out reads as the zero observation.
Passes(input, id) ==
    id \in DOMAIN input.predicates /\ input.predicates[id].status = "PASS"

\* Mutant: only the last mandatory predicate counts.
MutantAllMandatoryPass(profile, input) ==
    Passes(input, profile.mandatoryPredicates[Len(profile.mandatoryPredicates)])

AllMandatoryPass(profile, input) ==
    \A id \in MandatoryIDs(profile) : Passes(input, id)

Authorized(run, input, auth) ==
    /\ auth # NoAuthorization
    /\ ValidateAuthorization(auth, run, EvidenceDigest(input))

decision(go) == IF go THEN "GO" ELSE "NO-GO"

Evaluate(run, profile, input, auth) ==
    LET allPass == AllMandatoryPass(profile, input)
    IN  [runID                 |-> run.runID,
         profileID             |-> run.profileID,
         profileDigest         |-> run.profileDigest,
         recoveryCommit        |-> run.recoveryCommit,
         checkpointDigest      |-> run.checkpointDigest,
         planDigest            |-> run.planDigest,
         evidenceDigest        |-> EvidenceDigest(input),
         predicates            |-> input.predicates,
         allMandatoryPass      |-> allPass,
         eligible              |-> allPass,
         decision              |-> decision(allPass /\ Authorized(run, input, auth)),
         operatorAuthorization |-> auth]

\* Why gateCommand says an evaluation is NO-GO.
noGoReason(report) ==
    CASE ~report.allMandatoryPass -> "not eligible"
      [] report.allMandatoryPass /\ report.operatorAuthorization = NoAuthorization ->
            "eligible, no authorization"
      [] OTHER -> "eligible, authorization not valid"

(***************************************************************************)
(* bufio.Scanner gives up on a line longer than 64 KiB.  Each evidence     *)
(* string is bounded, their number is not: a report with more of them than *)
(* ScanLimit makes a line the program writes and cannot read back.         *)
(***************************************************************************)
LineTooLong(report) ==
    Cardinality({x \in (DOMAIN report.predicates) \X Text :
                    x[2] \in report.predicates[x[1]].evidence}) > ScanLimit
==============================================================================
