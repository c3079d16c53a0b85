---------------------------- MODULE MCRunDirectory ----------------------------
(***************************************************************************)
(* Command lines and documents for TLC: two profiles that share an id, one *)
(* run the operators mean, a second run whose flags arrive late, evidence  *)
(* that passes, fails, is unsafe or is too long for one journal line.      *)
(***************************************************************************)
EXTENDS RunDirectoryLedger, TLC

CONSTANTS Safe, Safe2, Secret, Site, RunA, RunB, Commit, CheckpointA, CheckpointB, Plan

MCText == {Safe, Safe2, Secret}

MCSafeText == {Safe, Safe2}

Profile2 == [schemaVersion |-> 1, id |-> Site, mandatoryPredicates |-> <<"G1", "G2">>]

\* An edit of Profile2 that keeps its id and drops a predicate.
Profile1 == [schemaVersion |-> 1, id |-> Site, mandatoryPredicates |-> <<"G1">>]

Observed(result, texts) == [status |-> result, evidence |-> texts, note |-> NoNote]

Input2(s1, s2) ==
    [schemaVersion |-> 1,
     predicates    |-> [G1 |-> Observed(s1, {Safe}), G2 |-> Observed(s2, {Safe})]]

AllPass == Input2("PASS", "PASS")

OneFails == Input2("PASS", "FAIL")

OnePredicate == [schemaVersion |-> 1, predicates |-> [G1 |-> Observed("PASS", {Safe})]]

WithSecret == [AllPass EXCEPT !.predicates["G2"].evidence = {Secret}]

\* Three evidence strings, one more than ScanLimit.
Long == [AllPass EXCEPT !.predicates["G2"].evidence = {Safe, Safe2}]

Auth(run, checkpoint, input) ==
    [wellFormed                  |-> TRUE,
     pointOfNoReturnAcknowledged |-> TRUE,
     runID                       |-> run,
     profileDigest               |-> Digest(Profile2),
     recoveryCommit              |-> Commit,
     checkpointDigest            |-> checkpoint,
     planDigest                  |-> Plan,
     evidenceDigest              |-> Digest(input)]

EvaluateCall(run, checkpoint, profile, input, auth) ==
    [cmd |-> "evaluate", runID |-> run, recoveryCommit |-> Commit,
     checkpointDigest |-> checkpoint, planDigest |-> Plan,
     profile |-> profile, input |-> input, auth |-> auth]

CallA(input, auth) == EvaluateCall(RunA, CheckpointA, Profile2, input, auth)

GoA == CallA(AllPass, Auth(RunA, CheckpointA, AllPass))

Unauthorized == CallA(AllPass, NoAuthorization)

NotPassing == CallA(OneFails, Auth(RunA, CheckpointA, OneFails))

\* The operator signed the failing evidence; the evidence was then collected anew.
StaleEvidence == CallA(AllPass, Auth(RunA, CheckpointA, OneFails))

\* Authorizations that differ in one anchor from the run they are given for.
ForeignRun == CallA(AllPass, Auth(RunB, CheckpointA, AllPass))

ForeignCheckpoint == CallA(AllPass, Auth(RunA, CheckpointB, AllPass))

NotAcknowledged ==
    CallA(AllPass, [Auth(RunA, CheckpointA, AllPass)
                    EXCEPT !.pointOfNoReturnAcknowledged = FALSE])

GoB == EvaluateCall(RunB, CheckpointB, Profile2, AllPass, Auth(RunB, CheckpointB, AllPass))

OtherProfile == EvaluateCall(RunA, CheckpointA, Profile1, OnePredicate, NoAuthorization)

BadCommit == [Unauthorized EXCEPT !.recoveryCommit = Malformed]

\* Later evaluations of a run need none of the flags that create it.
NoFlags == [NotPassing EXCEPT !.runID = Blank, !.recoveryCommit = Blank,
                              !.checkpointDigest = Blank, !.planDigest = Blank]

UnsafeEvidence == CallA(WithSecret, NoAuthorization)

LongEvidence == CallA(Long, NoAuthorization)

UnreadInput == CallA(Unreadable, NoAuthorization)

Command(name) == [cmd |-> name]

Commands == {Command("reconcile"), Command("status"), Command("report")}

\* Every way a gate evaluation can be accepted or refused.
AllCalls ==
    Commands \cup
    {GoA, Unauthorized, NotPassing, StaleEvidence, ForeignRun, ForeignCheckpoint,
     NotAcknowledged, GoB, OtherProfile, BadCommit, NoFlags, UnsafeEvidence, LongEvidence,
     UnreadInput}

\* For more processes: what appends, what repairs and what reads the result.
RepairCalls == {GoA, NoFlags, Command("reconcile"), Command("report")}

\* For liveness, where processes cannot be exchanged for one another.
LockingCalls == {GoA, BadCommit, Command("reconcile"), Command("status")}

LongLineCalls == {LongEvidence, Command("reconcile")}

ExitCalls == {GoA, StaleEvidence}

Processes == Permutations(Proc)
===============================================================================
