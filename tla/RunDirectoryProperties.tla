------------------------ MODULE RunDirectoryProperties ------------------------
(***************************************************************************)
(* What RunDirectory promises: to the process that reads a projection, to  *)
(* the operator who got a verdict, and to the reconcile that comes after a *)
(* process was interrupted.                                                *)
(***************************************************************************)
EXTENDS RunDirectory

Working == {"load", "create", "number", "append", "status", "gate", "report"}

\* The values a status projection and a journal line can have.
StatusDocuments ==
    [runID : {r.runID : r \in Runs}, profileID : {r.profileID : r \in Runs},
     profileDigest : {r.profileDigest : r \in Runs}, lastSequence : Nat,
     lastEventType : EventTypes, gateDecision : Decisions \cup {""},
     gateEligible : BOOLEAN]

Lines ==
    [sequence : Nat, runID : {r.runID : r \in Runs}, type : EventTypes,
     data : {Creation(r) : r \in Runs} \cup Reports] \cup Garbage

Mems ==
    [run : Runs \cup {NoRun}, type : EventTypes \cup {""}, sequence : Nat,
     report : Reports \cup {NoReport}, status : StatusDocuments \cup {NoStatus}]

\* Every file holds a document of its kind or is absent, and every process is
\* at a step of its command with the documents that step needs.
TypeOK ==
    /\ runFile \in Runs \cup {NoRun}
    /\ journal \in Seq(Lines)
    /\ terminated \in BOOLEAN
    /\ status \in StatusDocuments \cup {NoStatus}
    /\ gate \in Reports \cup {NoReport}
    /\ report \in Reports \cup {NoReport}
    /\ writer \in Proc \cup {NoProc}
    /\ readers \subseteq Proc
    /\ pc \in [Proc -> Working \cup Ended \cup {"idle", "lock", "answer"}]
    /\ call \in [Proc -> Calls \cup {NoCall}]
    /\ mem \in [Proc -> Mems]
    /\ exit \in [Proc -> {0, 1, 2, NoExit}]
    /\ doc \in [Proc -> StatusDocuments \cup Reports \cup {Reconciled, NoDoc}]

-----------------------------------------------------------------------------
(***************************************************************************)
(* The journal.                                                            *)
(***************************************************************************)
IsEvaluation(p) == call[p] \in Evaluations

\* A directory never has two writers inside it, nor a writer and a reader:
\* WithLock's promise of a single-writer run directory.
SingleWriter ==
    \A p, q \in Proc :
        pc[p] \in Working /\ pc[q] \in Working /\ p # q => ~IsWriter(p)

\* The lock never outlives the work it protects: whoever holds it is inside,
\* in the mode it asked for, so a command that failed, ended or was interrupted
\* leaves the directory to the next one.
LockIsHeldForWork ==
    /\ writer # NoProc => pc[writer] \in Working /\ IsWriter(writer)
    /\ \A p \in readers : pc[p] \in Working /\ ~IsWriter(p)

\* However evaluations interleave and wherever they are interrupted, line i of
\* the journal is event i of the run in run.json and passes the checks of
\* reconcile; run.created is nothing but event 1; only the last line can be
\* damaged.
JournalSound ==
    /\ journal # <<>> => runFile # NoRun /\ ValidateRun(runFile)
    /\ \A i \in DOMAIN journal :
          \/ journal[i] \in Garbage /\ i = Len(journal)
          \/ /\ journal[i].sequence = i
             /\ BindsTo(journal[i], runFile)
             /\ journal[i].type = "run.created" => i = 1

\* The events of the journal, without a last line that is damaged.
Events ==
    IF journal # <<>> /\ journal[Len(journal)] \in Garbage
    THEN SubSeq(journal, 1, Len(journal) - 1) ELSE journal

\* An append after a line that lost its newline destroys the event of that
\* line.  Some properties are only about the other journals, torn ones included.
NothingMerged == \A i \in DOMAIN journal : journal[i] # Merged

-----------------------------------------------------------------------------
(***************************************************************************)
(* The projections.                                                        *)
(***************************************************************************)
Prefix(n) == SubSeq(Events, 1, n)

StatusAfter(n) == IF n = 0 THEN NoStatus ELSE StatusOf(Replay(Prefix(n), runFile))

ReportAfter(n) == LatestReport(Prefix(n))

\* Events are appended before projections are replaced: each projection is
\* the replay of a prefix of the journal, and a projection that is written
\* later than another is never ahead of it.
ProjectionsFollowJournal ==
    NothingMerged =>
        \E s \in 0..Len(Events) : \E g \in 0..s : \E r \in 0..g :
            /\ status = StatusAfter(s)
            /\ gate = ReportAfter(g)
            /\ report = ReportAfter(r)

Settled ==
    /\ status = StatusAfter(Len(Events))
    /\ gate = ReportAfter(Len(Events))
    /\ report = ReportAfter(Len(Events))

\* A gate evaluate or a reconcile that gets to its end leaves all three
\* projections equal to the replay of the whole journal, whatever interrupted
\* processes left behind before it.
SuccessSettles ==
    [][\A p \in Proc :
          At(p, "report") /\ pc'[p] = "answer" => (NothingMerged => Settled)']_vars

\* The status projection never goes back to an earlier event, disappears or
\* changes the run and the profile it names.
StatusMonotone ==
    [][status # NoStatus =>
          /\ status' # NoStatus
          /\ status'.lastSequence >= status.lastSequence
          /\ status'.runID = status.runID
          /\ status'.profileDigest = status.profileDigest]_vars

\* reconcile refuses a directory only when there is no run in it, no event in
\* its journal, or a line that cannot be read: whatever gate evaluate wrote,
\* reconcile accepts.
Damaged == runFile = NoRun \/ journal = <<>> \/ ~Readable(journal)

ReconcileRefusesOnlyDamage ==
    [][\A p \in Proc :
          /\ At(p, "load") /\ call[p].cmd = "reconcile"
          /\ pc'[p] = "done"
          => Damaged]_vars

-----------------------------------------------------------------------------
(***************************************************************************)
(* Verdicts.                                                               *)
(***************************************************************************)
\* What a GO means: the profile the run is bound to has all its predicates
\* PASS in the recorded evidence, and an operator acknowledged the point of no
\* return for this run, these anchors and exactly this evidence.
Justified(verdict) ==
    /\ \E c \in Accepted :
          /\ runFile.profileDigest = ProfileDigest(c.profile)
          /\ \A id \in MandatoryIDs(c.profile) : Passes(verdict, id)
    /\ LET auth == verdict.operatorAuthorization
       IN  /\ auth # NoAuthorization
           /\ auth.pointOfNoReturnAcknowledged
           /\ <<auth.runID, auth.profileDigest, auth.recoveryCommit,
                auth.checkpointDigest, auth.planDigest>> =
              <<runFile.runID, runFile.profileDigest, runFile.recoveryCommit,
                runFile.checkpointDigest, runFile.planDigest>>
           /\ auth.evidenceDigest =
                 Digest([schemaVersion |-> SchemaVersion, predicates |-> verdict.predicates])

Verdicts ==
    {journal[i].data : i \in GateEvents(journal)}
    \cup ({gate, report} \ {NoReport})
    \cup {doc[p] : p \in {q \in Proc : doc[q] # NoDoc
                                       /\ call[q].cmd \in {"evaluate", "report"}}}

\* Every GO in the journal, in a projection or on standard output, and every
\* gate evaluate that exits 0, is justified by the run as it was bound, even
\* when the run was created by another process with other flags.
GoIsJustified ==
    /\ \A verdict \in Verdicts : verdict.decision = "GO" => Justified(verdict)
    /\ \A p \in Proc : IsEvaluation(p) /\ exit[p] = 0 => doc[p].decision = "GO"

Journaled(verdict) == \E i \in GateEvents(Events) : Events[i].data = verdict

\* What a process printed is in the journal: the verdict of gate evaluate, the
\* report that report shows, and the state that status shows as the replay of
\* a prefix.  A verdict that was not recorded is never shown.
AnswersComeFromJournal ==
    NothingMerged =>
        \A p \in Proc :
            doc[p] # NoDoc =>
                CASE call[p].cmd = "status" ->
                        \E n \in 1..Len(Events) : doc[p] = StatusAfter(n)
                  [] call[p].cmd = "reconcile" -> Events # <<>>
                  [] OTHER -> Journaled(doc[p])

\* Once gate evaluate has printed its verdict, the projections are and remain
\* at that event or a later one, also while later processes are interrupted.
VerdictStaysVisible ==
    \A p \in Proc :
        IsEvaluation(p) /\ doc[p] # NoDoc =>
            /\ status # NoStatus /\ status.lastSequence >= mem[p].sequence
            /\ NothingMerged =>
                 \E i \in GateEvents(Events) :
                     i >= mem[p].sequence /\ report = Events[i].data

\* A run exists only because an evaluation created it whose inputs were all
\* accepted: an authorization for another run, profile, commit, checkpoint or
\* plan, for other evidence or without an acknowledgement is rejected before a
\* run is created.
RunCreatedByAcceptedEvaluation ==
    runFile # NoRun =>
        \E p \in Proc :
            /\ IsEvaluation(p)
            /\ runFile = NewRun(call[p])
            /\ InputsAccepted(call[p])
            /\ AuthorizationAccepted(call[p].auth, runFile, call[p].input)

\* Every command that was started ends: flock is granted in the end because
\* every holder of the lock ends or is interrupted.
EveryInvocationEnds == \A p \in Proc : At(p, "lock") ~> pc[p] \in Ended

-----------------------------------------------------------------------------
(***************************************************************************)
(* What the documentation says and the code does not do.                   *)
(***************************************************************************)
\* README.md:193: reconcile replays the durable journal to repair projections
\* after an interrupted write.
ReconcileRepairs ==
    [][\A p \in Proc :
          /\ At(p, "load") /\ call[p].cmd = "reconcile" /\ pc'[p] = "done"
          => runFile = NoRun \/ Events = <<>>]_vars

\* README.md:193 again, where no process was ever interrupted: reconcile
\* replays the journal that completed commands wrote.
ReconcileAcceptsCompletedWork ==
    [][\A p \in Proc :
          /\ At(p, "load") /\ call[p].cmd = "reconcile" /\ pc'[p] = "done"
          /\ \A q \in Proc : pc[q] # "aborted"
          => runFile = NoRun \/ Events = <<>>]_vars

\* README.md:12: the event journal is append-only; so a verdict that gate
\* evaluate printed is an event of the journal from then on.
NoVerdictIsLost ==
    \A p \in Proc : IsEvaluation(p) /\ doc[p] # NoDoc => Journaled(doc[p])
===============================================================================
