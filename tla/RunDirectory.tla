----------------------------- MODULE RunDirectory -----------------------------
(***************************************************************************)
(* One run directory (internal/run) and the one-shot rebootstrap processes *)
(* that work on it (gate evaluate, reconcile, status, report in            *)
(* cmd/rebootstrap): the lock file, run.json, the event journal            *)
(* events.ndjson and the three projections.                                *)
(*                                                                         *)
(* A process takes the steps of its command one file operation at a time.  *)
(* It can be interrupted before any of them, by a signal or by an I/O      *)
(* error; the kernel then releases its lock.  Interrupted while it appends *)
(* to the journal, it can leave part of a line (Cuts).  writeAtomic        *)
(* replaces a file by rename, so an interrupted one leaves the old file or *)
(* the new one; the new one is the interruption before the next step.      *)
(* Nothing here loses power: Durability.tla is about what fsync guards.    *)
(***************************************************************************)
EXTENDS GateModel

CONSTANTS
    Proc,          \* the processes, each of which runs one command
    Calls,         \* the command lines and input documents they run with
    Cuts,          \* what an interrupted append leaves: "torn", "unterminated"
    Unreadable,    \* an input file that cannot be opened or parsed
    NoProc, NoRun, NoReport, NoStatus, NoCall, NoDoc, NoExit,
    Reconciled     \* the receipt reconcile prints

Evaluations == {c \in Calls : c.cmd = "evaluate"}

ASSUME CallsAssumption ==
    /\ \A c \in Calls : c.cmd \in {"evaluate", "reconcile", "status", "report"}
    /\ \A c \in Evaluations : c.input # Unreadable => IsGateInput(c.input)
    /\ NoCall \notin Calls

ASSUME AbsentValues == NoProc \notin Proc /\ NoExit \notin 0..2

ASSUME CutsAssumption == Cuts \subseteq {"torn", "unterminated"}

VARIABLES
    runFile,     \* run.json
    journal,     \* the lines of events.ndjson; a missing file is an empty one
    terminated,  \* the journal is empty or ends in a newline
    status,      \* projections/status.json
    gate,        \* projections/gate.json
    report,      \* reports/gate.json
    writer,      \* the process that holds the lock exclusively
    readers,     \* the processes that share it
    pc, call, mem, exit, doc   \* of each process

projections == <<status, gate, report>>
directory == <<runFile, journal, terminated, projections>>
lock == <<writer, readers>>
vars == <<directory, lock, pc, call, mem, exit, doc>>

-----------------------------------------------------------------------------
(***************************************************************************)
(* Values.                                                                 *)
(***************************************************************************)
\* gateCommand reads and checks its inputs one after the other, before it takes
\* the lock.  The first that cannot be read ends it with exit status 2.
Unread(c) ==
    \/ c.profile = Unreadable
    \/ /\ ValidateProfile(c.profile)
       /\ \/ c.input = Unreadable
          \/ ValidateGateInput(c.input, c.profile) /\ c.auth = Unreadable

InputsAccepted(c) ==
    /\ Unreadable \notin {c.profile, c.input, c.auth}
    /\ ValidateProfile(c.profile)
    /\ ValidateGateInput(c.input, c.profile)

Accepted == {c \in Evaluations : InputsAccepted(c)}

\* The run a gate evaluation creates from its flags and its profile.
NewRun(c) ==
    [runID            |-> c.runID,
     profileID        |-> c.profile.id,
     profileDigest    |-> ProfileDigest(c.profile),
     recoveryCommit   |-> c.recoveryCommit,
     checkpointDigest |-> c.checkpointDigest,
     planDigest       |-> c.planDigest]

Runs == {NewRun(c) : c \in Accepted}

ReportOf(c, run) == Evaluate(run, c.profile, c.input, c.auth)

Reports == {ReportOf(c, run) : c \in Accepted, run \in Runs}

ASSUME AbsentDocuments == NoRun \notin Runs /\ NoReport \notin Reports

\* The data of run.created.
Creation(run) == [profileID |-> run.profileID, profileDigest |-> run.profileDigest]

EventTypes == {"run.created", "gate.evaluated"}

\* Mutant: the event carries the profile id where the run id belongs.
MutantEvent(m) ==
    [sequence |-> m.sequence,
     runID    |-> m.run.profileID,
     type     |-> m.type,
     data     |-> IF m.type = "run.created" THEN Creation(m.run) ELSE m.report]

Event(m) ==
    [sequence |-> m.sequence,
     runID    |-> m.run.runID,
     type     |-> m.type,
     data     |-> IF m.type = "run.created" THEN Creation(m.run) ELSE m.report]

\* The status projection.  Both writers of it set eventCount to lastSequence,
\* so the model keeps one of the two.
StatusOf(m) ==
    [runID         |-> m.run.runID,
     profileID     |-> m.run.profileID,
     profileDigest |-> m.run.profileDigest,
     lastSequence  |-> m.sequence,
     lastEventType |-> m.type,
     gateDecision  |-> IF m.report = NoReport THEN "" ELSE m.report.decision,
     gateEligible  |-> m.report # NoReport /\ m.report.eligible]

\* Journal lines that are not one JSON event: the first part of one, and what
\* an append made of an event whose newline was missing.
Torn == [sequence |-> 0, runID |-> Blank, type |-> "torn", data |-> NoReport]

Merged == [Torn EXCEPT !.type = "merged"]

Garbage == {Torn, Merged}

NoMem == [run |-> NoRun, type |-> "", sequence |-> 0,
          report |-> NoReport, status |-> NoStatus]

-----------------------------------------------------------------------------
(***************************************************************************)
(* Reading and writing the journal.                                        *)
(***************************************************************************)
Scannable(line) ==
    /\ line \notin Garbage
    /\ line.type = "gate.evaluated" => ~LineTooLong(line.data)

Readable(lines) == \A i \in DOMAIN lines : Scannable(lines[i])

\* What nextSequence accepts.
Numbered(lines) ==
    Readable(lines) /\ \A i \in DOMAIN lines : lines[i].sequence = i

BindsTo(event, run) ==
    /\ event.runID = run.runID
    /\ \/ event.type = "run.created" /\ event.data = Creation(run)
       \/ event.type = "gate.evaluated" /\ ValidateGateReport(event.data, run)

\* What reconcileLocked accepts.
Replayable(lines, run) ==
    /\ lines # <<>>
    /\ Numbered(lines)
    /\ \A i \in DOMAIN lines : BindsTo(lines[i], run)

GateEvents(lines) == {i \in DOMAIN lines : lines[i].type = "gate.evaluated"}

\* Mutant: the data of the last event, whatever its type.
MutantLatestReport(lines) == lines[Len(lines)].data

\* The report of the last gate.evaluated event.
LatestReport(lines) ==
    IF GateEvents(lines) = {} THEN NoReport
    ELSE lines[CHOOSE i \in GateEvents(lines) :
                  \A j \in GateEvents(lines) : j <= i].data

\* Mutant: reconcile does not keep the report it decoded.
MutantReplayNoReport(lines, run) ==
    [run      |-> run,
     type     |-> lines[Len(lines)].type,
     sequence |-> Len(lines),
     report   |-> NoReport,
     status   |-> NoStatus]

\* Mutant: reconcile counts evaluations where it should count events.
MutantReplayCount(lines, run) ==
    [run      |-> run,
     type     |-> lines[Len(lines)].type,
     sequence |-> Cardinality(GateEvents(lines)),
     report   |-> LatestReport(lines),
     status   |-> NoStatus]

\* What reconcile holds in memory after it has scanned the journal.
Replay(lines, run) ==
    [run      |-> run,
     type     |-> lines[Len(lines)].type,
     sequence |-> Len(lines),
     report   |-> LatestReport(lines),
     status   |-> NoStatus]

\* O_APPEND writes at the end of the file: after an unterminated line, the
\* new bytes become part of that line, which then is no event.
Extended(line) ==
    IF terminated THEN Append(journal, line)
    ELSE [journal EXCEPT ![Len(journal)] = Merged]

-----------------------------------------------------------------------------
(***************************************************************************)
(* Processes and the lock.                                                 *)
(***************************************************************************)
IsWriter(p) == call[p].cmd \in {"evaluate", "reconcile"}

\* Mutant: the exclusive lock outlives the command.
MutantUnlocked(p) == writer' = writer /\ readers' = readers \ {p}

Unlocked(p) == writer' = (IF writer = p THEN NoProc ELSE writer) /\ readers' = readers \ {p}

At(p, label) == pc[p] = label

Goto(p, label) == pc' = [pc EXCEPT ![p] = label]

Ended == {"done", "aborted"}

\* The command fails with exit status "code" and prints no document.
Fail(p, code) ==
    /\ Goto(p, "done")
    /\ exit' = [exit EXCEPT ![p] = code]
    /\ Unlocked(p)
    /\ UNCHANGED <<directory, mem, doc>>

Init ==
    /\ runFile = NoRun
    /\ journal = <<>>
    /\ terminated = TRUE
    /\ status = NoStatus
    /\ gate = NoReport
    /\ report = NoReport
    /\ writer = NoProc
    /\ readers = {}
    /\ pc = [p \in Proc |-> "idle"]
    /\ call = [p \in Proc |-> NoCall]
    /\ mem = [p \in Proc |-> NoMem]
    /\ exit = [p \in Proc |-> NoExit]
    /\ doc = [p \in Proc |-> NoDoc]

Invoke(p, c) ==
    /\ At(p, "idle")
    /\ call' = [call EXCEPT ![p] = c]
    /\ \/ /\ c \in Accepted \/ c \notin Evaluations
          /\ Goto(p, "lock")
          /\ UNCHANGED <<directory, lock, mem, exit, doc>>
       \/ /\ c \in Evaluations \ Accepted
          /\ Fail(p, IF Unread(c) THEN 2 ELSE 1)

\* Mutant: an exclusive holder does not keep the others out.
MutantLock(p) ==
    /\ At(p, "lock")
    /\ \/ IsWriter(p) /\ readers = {} /\ writer' = p /\ readers' = readers
       \/ ~IsWriter(p) /\ readers' = readers \cup {p} /\ writer' = writer
    /\ Goto(p, "load")
    /\ UNCHANGED <<directory, call, mem, exit, doc>>

\* flock: exclusive for gate evaluate and reconcile, shared for the readers.
Lock(p) ==
    /\ At(p, "lock")
    /\ writer = NoProc
    /\ \/ IsWriter(p) /\ readers = {} /\ writer' = p /\ readers' = readers
       \/ ~IsWriter(p) /\ readers' = readers \cup {p} /\ writer' = writer
    /\ Goto(p, "load")
    /\ UNCHANGED <<directory, call, mem, exit, doc>>

-----------------------------------------------------------------------------
(***************************************************************************)
(* gate evaluate.                                                          *)
(***************************************************************************)
\* The run of an evaluation: the one in run.json, else the one it will create.
RunFor(c) == IF runFile = NoRun THEN NewRun(c) ELSE runFile

\* Mutant: the authorization is checked only against a run that exists.
MutantAdmitted(c) ==
    /\ IF runFile = NoRun
       THEN Blank \notin {c.runID, c.recoveryCommit, c.checkpointDigest, c.planDigest}
       ELSE ValidateRun(runFile)
    /\ ProfileBinds(RunFor(c), c.profile)
    /\ runFile # NoRun => AuthorizationAccepted(c.auth, RunFor(c), c.input)

\* The decisions gateCommand takes under the lock before it writes anything.
Admitted(c) ==
    /\ IF runFile = NoRun
       THEN Blank \notin {c.runID, c.recoveryCommit, c.checkpointDigest, c.planDigest}
       ELSE ValidateRun(runFile)
    /\ ProfileBinds(RunFor(c), c.profile)
    /\ AuthorizationAccepted(c.auth, RunFor(c), c.input)

\* What an evaluation appends next: run.created, or its gate report.
Creating(p) ==
    mem' = [mem EXCEPT ![p] = [@ EXCEPT !.run = RunFor(call[p]), !.type = "run.created"]]

Evaluating(p, run) ==
    mem' = [mem EXCEPT ![p] = [@ EXCEPT !.run = run, !.type = "gate.evaluated",
                                        !.report = ReportOf(call[p], run)]]

AdmitEvaluation(p) ==
    /\ At(p, "load")
    /\ call[p].cmd = "evaluate"
    /\ Admitted(call[p])
    /\ \/ runFile = NoRun /\ Creating(p) /\ Goto(p, "create")
       \/ runFile # NoRun /\ Evaluating(p, runFile) /\ Goto(p, "number")
    /\ UNCHANGED <<directory, lock, call, exit, doc>>

RefuseEvaluation(p) ==
    /\ At(p, "load")
    /\ call[p].cmd = "evaluate"
    /\ ~Admitted(call[p])
    /\ Fail(p, 1)
    /\ UNCHANGED call

\* CreateRunLocked up to its append.
Creatable(p) == ValidateRun(mem[p].run) /\ runFile = NoRun

CreateRun(p) ==
    /\ At(p, "create")
    /\ \/ /\ Creatable(p)
          /\ runFile' = mem[p].run
          /\ Goto(p, "number")
          /\ UNCHANGED <<journal, terminated, projections, lock, call, mem, exit, doc>>
       \/ ~Creatable(p) /\ Fail(p, 1) /\ UNCHANGED call

\* Mutant: the append takes the next number without reading the lines.
MutantAppendable(m) ==
    m.type = "gate.evaluated" => ValidateRun(m.run) /\ ValidateGateReport(m.report, m.run)

\* AppendGateLocked validates the run and its report again; both appends then
\* number the event by reading the whole journal.
Appendable(m) ==
    /\ m.type = "gate.evaluated" => ValidateRun(m.run) /\ ValidateGateReport(m.report, m.run)
    /\ Numbered(journal)

NumberEvent(p) ==
    /\ At(p, "number")
    /\ \/ /\ Appendable(mem[p])
          /\ mem' = [mem EXCEPT ![p] = [@ EXCEPT !.sequence = Len(journal) + 1]]
          /\ Goto(p, "append")
          /\ UNCHANGED <<directory, lock, call, exit, doc>>
       \/ ~Appendable(mem[p]) /\ Fail(p, 1) /\ UNCHANGED call

AppendEvent(p) ==
    /\ At(p, "append")
    /\ journal' = Extended(Event(mem[p]))
    /\ terminated' = TRUE
    /\ Goto(p, "status")
    /\ UNCHANGED <<runFile, projections, lock, call, mem, exit, doc>>

-----------------------------------------------------------------------------
(***************************************************************************)
(* The projections, written in the same order by gate evaluate and by      *)
(* reconcile.                                                              *)
(***************************************************************************)
\* Mutant: the gate projection is forgotten.
MutantWriteStatus(p) ==
    /\ At(p, "status")
    /\ status' = StatusOf(mem[p])
    /\ \/ /\ call[p].cmd = "evaluate"
          /\ mem[p].type = "run.created"
          /\ Evaluating(p, mem[p].run)
          /\ Goto(p, "number")
       \/ /\ call[p].cmd = "reconcile" \/ mem[p].type = "gate.evaluated"
          /\ Goto(p, "report")
          /\ UNCHANGED mem
    /\ UNCHANGED <<runFile, journal, terminated, gate, report, lock, call, exit, doc>>

WriteStatus(p) ==
    /\ At(p, "status")
    /\ status' = StatusOf(mem[p])
    /\ \/ /\ call[p].cmd = "evaluate"
          /\ mem[p].type = "run.created"
          /\ Evaluating(p, mem[p].run)
          /\ Goto(p, "number")
       \/ /\ call[p].cmd = "reconcile" \/ mem[p].type = "gate.evaluated"
          /\ Goto(p, "gate")
          /\ UNCHANGED mem
    /\ UNCHANGED <<runFile, journal, terminated, gate, report, lock, call, exit, doc>>

\* reconcile removes the two report files when the journal has no gate event.
WriteGate(p) ==
    /\ At(p, "gate")
    /\ gate' = mem[p].report
    /\ Goto(p, "report")
    /\ UNCHANGED <<runFile, journal, terminated, status, report, lock, call, mem, exit, doc>>

\* Mutant: a report that is there is not replaced.
MutantWriteReport(p) ==
    /\ At(p, "report")
    /\ report' = IF report = NoReport THEN mem[p].report ELSE report
    /\ Goto(p, "answer")
    /\ Unlocked(p)
    /\ UNCHANGED <<runFile, journal, terminated, status, gate, call, mem, exit, doc>>

WriteReport(p) ==
    /\ At(p, "report")
    /\ report' = mem[p].report
    /\ Goto(p, "answer")
    /\ Unlocked(p)
    /\ UNCHANGED <<runFile, journal, terminated, status, gate, call, mem, exit, doc>>

-----------------------------------------------------------------------------
(***************************************************************************)
(* reconcile, status, report and the answer of every command.              *)
(***************************************************************************)
Reconcilable == runFile # NoRun /\ ValidateRun(runFile) /\ Replayable(journal, runFile)

ReplayJournal(p) ==
    /\ At(p, "load")
    /\ call[p].cmd = "reconcile"
    /\ \/ /\ Reconcilable
          /\ mem' = [mem EXCEPT ![p] = Replay(journal, runFile)]
          /\ Goto(p, "status")
          /\ UNCHANGED <<directory, lock, call, exit, doc>>
       \/ ~Reconcilable /\ Fail(p, 1) /\ UNCHANGED call

Found(p) == IF call[p].cmd = "status" THEN status # NoStatus ELSE report # NoReport

ReadProjection(p) ==
    /\ At(p, "load")
    /\ call[p].cmd \in {"status", "report"}
    /\ \/ /\ Found(p)
          /\ mem' = [mem EXCEPT ![p] = IF call[p].cmd = "status"
                                       THEN [@ EXCEPT !.status = status]
                                       ELSE [@ EXCEPT !.report = report]]
          /\ Goto(p, "answer")
          /\ Unlocked(p)
          /\ UNCHANGED <<directory, call, exit, doc>>
       \/ ~Found(p) /\ Fail(p, 1) /\ UNCHANGED call

Document(p) ==
    CASE call[p].cmd = "status"    -> mem[p].status
      [] call[p].cmd = "reconcile" -> Reconciled
      [] OTHER                     -> mem[p].report

NoGo(p) == call[p].cmd = "evaluate" /\ mem[p].report.decision # "GO"

\* The document goes to standard output after the lock is released.
Answer(p) ==
    /\ At(p, "answer")
    /\ doc' = [doc EXCEPT ![p] = Document(p)]
    /\ exit' = [exit EXCEPT ![p] = IF NoGo(p) THEN 1 ELSE 0]
    /\ Goto(p, "done")
    /\ UNCHANGED <<directory, lock, call, mem>>

-----------------------------------------------------------------------------
\* A signal or an I/O error ends the process.  Only an interrupted append
\* leaves something of its own.
CutAppend(p) ==
    /\ At(p, "append")
    /\ \/ "torn" \in Cuts /\ journal' = Extended(Torn)
       \/ "unterminated" \in Cuts /\ journal' = Extended(Event(mem[p]))
    /\ terminated' = FALSE
    /\ UNCHANGED <<runFile, projections>>

\* Mutant: the append goes on after a write that failed.
MutantInterrupt(p) ==
    /\ pc[p] \notin Ended \cup {"idle"}
    /\ UNCHANGED <<directory, call, mem, exit, doc>>
    /\ \/ At(p, "append") /\ Goto(p, "status") /\ UNCHANGED lock
       \/ Goto(p, "aborted") /\ Unlocked(p)

Interrupt(p) ==
    /\ pc[p] \notin Ended \cup {"idle"}
    /\ UNCHANGED directory \/ CutAppend(p)
    /\ Goto(p, "aborted")
    /\ Unlocked(p)
    /\ UNCHANGED <<call, mem, exit, doc>>

Step(p) ==
    \/ Lock(p)
    \/ AdmitEvaluation(p)
    \/ RefuseEvaluation(p)
    \/ CreateRun(p)
    \/ NumberEvent(p)
    \/ AppendEvent(p)
    \/ WriteStatus(p)
    \/ WriteGate(p)
    \/ WriteReport(p)
    \/ ReplayJournal(p)
    \/ ReadProjection(p)
    \/ Answer(p)

Terminating == (\A p \in Proc : pc[p] \in Ended) /\ UNCHANGED vars

Next ==
    \/ \E p \in Proc : Step(p) \/ Interrupt(p) \/ \E c \in Calls : Invoke(p, c)
    \/ Terminating

\* A process that was started takes its next step unless it is interrupted.
Fairness == \A p \in Proc : WF_vars(Step(p))

Spec == Init /\ [][Next]_vars

FairSpec == Spec /\ Fairness
===============================================================================
