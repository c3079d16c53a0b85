------------------------- MODULE RunDirectoryInvariant -------------------------
(***************************************************************************)
(* The inductive invariant behind the safety theorems of                   *)
(* RunDirectoryProofs: who holds the lock, what each process has in memory *)
(* at each step, what the journal looks like, and where every report in    *)
(* the system comes from.                                                  *)
(***************************************************************************)
EXTENDS RunDirectoryProperties

ASSUME AbsentStatus == NoStatus \notin StatusDocuments

\* The lock protects the steps between "load" and the last projection.
LockInv ==
    /\ \A p \in Proc : pc[p] \in Working =>
          IF IsWriter(p) THEN writer = p ELSE p \in readers
    /\ writer # NoProc => readers = {}

\* The evaluation c may go on for this run.
Admits(c, run) ==
    ProfileBinds(run, c.profile) /\ AuthorizationAccepted(c.auth, run, c.input)

\* Steps at which a process works on the run in run.json.
OnRun == {"number", "append", "status", "gate", "report"}

PhaseInv(p) ==
    LET c == call[p]
        m == mem[p]
    IN  /\ pc[p] = "idle" => doc[p] = NoDoc /\ exit[p] = NoExit
        /\ pc[p] # "idle" => c \in Calls
        /\ pc[p] \notin {"idle", "done"} /\ c.cmd = "evaluate" => c \in Accepted
        /\ pc[p] = "create" =>
              /\ c.cmd = "evaluate" /\ Admits(c, NewRun(c))
              /\ m.run = NewRun(c) /\ m.type = "run.created" /\ m.report = NoReport
        /\ pc[p] \in {"number", "append"} => c.cmd = "evaluate"
        /\ pc[p] \in OnRun =>
              /\ IsWriter(p)
              /\ runFile # NoRun /\ m.run = runFile
              /\ m.type \in EventTypes
        /\ pc[p] \in OnRun /\ c.cmd = "evaluate" =>
              /\ Admits(c, runFile)
              /\ m.report = IF m.type = "run.created" THEN NoReport
                                                      ELSE ReportOf(c, runFile)
        /\ pc[p] \in {"number", "append"} /\ m.type = "run.created" => journal = <<>>
        /\ pc[p] = "append" => m.sequence = Len(journal) + 1 /\ Numbered(journal)
        /\ pc[p] \in {"gate", "report"} /\ c.cmd = "evaluate" => m.type = "gate.evaluated"
        /\ pc[p] = "answer" /\ c.cmd = "status" => m.status # NoStatus
        /\ pc[p] = "answer" /\ c.cmd \in {"evaluate", "report"} => m.report # NoReport
        /\ exit[p] = 0 /\ c.cmd = "evaluate" => doc[p].decision = "GO"

JournalInv ==
    /\ runFile = NoRun => journal = <<>>
    /\ runFile # NoRun => ValidateRun(runFile)
    /\ journal = <<>> => terminated
    /\ JournalSound

\* A verdict of an accepted evaluation that was admitted to the run.
Sound(verdict) ==
    /\ runFile # NoRun
    /\ \E c \in Accepted : Admits(c, runFile) /\ verdict = ReportOf(c, runFile)

VerdictInv ==
    /\ gate # NoReport => Sound(gate)
    /\ report # NoReport => Sound(report)
    /\ \A i \in GateEvents(journal) : Sound(journal[i].data)
    /\ \A p \in Proc :
          /\ mem[p].report # NoReport => Sound(mem[p].report)
          /\ doc[p] # NoDoc /\ call[p].cmd \in {"evaluate", "report"} => Sound(doc[p])

\* The invariant: each part is preserved only with the help of the others.
IInv ==
    /\ TypeOK
    /\ LockInv
    /\ \A p \in Proc : PhaseInv(p)
    /\ JournalInv
    /\ VerdictInv

-----------------------------------------------------------------------------
(***************************************************************************)
(* What more it takes for single properties.                               *)
(***************************************************************************)
\* p created the run in run.json from its flags, after it was admitted to it.
Creator(p) ==
    /\ pc[p] # "idle"
    /\ call[p] \in Accepted
    /\ Admits(call[p], NewRun(call[p]))
    /\ runFile = NewRun(call[p])

CreatorInv == runFile # NoRun => \E p \in Proc : Creator(p)

\* The status is behind the journal and behind what a writer is about to make
\* of it, except where a merged or unreadable line lets nobody write any more.
StatusInv ==
    /\ status # NoStatus =>
          /\ runFile # NoRun
          /\ status.runID = runFile.runID /\ status.profileDigest = runFile.profileDigest
          /\ Numbered(journal) => status.lastSequence <= Len(journal)
    /\ \A p \in Proc :
          pc[p] = "status" =>
             /\ status # NoStatus => status.lastSequence <= mem[p].sequence
             /\ Numbered(journal) => mem[p].sequence <= Len(journal)

\* p is about to print, or has printed, the verdict of a gate evaluate.
Answered(p) == (pc[p] = "answer" \/ doc[p] # NoDoc) /\ call[p].cmd = "evaluate"

\* A writer that is past its append holds the replay of the whole journal,
\* and the projections it has written so far show it.
HoldsReplay(p) ==
    LET n == Len(Events)
        m == mem[p]
    IN  /\ pc[p] \in {"status", "gate", "report"} =>
              /\ n > 0
              /\ m.type = Events[n].type /\ m.sequence = n /\ m.report = ReportAfter(n)
        /\ pc[p] \in {"gate", "report"} => status = StatusAfter(n)
        /\ pc[p] = "report" => gate = ReportAfter(n)

\* What a process is about to print or has printed is the replay of a prefix.
TellsReplay(p) ==
    /\ pc[p] = "answer" /\ call[p].cmd = "status" =>
          \E n \in 1..Len(Events) : mem[p].status = StatusAfter(n)
    /\ doc[p] # NoDoc /\ call[p].cmd = "status" =>
          \E n \in 1..Len(Events) : doc[p] = StatusAfter(n)
    /\ (pc[p] = "answer" \/ doc[p] # NoDoc) /\ call[p].cmd = "reconcile" => Events # <<>>
    /\ Answered(p) => mem[p].sequence \in GateEvents(Events)

\* The projections are the replays of s, g and r events, in the order in which
\* they are written, and the last of them has passed every answered verdict.
ReplaysOf(s, g, r) ==
    /\ s \in 0..Len(Events) /\ g \in 0..s /\ r \in 0..g
    /\ status = StatusAfter(s) /\ gate = ReportAfter(g) /\ report = ReportAfter(r)
    /\ \A p \in Proc : Answered(p) => mem[p].sequence <= r

Replayed ==
    /\ \E s \in 0..Len(Events) : \E g \in 0..s : \E r \in 0..g : ReplaysOf(s, g, r)
    /\ \A p \in Proc : HoldsReplay(p) /\ TellsReplay(p)

ReplayInv == NothingMerged => Replayed

\* The status has reached the event of a verdict before the verdict is shown.
ReachedInv ==
    \A p \in Proc :
        /\ pc[p] \in {"gate", "report", "answer"} \/ doc[p] # NoDoc
        /\ call[p].cmd = "evaluate"
        => status # NoStatus /\ status.lastSequence >= mem[p].sequence
===============================================================================
