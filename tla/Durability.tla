------------------------------ MODULE Durability ------------------------------
(***************************************************************************)
(* What fsync guards: the run directory of internal/run and the output     *)
(* files of cmd/rebootstrap on a machine that can lose its power between   *)
(* any two file operations.                                                *)
(*                                                                         *)
(* "cache" is what processes see.  "disk" is, for each file, the set of    *)
(* contents a power loss may leave: an operation adds its result, and      *)
(* syncing the file or its directory takes the others away.  Nothing       *)
(* orders operations on different files, and syncing a file does not sync  *)
(* its directory entry, nor the reverse.  The run directory itself is      *)
(* there to stay.                                                          *)
(*                                                                         *)
(* The lock serialises commands, so there is one job.  A journal is the    *)
(* sequence of what was appended to it, each with its event and whether    *)
(* its newline is there: 0 is run.created, n > 0 the verdict of evaluation *)
(* n.  What is appended after an event without newline is on its line.     *)
(***************************************************************************)
EXTENDS Naturals, Sequences

CONSTANTS
    MaxEvaluations,  \* bound on the evaluations of a history
    Missing,         \* no such file
    Partial,         \* a document that is cut off
    Torn,            \* an event that is cut off
    Made             \* run.json, or a directory

\* What one append leaves in the journal.
Appended == [event : Nat \cup {Torn}, ended : BOOLEAN]

ASSUME SentinelsAssumption ==
    /\ MaxEvaluations \in Nat
    /\ {Missing, Partial, Torn} \cap Nat = {}
    /\ Made \notin {Missing, Partial} /\ Missing # Partial
    /\ {Missing, Partial} \cap Seq(Appended) = {}

VARIABLES
    cache,     \* what each file holds
    disk,      \* what each file may hold after a power loss
    temp,      \* what the temporary file may hold after a power loss
    job,       \* the command at work
    issued,    \* evaluations so far
    printed,   \* history: the verdicts that were printed
    kept,      \* history: those a reconcile found, or that were printed after one
    anchored,  \* history: a reconcile has completed
    lost,      \* history: a power loss has taken the journal away
    exposed    \* history: a command ended between a write of run.json or of the
               \* journal and the sync that follows it

files == <<cache, disk, temp>>
history == <<printed, kept, anchored, lost, exposed>>
vars == <<files, job, issued, history>>

\* The entries of the run directory.
InRun == {"run", "journal", "projections", "reports"}

Files == InRun \cup {"status", "gate", "report", "output"}

Parent(f) ==
    CASE f \in InRun              -> "dir"
      [] f \in {"status", "gate"} -> "projections"
      [] f = "report"             -> "reports"
      [] OTHER                    -> "elsewhere"

NoJob == [cmd |-> "none", stage |-> "idle", step |-> "write", line |-> 0, verdict |-> 0]

AppendsOf(content) == IF content = Missing THEN <<>> ELSE content

Journal == AppendsOf(cache["journal"])

\* The event was appended to a journal and is there, whole.
Written(content, event) ==
    \E i \in DOMAIN AppendsOf(content) : AppendsOf(content)[i].event = event

\* Every line is one event; the last may lack its newline.
Readable ==
    \A i \in DOMAIN Journal :
        Journal[i].event # Torn /\ (i < Len(Journal) => Journal[i].ended)

VerdictLines == {i \in DOMAIN Journal : Journal[i].event # 0}

Init ==
    /\ cache = [f \in Files |-> Missing]
    /\ disk = [f \in Files |-> {Missing}]
    /\ temp = {}
    /\ job = NoJob
    /\ issued = 0
    /\ printed = {} /\ kept = {}
    /\ anchored = FALSE /\ lost = FALSE /\ exposed = FALSE

-----------------------------------------------------------------------------
(***************************************************************************)
(* File operations.                                                        *)
(***************************************************************************)
\* f gets a new content, of which a power loss may leave any of "leaves".
Put(f, content, leaves) ==
    /\ cache' = [cache EXCEPT ![f] = content]
    /\ disk' = [disk EXCEPT ![f] = @ \cup leaves]

\* MkdirAll of the directory of f.
MakeParent(f) ==
    /\ cache' = [g \in Files |-> IF g = Parent(f) THEN Made ELSE cache[g]]
    /\ disk' = [g \in Files |-> IF g = Parent(f) THEN disk[g] \cup {Made} ELSE disk[g]]

Remove(f) ==
    /\ IF cache[f] = Missing THEN UNCHANGED <<cache, disk>> ELSE Put(f, Missing, {Missing})
    /\ UNCHANGED temp

\* What the journal is after an append, or a part of one.
With(event, ended) == Append(Journal, [event |-> event, ended |-> ended])

\* An event and its newline are written to the journal, which is made when it
\* is not there.
WriteLine(event) ==
    /\ Put("journal", With(event, TRUE),
           {Journal, With(Torn, FALSE), With(event, FALSE), With(event, TRUE)})
    /\ UNCHANGED temp

\* Mutant: the journal is closed without being synced.
MutantSyncJournal == UNCHANGED files

\* What was appended is on disk; the directory entry of a new journal may not be.
SyncJournal ==
    /\ disk' = [disk EXCEPT !["journal"] = (@ \cap {Missing}) \cup {cache["journal"]}]
    /\ UNCHANGED <<cache, temp>>

\* Mutant: only the projections directory is ever synced.
MutantSyncParent(f) ==
    /\ disk' = [g \in Files |->
                   CASE Parent(g) # Parent(f) \/ Parent(f) = "dir" -> disk[g]
                     [] OTHER                                     -> {cache[g]}]
    /\ UNCHANGED <<cache, temp>>

\* syncDirectory: the entries are on disk, and with them what was synced of
\* the files; of the journal, the entry only.
SyncParent(f) ==
    /\ disk' = [g \in Files |->
                   CASE Parent(g) # Parent(f) -> disk[g]
                     [] g = "journal" /\ cache[g] # Missing -> disk[g] \ {Missing}
                     [] OTHER -> {cache[g]} \cup (disk[g] \cap {Partial})]
    /\ UNCHANGED <<cache, temp>>

-----------------------------------------------------------------------------
(***************************************************************************)
(* Replacing a document.                                                   *)
(***************************************************************************)
At(stage) == job.stage = stage

AtStep(step) == job.step = step

\* The job at its next stage, or at the next step of this one.
To(stage) == [job EXCEPT !.stage = stage, !.step = "write"]

Then(step) == [job EXCEPT !.step = step]

\* The document that is written to f.  The status of an evaluation is the number
\* it took before its append, one more than there were, even where its event
\* then shares a line; a reconcile counts lines that are one event each.
Content(f) ==
    CASE f = "run"    -> Made
      [] f = "status" -> Len(Journal)
      [] OTHER        -> job.verdict

WriteTemporary(f) == MakeParent(f) /\ temp' = {Partial, Content(f)}

\* Mutant: the temporary file is closed without being synced.
MutantSyncTemporary == UNCHANGED files

SyncTemporary == temp' = temp \ {Partial} /\ UNCHANGED <<cache, disk>>

Rename(f) == Put(f, Content(f), temp) /\ temp' = {}

\* What writeAtomic and writeOutput have in common; "after" is the job after
\* the rename.
Replace(f, after) ==
    \/ AtStep("write") /\ WriteTemporary(f) /\ job' = Then("sync")
    \/ AtStep("sync") /\ SyncTemporary /\ job' = Then("rename")
    \/ AtStep("rename") /\ Rename(f) /\ job' = after

\* writeAtomic syncs the directory after the rename; then the job is "next".
WriteAtomic(f, next) ==
    /\ At(f)
    /\ \/ Replace(f, Then("commit"))
       \/ AtStep("commit") /\ SyncParent(f) /\ job' = next
    /\ UNCHANGED <<issued, history>>

-----------------------------------------------------------------------------
(***************************************************************************)
(* Commands.                                                               *)
(***************************************************************************)
Started(cmd, stage, line, verdict) ==
    [cmd |-> cmd, stage |-> stage, step |-> "write", line |-> line, verdict |-> verdict]

\* gate evaluate creates the run when there is none.
Evaluate ==
    /\ job = NoJob
    /\ issued < MaxEvaluations
    /\ issued' = issued + 1
    /\ \/ cache["run"] = Missing /\ job' = Started("evaluate", "run", 0, issued')
       \/ cache["run"] = Made /\ job' = Started("evaluate", "journal", issued', issued')
    /\ UNCHANGED <<files, history>>

WriteRun == WriteAtomic("run", To("journal"))

\* appendAndProject up to its status projection.  A journal that cannot be
\* read ends the command.
AppendEvent ==
    /\ At("journal")
    /\ \/ AtStep("write") /\ Readable /\ WriteLine(job.line) /\ job' = Then("sync")
       \/ AtStep("write") /\ ~Readable /\ UNCHANGED files /\ job' = NoJob
       \/ AtStep("sync") /\ SyncJournal /\ job' = To("status")
    /\ UNCHANGED <<issued, history>>

\* After run.created, the evaluation goes on to append its verdict.
WriteStatus ==
    WriteAtomic("status", IF job.cmd = "evaluate" /\ job.line # job.verdict
                          THEN [To("journal") EXCEPT !.line = job.verdict]
                          ELSE To("gate"))

\* reconcile removes the reports of a journal without a verdict.
WriteReportFile(f, next) ==
    \/ job.verdict # 0 /\ WriteAtomic(f, next)
    \/ job.verdict = 0 /\ At(f) /\ Remove(f) /\ job' = next /\ UNCHANGED <<issued, history>>

WriteGate == WriteReportFile("gate", To("report"))

WriteReport ==
    WriteReportFile("report", To(IF job.cmd = "reconcile" THEN "dir" ELSE "answer"))

\* reconcile replays the journal as it finds it and keeps the latest verdict.
Reconcile ==
    /\ job = NoJob
    /\ cache["run"] = Made /\ Journal # <<>> /\ Readable
    /\ \E verdict \in {0} \cup {Journal[i].event : i \in VerdictLines} :
          /\ IF verdict = 0 THEN VerdictLines = {}
             ELSE \E i \in VerdictLines :
                     Journal[i].event = verdict /\ \A j \in VerdictLines : j <= i
          /\ job' = Started("reconcile", "status", 0, verdict)
    /\ UNCHANGED <<files, issued, history>>

\* Mutant: reconcile ends without syncing the run directory.
MutantSyncRun ==
    At("dir") /\ job' = To("answer") /\ UNCHANGED <<files, issued, history>>

\* reconcile syncs the run directory at its end.
SyncRun ==
    /\ At("dir")
    /\ SyncParent("journal")
    /\ job' = To("answer")
    /\ UNCHANGED <<issued, history>>

\* report --output reads the report.
Report ==
    /\ job = NoJob
    /\ cache["report"] \notin {Missing, Partial}
    /\ job' = Started("report", "output", 0, cache["report"])
    /\ UNCHANGED <<files, issued, history>>

\* writeOutput does not sync the directory.
WriteOutput == At("output") /\ Replace("output", NoJob) /\ UNCHANGED <<issued, history>>

Verdicts(content) ==
    {AppendsOf(content)[i].event : i \in DOMAIN AppendsOf(content)} \ {0, Torn}

\* The command prints its answer.
Answer ==
    /\ At("answer")
    /\ job' = NoJob
    /\ printed' = IF job.cmd = "evaluate" THEN printed \cup {job.verdict} ELSE printed
    /\ anchored' = (anchored \/ job.cmd = "reconcile")
    /\ kept' = kept \cup (IF job.cmd = "reconcile" THEN Verdicts(cache["journal"])
                          ELSE {v \in {job.verdict} : anchored})
    /\ UNCHANGED <<files, issued, lost, exposed>>

-----------------------------------------------------------------------------
\* The run or the journal was written, and its sync is still to come.
Unsynced == (At("run") /\ AtStep("commit")) \/ (At("journal") /\ AtStep("sync"))

\* A signal or an I/O error ends the command between two operations.
Interrupt ==
    /\ job # NoJob
    /\ job' = NoJob
    /\ temp' = {}
    /\ exposed' = (exposed \/ Unsynced)
    /\ UNCHANGED <<cache, disk, issued, printed, kept, anchored, lost>>

\* Without its directory a file is gone.
Rooted(c) ==
    [f \in Files |-> IF Parent(f) \in Files /\ c[Parent(f)] = Missing THEN Missing ELSE c[f]]

\* Every file comes back with one of the contents its disk may hold.
PowerLoss ==
    /\ \E c \in [run : disk["run"], journal : disk["journal"],
                 projections : disk["projections"], reports : disk["reports"],
                 status : disk["status"], gate : disk["gate"],
                 report : disk["report"], output : disk["output"]] :
          /\ cache' = Rooted(c)
          /\ disk' = [f \in Files |-> {cache'[f]}]
    /\ lost' = (lost \/ (cache["journal"] # Missing /\ cache'["journal"] = Missing))
    /\ temp' = {}
    /\ job' = NoJob
    /\ UNCHANGED <<issued, printed, kept, anchored, exposed>>

Next ==
    \/ Evaluate \/ WriteRun \/ AppendEvent \/ WriteStatus \/ WriteGate \/ WriteReport
    \/ Reconcile \/ SyncRun \/ Report \/ WriteOutput \/ Answer
    \/ Interrupt \/ PowerLoss

Spec == Init /\ [][Next]_vars

-----------------------------------------------------------------------------
(***************************************************************************)
(* Properties.                                                             *)
(***************************************************************************)
\* Whatever is interrupted or loses power, a document that is replaced as a
\* whole is never found cut off: not run.json, not a projection, not a report
\* written with --output.  The temporary file is synced before its rename.
NoPartialDocument == \A f \in Files : Partial \notin disk[f]

\* A journal does not outlive the run it belongs to, for then the next
\* evaluation would create another run over it: run.json is on disk before
\* there is a journal.
RunOutlivesJournal ==
    ~exposed => (cache["journal"] # Missing => cache["run"] # Missing)

\* The status counts only events that are whole in the journal, and the
\* reports are of such events.
ProjectionsBehind ==
    /\ cache["status"] # Missing =>
          /\ cache["status"] <= Len(Journal)
          /\ \A i \in 1..cache["status"] : Journal[i].event # Torn
    /\ \A f \in {"gate", "report"} :
          cache[f] # Missing => Written(cache["journal"], cache[f])

\* As long as the entry of the journal has survived, no projection is ahead of
\* what is in the journal, neither at work nor after a power loss: the journal
\* is synced before the first rename.  An event that is there need not have a
\* line of its own: a power loss can take the newline before it.
ProjectionsBehindJournal == ~lost /\ ~exposed => ProjectionsBehind

\* Once a reconcile has completed, no power loss takes a verdict out of the
\* journal: neither those it found there nor those that are printed afterwards.
\* Its sync of the run directory is the only one that reaches a new journal.
ReconcileAnchorsJournal ==
    ~exposed => \A v \in kept : Written(cache["journal"], v)

\* README.md:193 calls the journal durable, and run.go:111 the event journal
\* that projections are rebuilt from: a printed verdict is then still in it
\* after a power loss.
PrintedVerdictSurvives ==
    ~exposed => \A v \in printed : Written(cache["journal"], v)

\* run.go:111: Reconcile rebuilds the projections from the durable journal and
\* is safe after an interruption at any boundary, so a power loss after it
\* leaves none of them ahead of the journal.
ReconcileReplaysDurableJournal == ~lost /\ anchored => ProjectionsBehind

-----------------------------------------------------------------------------
(***************************************************************************)
(* The inductive invariant behind the first four properties.               *)
(***************************************************************************)
JournalContents == {Missing} \cup Seq(Appended)

FileTypes ==
    /\ cache = [f \in Files |-> cache[f]] /\ disk = [f \in Files |-> disk[f]]
    /\ \A f \in Files : cache[f] \in disk[f]
    /\ disk["journal"] \subseteq JournalContents
    /\ \A f \in {"projections", "reports"} : disk[f] \subseteq {Missing, Made}
    /\ disk["run"] \subseteq {Missing, Partial, Made}
    /\ \A f \in {"status", "gate", "report", "output"} :
          disk[f] \subseteq {Missing, Partial} \cup Nat

JobTypes ==
    /\ job \in [cmd : {"none", "evaluate", "reconcile", "report"},
                stage : Files \cup {"idle", "dir", "answer"},
                step : {"write", "sync", "rename", "commit"}, line : Nat, verdict : Nat]
    /\ job.cmd = "none" <=> job = NoJob
    /\ job.stage = "idle" <=> job = NoJob
    /\ job.cmd = "report" <=> job.stage = "output"
    /\ issued \in Nat /\ issued <= MaxEvaluations
    /\ anchored \in BOOLEAN /\ lost \in BOOLEAN /\ exposed \in BOOLEAN

TypeInv == FileTypes /\ JobTypes

\* The temporary file is all of a document before it takes a name.
TempInv ==
    /\ AtStep("sync") /\ ~At("journal") => temp = {Partial, Content(job.stage)}
    /\ AtStep("rename") => temp = {Content(job.stage)}

WholeInv == TempInv /\ NoPartialDocument

\* The stages after an append or a replay, where the journal is not written.
Projecting == {"status", "gate", "report", "dir", "answer"}

\* run.json is on disk as soon as something is done with the run.
RunInv ==
    /\ disk["journal"] # {Missing} => disk["run"] = {Made}
    /\ At("run") =>
          disk["journal"] = {Missing} /\ (AtStep("commit") => cache["run"] # Missing)
    /\ job.stage \in {"journal"} \cup Projecting => disk["run"] = {Made}
    /\ cache["run"] # Missing => disk["run"] = {Made} \/ (At("run") /\ AtStep("commit"))

\* Between its appends a journal has one content on disk, if it has its entry.
\* A command that has appended, or replays, has its event in the journal.
JournalInv ==
    /\ ~(At("journal") /\ AtStep("sync")) =>
          disk["journal"] \subseteq {Missing, cache["journal"]}
    /\ job.stage \in Projecting =>
          /\ cache["journal"] # Missing /\ ~Written(cache["journal"], Torn)
          /\ job.cmd = "evaluate" /\ job.stage # "status" => job.line = job.verdict
          /\ (job.cmd = "reconcile" \/ job.line = job.verdict) /\ job.verdict # 0 =>
                Written(cache["journal"], job.verdict)
    /\ At("journal") /\ AtStep("sync") =>
          /\ cache["journal"] # Missing /\ ~Written(cache["journal"], Torn)
          /\ Written(cache["journal"], job.line)
    /\ job.cmd = "evaluate" => job.verdict # 0
    /\ job.cmd = "reconcile" => job.stage \in Projecting

AnchorInv ==
    /\ anchored \/ (At("answer") /\ job.cmd = "reconcile") => Missing \notin disk["journal"]
    /\ \A content \in disk["journal"] : \A v \in kept : Written(content, v)

\* No content the journal may have after a power loss, short of being gone, is
\* behind one a projection may have.
ProjectionInv ==
    \A content \in disk["journal"] :
        content # Missing \/ cache["journal"] = Missing =>
            /\ \A n \in disk["status"] \ {Missing} :
                  /\ n <= Len(AppendsOf(content))
                  /\ \A i \in 1..n : AppendsOf(content)[i].event # Torn
            /\ \A f \in {"gate", "report"} : \A v \in disk[f] \ {Missing} : Written(content, v)

IInv ==
    /\ TypeInv
    /\ WholeInv
    /\ ~exposed => RunInv /\ JournalInv /\ AnchorInv
    /\ ~exposed /\ ~lost => ProjectionInv
===============================================================================
