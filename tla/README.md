# cluster-rebootstrap: models and proofs

TLA+ models of `rebootstrap`, the file-backed control plane in this repository,
with the TLC runs that check them and the TLAPS proofs of their main
properties. Paths of source files are relative to the repository.

## The system

`rebootstrap` is a set of one-shot commands over files. No server runs; what
makes it concurrent is that several invocations may work on one *run directory*
at the same time, and what makes it fallible is that each of them may be
interrupted between any two file operations.

| Component | State | Operations |
| --- | --- | --- |
| Contracts (`internal/model`) | none | validators of profile, gate input, authorization, run and report; the digest rule |
| Gate evaluator (`internal/gate`) | none | `Evaluate` |
| Run directory (`internal/run`) | `.lock`, `run.json`, `events.ndjson`, `projections/status.json`, `projections/gate.json`, `reports/gate.json` | `WithLock`, `CreateRunLocked`, `AppendGateLocked`, `Reconcile`, `LoadRun`, `LoadStatus`, `LoadReport` |
| CLI (`cmd/rebootstrap`) | documents in memory, exit status, standard output, the file of `--output` or `--out` | `gate evaluate`, `status`, `report`, `reconcile`; `profile`, `plan` and `version` commands |
| Plans (`internal/plan`) | none | `Validate`, `findCycle`, `Bind`, `OperatorConfirmation.Validate`, digests |
| Rendering (`internal/render`) | none | `Text`, `Runsheet` |
| Build identity, release pipeline, examples | none | |

How they interact: `gate evaluate` reads and checks its input documents, takes
the directory's exclusive `flock`, loads or creates the run, checks that the
profile and the authorization belong to it, evaluates, appends the report to
the journal and replaces three projections, releases the lock and prints the
report. `reconcile` takes the same lock, replays the journal and rewrites the
projections. `status` and `report` take the lock shared and print a projection.

The plan commands share files with people. An author edits a plan file;
`plan bind` replaces its anchors and digest; `plan render` prints a run sheet;
an operator works from the sheet and writes a confirmation record; `plan
dry-run` validates the record against the plan file as it is then. Each command
reads the plan once and validates it, which ends in `findCycle`.

What is hard: two writers and the journal's sequence numbers; evaluations whose
flags, profile or authorization do not fit the run another process has created
meanwhile; interruption between the append and each of the three projections;
an append that is cut inside its line; the verdict being printed after the lock
is released; agreement between what `gate evaluate` accepts and what
`reconcile` later accepts; a loss of power, which takes what was not synced,
file by file and in no order; a recursive search whose colours and stack must
agree; sheets and records that are older than the plan they are used with. What
makes each component correct:

- contracts and evaluator: `GO` exactly when all predicates pass and an
  authorization fits in all six anchors; nothing that was evaluated is refused
  by a later check;
- run directory: one writer, event *i* on line *i*, projections that are
  replays of prefixes of the journal and become current when a command
  completes, a journal that `reconcile` accepts;
- CLI: a printed verdict is a recorded verdict, no run is created by a rejected
  evaluation, exit status 0 means `GO`, every command ends;
- on disk: whatever is lost with the power, a projection is not ahead of its
  journal, a journal not without its run, a document never cut off;
- plans: an accepted plan is acyclic and a reported cycle is one; a
  confirmation passes for the plan its sheet showed and no other;
- run sheet: every step is printed once, under the number that the index and
  the listing give it.

`PROJECT.json` lists the components, the hazards with their lines, and for each
definition the lines it models.

## Modules

| Module | Models |
| --- | --- |
| `GateModel` | the contracts and the evaluator, as operators |
| `GateContracts`, `MCGateContracts` | one evaluation as a function of its documents, and the documents TLC enumerates |
| `RunDirectory` | the run directory and the processes on it: the state machine |
| `RunDirectoryProperties` | its type invariant and its properties |
| `RunDirectoryInvariant` | the inductive invariant `IInv` and what more single properties need |
| `RunLedger` | the abstract specification: what a run directory promises |
| `RunDirectoryLedger` | the refinement mapping, and the invariant it rests on |
| `MCRunDirectory` | command lines and documents for TLC, the symmetry set |
| `Durability` | the same files, and `report --output`, on a machine that can lose power |
| `FindCycle` | `findCycle` as a state machine |
| `PlanContracts` | plans, binding, confirmation and rendering, as operators |
| `PlanCommands`, `MCPlans` | the plan commands with the author and the operator around them, and the plans TLC enumerates |
| `PlanReview` | the abstract specification: what the plan commands promise |
| `GateModelProofs`, `GateContractsProofs`, `RunDirectoryProofs`, `RunDirectoryLedgerProofs`, `RunDirectoryProjectionProofs`, `DurabilityProofs`, `FindCycleProofs`, `PlanProofs` | the theorems |

`PlanCommands` composes `FindCycle` and `PlanContracts`: a command's `Validate`
is `Searchable`, then a search of `Dependencies(plan)` by the actions of
`FindCycle`, then the action that ends the command. `RunDirectory` composes the
operators of `GateModel`. `Durability` stands beside `RunDirectory`: the first
has one command at a time and files that may be lost, the second many processes
and files that stay.

### State of `RunDirectory`

| Variable | In the code |
| --- | --- |
| `runFile` | `run.json` |
| `journal`, `terminated` | the lines of `events.ndjson`, and whether the last one has its newline |
| `status`, `gate`, `report` | the three projections |
| `writer`, `readers` | who holds the `flock`, exclusively or shared |
| `pc`, `call`, `mem` | of each process: its next step, its command line and input documents, its local variables |
| `exit`, `doc` | its exit status and what it printed |

A command is a path through `pc`:

    gate evaluate   idle lock load [create number append status] number append status gate report answer done
    reconcile       idle lock load status gate report answer done
    status, report  idle lock load answer done

Each step is one file operation with the checks before it: `AdmitEvaluation`
(the decisions under the lock), `CreateRun` (`run.json`), `NumberEvent`
(`nextSequence` reads the journal), `AppendEvent`, `WriteStatus`, `WriteGate`,
`WriteReport`, `ReplayJournal`, `ReadProjection`, `Answer`. A check that fails
ends the command (`Fail`) and releases the lock. In brackets: what a new run
adds.

`Interrupt` is a signal or an I/O error. It may come before any step. In the
append it may leave a part of the line (`"torn"` in `Cuts`) or the line without
its newline (`"unterminated"`); `writeAtomic` renames, so an interrupted
replacement leaves the old file or the new one, and the new one is an
interruption before the next step. `O_APPEND` after an unterminated line makes
both events one line that is no JSON event (`Extended`). A `Torn` line, which
takes its own event only, and a `Merged` one, which takes one that was there,
are told apart; the code refuses both alike.

### The ledger and its refinement

`RunLedger` knows neither processes nor locks nor files. It has one run, a
sequence of entries to which an entry is added in one step, a seal, the entry
that the status has reached, and the verdicts that were told. In
`RunDirectoryLedger` its variables are `runFile`, the readable events, a damaged
last line, `lastSequence` of the status, and what the processes have printed.
The steps of `RunDirectory` that take the lock, read, replace `gate.json` or
remove a report are stutters; `AppendEvent` is `Record`, an append cut short is
`Seal` (or `Record`, when only its newline is missing), a status replaced is
`Publish`, a printed verdict is `Tell`.

`Lossy` is the finding of `lost_verdict` in the abstract: where an append can
lose its newline, the next one seals the ledger and takes the last entry away.
Only then may the status or a verdict be of an entry that is gone (`Broken`).
The liveness run has `Cuts = {"torn"}`: there the ledger loses nothing.

### State of `Durability`

`cache` is what processes see of each file. `disk` is, for each file, the set
of contents that may be found after a power loss, and `temp` is that set for the
temporary file of the replacement at work. An operation adds its results,
partial ones too; a sync takes contents away. The model takes the least a POSIX
file system gives: `fsync` of a file does not sync its directory entry, a
directory's `fsync` does not reach below a subdirectory, and operations on
different files reach the disk in any order. A journal whose entry was never
synced can be gone although its lines were. `PowerLoss` picks for every file one
of its contents, and removes files whose directory is gone.

A document is replaced in four steps, a `step` each: `WriteTemporary` (any part
of it may be on disk), `SyncTemporary` (all of it is), `Rename` (the name has
what the temporary file has, or still the old content) and, in `writeAtomic`
only, `SyncParent`. That no document is found cut off rests on their order:
with the sync left out (`MutantSyncTemporary`), one is. A temporary file that an
interruption leaves behind is read by nobody and is not kept.

A journal is the sequence of what was appended to it: which event, all of it or
a part (`Torn`), and whether its newline is there. Until `SyncJournal`, a power
loss may leave nothing of an append, a part of the event, the event without its
newline, or all of it. `nextSequence` refuses the second and takes the third for
an event (`Readable`), and the next append is then written onto its line. From
there no command reads the journal any more, but the one that merged the two
goes on to its sync, its projections and its answer. `Written` says that the
bytes of an event are in the journal, all of them, with or without a line of
their own. `ProjectionsBehindJournal` and `ReconcileAnchorsJournal` promise so
much and no more: that a merged event can no longer be read is the finding
`lost_verdict`.

The entry of the run directory itself is taken as durable. The lock serialises
commands, so one command (`job`) runs at a time; it can be interrupted between
any two operations. `report --output` writes its file after it has released the
lock. It is one of the jobs nevertheless: no other command reads or writes that
file, and it has read what it needs. A line that an interrupted append leaves
torn in the cache is a matter of `RunDirectory`; here it falls under `exposed`.

History variables: `printed`, `kept` (verdicts that a reconcile found, or
printed after one), `anchored`, `lost` (the journal was lost as a whole) and
`exposed`: a command was killed between a write of the journal or a rename of
`run.json` and the sync that follows. After that the properties about journal,
run and projections claim nothing, for the next command works on a page cache
that nobody syncs: `reconcile` then projects the line and syncs its projections,
never the journal. What this can lead to is the finding `unsynced_replay`, of a
property that does not exclude it.

### State of the plan modules

`FindCycle`: `graph`, `state` (the colours), `stack` and `cycle` are those of
`findCycle`; `next` holds for each step on the stack where its loop stands, `ids`
what the outer loop has left. Steps are numbers, in the order of their ids.

`PlanCommands`: `file` is the plan file, `sheet` the run sheet printed last,
`record` the confirmation written from it, `job` the command that runs with the
plan it has read, `answer` what it said. The author and the operator act between
commands; the search itself reads nothing they write, so that interleaving it
with them would show nothing more. They do act between the reading of the plan
and the answer.

`IsPlan` is what a file that decodes is: a plan with its eight fields and a list
of steps, valid or not. It is no check of the program.

### The review and its refinement

`PlanReview` knows neither digests nor a search. A command takes a plan, or
refuses one at once that is not `Valid`; it ends with its answer if the plan is
valid and refuses it if not; a record confirms a plan exactly when the sheet it
was written from is that of this plan, and the record is signed and has the text
of every banner of that sheet and nothing else. `PlanCommands` gives it its own
variables, the sheet of a plan (`Runsheet`), the plan with other anchors
(`Bound`), and as `Valid` what `Validate` checks before the search, with the
search replaced by `Acyclic`. The steps of `Search` are stutters, `ReportCycle`
is `Refuse`, `EndConfirm` is `Confirm`: there the code compares two digests,
and the review compares the sheet.

### Abstractions

- Digests are an injective constructor: `Digest(v) = <<"sha256", v>>`. SHA-256
  is taken to have no collisions, and the canonical encoding to be injective.
- Identifiers and texts are model values. `SafeText` is what
  `ValidateSafeEvidence` accepts, `Malformed` what the patterns reject, `Blank`
  what is empty after trimming, `wellFormed` an acceptable identity and time of
  an authorization.
- A gate input is a function of predicate ids; evidence is a set. A line is too
  long for the scanner when its report has more than `ScanLimit` evidence
  strings: any one string is bounded by the code and their number is not.
- A missing and an empty journal are one state: `nextSequence` treats them
  alike, and `reconcile` refuses both.
- `createdAt`, `occurredAt`, `kind`, schema versions of what the program itself
  writes, and `eventCount` (always equal to `lastSequence`) are left out.
- Left out of the CLI: flag parsing, messages, and that a
  reader creates a missing directory and its lock file.
- An I/O error is an `Interrupt`, without an exit status; the code exits 1
  after one. No property depends on the difference.
- `status` and `report` read a projection in one step: it is replaced by rename.
- `RunDirectory` loses no power, so `fsync` is invisible there; `Durability` is
  about nothing else. Its evaluations are accepted ones, its verdicts numbers.
- A plan's `argv` is absent, plain, or one that `validateArgv` refuses; `typed`
  and `checked` stand for the identities of a delegated step and for its lists.
  Nil and empty slices, which differ in the digest, are one value: `Bind` copies
  them as they are.
- The plan commands answer without exit codes. `plan validate`, `plan render` as
  a listing and `plan dry-run` without a record, which only print, are one
  command, `read`; `plan digest` is part of `Author`, who stores what it prints.
- One sheet and one record are kept: to use an older sheet is to act before the
  newer one is printed, which changes no file.

## Runs

| Run | Instance | Shows |
| --- | --- | --- |
| `run_directory` | 3 processes, 17 calls, both cuts; 813 216 states | `TypeOK`, `SingleWriter`, `LockIsHeldForWork`, `JournalSound`, `GoIsJustified`, `AnswersComeFromJournal`, `RunCreatedByAcceptedEvaluation`, `ReconcileRefusesOnlyDamage` |
| `repair` | 4 processes, 4 calls, both cuts; 250 169 states | `IInv`, `ProjectionsFollowJournal`, `VerdictStaysVisible`, `SuccessSettles`, `StatusMonotone`, `ImplementsLedger` |
| `liveness` | 3 processes, 4 calls, torn lines, no symmetry; 88 759 states | `EveryInvocationEnds`, `ImplementsLedger` without `Lossy` |
| `gate_contracts` | 7 profiles, 784 maps of observations, 2 schema versions, 10 authorizations | `VerdictIsJournalable`, `GoExactlyWhenAuthorized`, `NoGoIsExplained` |
| `durability` | 3 evaluations, any number of reconciles, interruptions and power losses; 1 885 356 states | `IInv` of `Durability`, `NoPartialDocument`, `RunOutlivesJournal`, `ProjectionsBehindJournal`, `ReconcileAnchorsJournal` |
| `plans` | 125 graphs of three steps, 3 drafts of one plan, 4 bindings; 43 237 states | `CommandsInv`, `CycleIsReal`, `NoCycleMissed`, `SearchAdvances`, `SheetIsComplete`, `ConfirmedAsPrinted`, `EveryBannerAcknowledged`, `ImplementsReview`, `EveryCommandAnswers` |
| `power_loss`, `unsynced_replay`, `sheet_confirmation` | those of `durability`, `durability` and `plans` | violated: see the findings |
| `torn_line`, `long_line`, `lost_verdict` | 2 processes | violated: see the findings |

The bounds. Every process runs one command, so the number of processes bounds
the length of a history: there is no other bound on the journal. Three
processes are enough for a run created by one, interrupted, continued with
different documents by a second and read or replayed by a third; four let two
interrupted writers precede an evaluation and a reader. The 17 calls hold every
way an evaluation can be refused (unreadable input, unsafe evidence, wrong
profile with the right id, malformed commit, authorization of stale evidence, of
another run or checkpoint, or without its acknowledgement),
two runs with different ids and checkpoints, evaluations without creation
flags, and a report too long for a line. In `gate_contracts` an authorization
fits or is spoiled in one field: two spoiled fields are refused by either check.
`ScanLimit` is 2, so that the usual report of two strings fits and one of three
does not.

`MaxEvaluations` is the only bound of `durability`: one evaluation that creates
the run, one before and one after a reconcile, a loss or an interruption, which
are not bounded. In `plans`, every graph of three steps with up to two
dependencies each, in either order, holds each shape of cycle, a diamond and
everything the search can meet; the theorems hold for any graph. The drafts
hold a destructive step with either of two texts, a confirmation on a step that
is not destructive, steps by hand, a confirmation without a text, phases out of
order and unknown ones, and a destructive step that asks for nothing; a record
is any part of what the sheet asks, any of it mistyped, signed or not.

Symmetry is over processes, which the specification never distinguishes; the
liveness run does without it. `gate_contracts` and only it turns deadlock
checking off: it is one step, then it stops. In the other runs a state in which
no process can move and not all have ended would be a deadlock.

Fairness, in `FairSpec` only: weak fairness of each process's `Step`, that is,
the operating system goes on running a started process, and `flock` is granted
to a waiter when nobody holds it against it. Weak fairness is enough because
every process runs only one command, so the holders that may precede a waiter
are finitely many; nothing is assumed about the order in which `flock` serves.
Neither `Invoke` nor `Interrupt` is fair: nobody has to start or kill a command.
In `PlanCommands`, weak fairness of `Command`: a command that runs goes on; no
author or operator has to act.

Every property of a passing run has a mutant in `PROJECT.json`, an operator
`Mutant...` beside the definition it changes; with it TLC finds the property
violated. No specification uses them.

`NothingMerged` is the hypothesis of some properties: that no append has
happened after a line without newline, so no line of the journal is `Merged`.
Such an append destroys an event that projections already show, which is the
finding of `lost_verdict`. Journals that end in a `Torn` line are not excluded.

### Findings

- `torn_line`: a line cut by an interrupted append makes every later append and
  `reconcile` fail; `README.md` (line 193) says `reconcile` repairs projections
  after an interrupted write. `internal/run/run.go:137`.
- `long_line`: an accepted evaluation with enough evidence writes a line longer
  than the 64 KiB that `bufio.Scanner` accepts. The verdict is printed and the
  journal cannot be read again, without any interruption.
  `internal/run/run.go:130`, `:289`.
- `lost_verdict`: after a line that lost only its newline, the next evaluation
  is accepted and written onto the same line. Its printed verdict is no event
  of the journal. A power loss between the write of a line and its sync leaves
  the same. `internal/run/run.go:248`.
- `power_loss`: the first appends of a run sync the journal's lines, and nobody
  syncs the directory entry of the new journal until a `reconcile` does. A loss
  of power can take the journal away after its verdicts were printed, and leave
  the projections; `reconcile` then fails. `run.go` (line 111) and `README.md`
  (line 193) speak of a durable journal. `internal/run/run.go:252`.
- `unsynced_replay`: an evaluation is killed after it has written its line and
  before it has synced it. The next `reconcile` replays the line from the page
  cache, syncs the projections it writes, and reports success; it never syncs
  the journal. A loss of power then leaves projections ahead of the journal.
  `run.go` (line 111) says that it rebuilds from the durable journal and is safe
  after interruption at any boundary. `internal/run/run.go:125`.
- `sheet_confirmation`: the run sheet prints every confirmation as REQUIRED; a
  record that acknowledges one of a step that is not destructive is rejected, so
  only a record that leaves it out passes. `internal/plan/plan.go:341`.

Three more observations. `gate evaluate` exits 1 for failures that are not
verdicts, with nothing on standard output: `README.md` (line 40) names only
`NO-GO` for 1, the comment in `cmd/rebootstrap/main.go` (line 29) both. A valid
plan may print a step above one it depends on: the sheet follows the file. And a
process that dies between `run.json` and the `run.created` event leaves a run
whose journal will start with `gate.evaluated`. `JournalSound` allows it, and
`reconcile` accepts it.

## Proofs

`GateModelProofs`, for all documents:

- `EvaluationIsJournalable`: what `gate evaluate` checks before it evaluates
  implies every check `ValidateGateReport` makes of the result. The step that
  is not obvious is the evidence digest, which the report's checks recompute
  from the predicates alone (`RebuiltInput`).
- `GoNeedsAuthorization`, `AuthorizationIsBound`.

`GateContractsProofs`, for all sets of documents: `VerdictsAreJournalable`,
`NoGoIsAlwaysExplained` and `GoOnlyWhenAuthorized`, from the invariant that a
verdict is the evaluation of documents that passed every check. The third also
needs that the documents are the ones enumerated (`DocumentsInv`) and that a
spoiled field is told apart from a good one (the assumption `SpoiledValues`).

`RunDirectoryProofs`, for every set of processes and calls, every `ScanLimit`
and every `Cuts`:

- `Invariance`: `Spec => []IInv`;
- `TypeCorrect`, `WriterExcludesOthers`, `JournalIsSound`, `GoJustified`:
  `TypeOK`, `SingleWriter`, `JournalSound` and `GoIsJustified` hold always;
- `LockIsLetGo`: `LockIsHeldForWork`, that whoever holds the lock is at work
  inside. With `TypeOK` it is inductive; it is the safety half of
  `EveryInvocationEnds`: nobody waits for a process that has left;
- `ReconcileAcceptsReadableJournals`: the action property
  `ReconcileRefusesOnlyDamage`;
- `RunsAreCreatedByAcceptedEvaluations`: `RunCreatedByAcceptedEvaluation`, with
  an authorization, if one was given, that `ValidateAuthorization` accepts for
  this very run, all six anchors;
- `StatusNeverGoesBack`: the action property `StatusMonotone`.

None of these is inductive by itself. `IInv` adds what they need:

- `LockInv`: a process between `load` and its last projection holds the lock in
  its mode. That makes `SingleWriter` follow, and it is why a process's reading
  of the journal is still true when it appends.
- `PhaseInv(p)`: what `p` has in memory at each step. An evaluation past its
  checks was admitted to the run in `run.json` (`Admits`); before an append, the
  journal is numbered and the next number is the one in memory; `run.created`
  is appended to an empty journal only.
- `JournalInv`: a journal has a valid run and its lines are sound; an empty
  journal has no unterminated line.
- `VerdictInv`: every report in the system, in the journal, a projection, a
  memory or on standard output, is `Sound`: it is the evaluation of some
  accepted input that was admitted to this run. `GoIsJustified` follows from it.

Two properties need a little more, proved on top of `IInv`: `CreatorInv` (some
process created the run and was admitted to it) and `StatusInv` (the status is
not ahead of the journal, nor of what a writer is about to put in its place, as
long as the journal can be numbered; where a merged or too long line prevents
that, nobody writes any more).

The proof goes part by part (`StepType`, `StepLock`, `StepJournal`,
`StepPhase`, `StepVerdict`, and the same for `Interrupt` and `Invoke`), with
one step per action. `PhaseOfOthers` is the non-interference argument: a step
that changes the run or the journal is taken by the exclusive holder, and then
nobody else is at a step whose assertion mentions them.

`RunDirectoryLedgerProofs`: `RunDirectoryImplementsLedger`, for every `Proc`,
`Calls` and `Cuts`: every step of `RunDirectory` maps to a step of the ledger or
to a stutter. The step that needs an invariant is `Tell`: a printed verdict must
be an entry that the status has reached. `LedgerInv` says so of every report on
its way: that of a writer between its projections, of the two report files, of
a reader before it prints (`VerdictsAreRecorded`). It holds unless an event was
merged away (`NothingMerged`), which takes an unterminated line and seals the
ledger, and then `Broken` allows what follows. `Publish` needs `StatusInv`.

`RunDirectoryProjectionProofs`, for every `Proc`, `Calls` and `Cuts`:
`ProjectionsFollow`, `AnswersAreJournaled`, `PrintedVerdictsStay` and
`CompletionSettles`, that is, `ProjectionsFollowJournal`,
`AnswersComeFromJournal`, `VerdictStaysVisible` and `SuccessSettles`. Each says
that something is the replay of a prefix of the journal. `ReplayInv` adds where
that comes from: a writer past its append holds the replay of the whole journal
(`HoldsReplay`), because nobody else appends while it has the lock; what a reader
is about to print is the replay of a prefix (`TellsReplay`), and an event more
does not change a prefix (`ReplaysStay`); and there are prefixes for the three
projections, in the order they are written, of which the shortest includes
every printed verdict (`ReplaysOf`). `ReachedInv` is the part of
`VerdictStaysVisible` that holds even after an event was merged away.

`DurabilityProofs`, for every `MaxEvaluations`: the invariant `IInv` of
`Durability` (`Durable`) and from it four properties (`WholeDocuments`,
`RunComesFirst`, `ProjectionsComeAfter`, `ReconcileAnchors`). Its parts:
`WholeInv` (no part of a document is under its name, because the temporary file
is whole on disk at the step that renames it, `TempInv`); `RunInv` (`run.json`
is on disk before anything else is written); `JournalInv` (except between an
append and its sync, the journal has at most two contents on disk: what is in
the cache, and nothing; and a command that projects has its event in it);
`AnchorInv` (after a reconcile, not even nothing, and no content that is short
of a kept verdict); `ProjectionInv` (no content a projection may have is ahead
of a content the journal may have). They speak of `disk`, not of `cache`: that
is what makes them survive `PowerLoss`. An append only ever adds to the
sequence, so what was `Written` stays so, on a shared line too.

`FindCycleProofs`, for every graph: `SearchInvariance` (`SearchInv`),
`ReportedCycleIsReal`, `PassedPlanIsAcyclic` and `SearchesAdvance`. The
argument: the stack is a path whose steps are those in colour 1, so what
`CycleTo` cuts out of it is a cycle; a step in colour 2 depends on such steps
only, and any set of them has a step that depends on none of the set, because
the step that was finished last depended on steps finished before.
`SearchesAdvance` bounds the search: every step but the last one takes something
from `Left`, which counts the steps that the outer loop has not taken, the
dependencies that no visit has looked at, and the steps that are not done. They
are finitely many because the graph is (`LeftIsFinite`), so there is no endless
search, whatever the steps depend on.

`PlanProofs`, for all plans, drafts, anchors and edits:

- `SheetsAreComplete`: `SheetIsComplete`, for a plan of any length with any
  phases. The loops of the renderer are recursive functions (`InOrder`, and
  `FlattenSeq` for the phases). Each lemma about them (`LoopIsDefined`,
  `LoopsInOrder`, `FlattenedLists`) looks at the first position where it would
  fail (`FirstOf`), which takes the well-foundedness of `<` and no induction
  theorem. `SheetOrderListed` is the result: the sheet's order names the number
  of each step, and each once. That the counts of the header agree with it is
  `CountsAgree`: a sequence without repetition maps its positions one to one.
- `Commands`: the invariant `CommandsInv`, of which `NamedCyclesAreReal`,
  `SearchedPlansAreAcyclic` and `CommandsAdvance` take the properties of the
  search for the graphs of plans. Its parts: `JobInv` (a command searches the
  dependencies of the plan that it has read), `SheetInv` and `RecordInv`.
- `ConfirmationsAreOfTheSheet` and `BannersAreAcknowledged`: the action
  properties `ConfirmedAsPrinted` and `EveryBannerAcknowledged`.
- `PlanCommandsImplementReview`: every step maps to a step of `PlanReview` or to
  a stutter.

The properties of a confirmation are not inductive: the plan of the sheet may be
in no variable any more when its record is validated, since the author may have
edited the file twice by then. `SheetInv` keeps it where the sheet has it, in its
digest: `Sealed(digest)` is the one plan that carries its own digest, the sheet
at hand is the sheet of that plan, and that plan is valid. A record then passes
only for a plan of the same digest, which is that plan (`DigestTellsPlan`,
`ConfirmsAsPrinted`). Where a plan has no checkpoint, the record's checkpoint is
not compared; the digest still tells the plan. The refinement rests on two more
facts: what `plan bind` refuses before it binds would be refused by `Validate`
afterwards (`UnbindableIsInvalid`), and a search that passes means `Valid`,
one that names a cycle means not (`PassedIsValid`).

Assumptions: `CallsAssumption` (a command is one of four; an input document has
the two fields the decoder allows), `AbsentDocuments`, `AbsentStatus` and
`AbsentValues` (the values for "no run", "no report", "no status", "no process",
"no exit status" are not real ones), `CutsAssumption`, `GateConstants`,
`SpoiledValues`, `SentinelsAssumption` (what stands for a missing, a partial and
a made file are distinct and no document), `DraftsArePlans` (a plan file that an
author writes has the fields the decoder allows, with numbers for ids). TLC
evaluates them in the runs. What every theorem about plans takes from the model
is that digests do not collide.

Only model-checked: the two liveness properties, `EveryInvocationEnds` and
`EveryCommandAnswers`. Liveness under fairness and `ENABLED` are out of the proof
system's reach. What can be proved of them is: `LockIsLetGo` says that a lock
somebody waits for is held by a process that can go on, and `CommandsAdvance`
that a search takes finitely many steps. That such a step is enabled, and that
it is taken, is what TLC adds.

## Not modelled

- Of the rendering: wording, layout, checklists, quoting. Of the plan commands:
  flag parsing and exit codes.
- `version`, the release pipeline, the examples: no state and no logic of the
  program.
- The regular expressions, JSON decoding, the wording of messages.

## What is left

- Liveness stays with TLC.
- `Durability` with several processes: the lock makes commands disjoint, except
  that `report` reads under a shared lock and writes its output after it.
