-------------------------- MODULE RunDirectoryLedger --------------------------
(***************************************************************************)
(* A run directory implements RunLedger: the run is run.json, the ledger   *)
(* is what can be read of the journal, its seal a damaged last line.       *)
(***************************************************************************)
EXTENDS RunDirectoryInvariant

Sealed == journal # <<>> /\ journal[Len(journal)] \in Garbage

Shown == IF status = NoStatus THEN 0 ELSE status.lastSequence

TellsVerdict(p) == doc[p] # NoDoc /\ call[p].cmd \in {"evaluate", "report"}

Told == {doc[p] : p \in {q \in Proc : TellsVerdict(q)}}

Ledger == INSTANCE RunLedger WITH
    Creations <- {Creation(r) : r \in Runs},
    Verdicts <- Reports,
    Lossy <- "unterminated" \in Cuts,
    run <- runFile, ledger <- Events, sealed <- Sealed, shown <- Shown, told <- Told

\* Processes that interleave file by file and are interrupted anywhere act as
\* one ledger: an event is appended whole, once and under the next number,
\* a status never passes the journal and never goes back, and a verdict is
\* printed only when it is an event the status has reached.
ImplementsLedger == Ledger!Spec

-----------------------------------------------------------------------------
(***************************************************************************)
(* What the refinement rests on, beside the invariants IInv and StatusInv. *)
(***************************************************************************)
\* Among the first n of the events there is one with this verdict.
RecordedIn(events, verdict, n) ==
    \E i \in DOMAIN events :
        i <= n /\ events[i].type = "gate.evaluated" /\ events[i].data = verdict

Shows(p) ==
    pc[p] \in {"gate", "report"} \/ (pc[p] = "answer" /\ call[p].cmd \in {"evaluate", "report"})

RecordedOf(p) ==
    /\ pc[p] = "status" =>
          /\ mem[p].sequence \in 1..Len(Events)
          /\ mem[p].report # NoReport => RecordedIn(Events, mem[p].report, mem[p].sequence)
    /\ Shows(p) /\ mem[p].report # NoReport => RecordedIn(Events, mem[p].report, Shown)
    /\ TellsVerdict(p) => RecordedIn(Events, doc[p], Shown)

\* A report that a projection shows or a process is about to show or has
\* printed is that of an event, and the status has reached the event.
RecordedInv ==
    /\ gate # NoReport => RecordedIn(Events, gate, Shown)
    /\ report # NoReport => RecordedIn(Events, report, Shown)
    /\ \A p \in Proc : RecordedOf(p)

LedgerInv ==
    /\ ~NothingMerged \/ (~terminated /\ ~Sealed) => "unterminated" \in Cuts
    /\ \A p \in Proc : pc[p] # "done" => doc[p] = NoDoc
    /\ NothingMerged => RecordedInv
===============================================================================
