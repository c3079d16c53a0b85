------------------------------- MODULE RunLedger -------------------------------
(***************************************************************************)
(* What a run directory promises, without locks, files and processes: a    *)
(* ledger that is opened once for one run.  Whoever evaluates adds entry   *)
(* after entry in one step, a status follows the ledger, and a verdict is  *)
(* told only when its entry is in the ledger and the status has reached    *)
(* it.  A crash can seal the ledger; then nothing is added any more.       *)
(***************************************************************************)
EXTENDS Naturals, Sequences

CONSTANTS
    Runs, NoRun,
    Creations,   \* the data of run.created
    Verdicts,    \* the data of gate.evaluated
    Lossy        \* what seals the ledger can take its last entry away

VARIABLES
    run,
    ledger,
    sealed,
    shown,   \* the entry that the status is at, 0 if there is no status
    told     \* the verdicts that were printed

Init == run = NoRun /\ ledger = <<>> /\ sealed = FALSE /\ shown = 0 /\ told = {}

Open ==
    /\ run = NoRun
    /\ run' \in Runs
    /\ UNCHANGED <<ledger, sealed, shown, told>>

Entries ==
    [sequence : {Len(ledger) + 1}, runID : {run.runID},
     type : {"run.created"}, data : {c \in Creations : ledger = <<>>}]
    \cup [sequence : {Len(ledger) + 1}, runID : {run.runID},
          type : {"gate.evaluated"}, data : Verdicts]

Record ==
    /\ run # NoRun /\ ~sealed
    /\ \E entry \in Entries : ledger' = Append(ledger, entry)
    /\ UNCHANGED <<run, sealed, shown, told>>

Seal ==
    /\ run # NoRun /\ ~sealed
    /\ sealed' = TRUE
    /\ \/ ledger' = ledger
       \/ Lossy /\ ledger # <<>> /\ ledger' = SubSeq(ledger, 1, Len(ledger) - 1)
    /\ UNCHANGED <<run, shown, told>>

\* A ledger that may have lost its last entry: status and verdicts may be of
\* that entry.
Broken == Lossy /\ sealed

\* The status moves on, also past entries that it never showed.
Publish ==
    /\ shown' > shown
    /\ shown' <= Len(ledger) \/ Broken
    /\ UNCHANGED <<run, ledger, sealed, told>>

Recorded(verdict) ==
    \E i \in DOMAIN ledger :
        i <= shown /\ ledger[i].type = "gate.evaluated" /\ ledger[i].data = verdict

Tell ==
    /\ \E verdict \in Verdicts :
          /\ Recorded(verdict) \/ Broken
          /\ told' = told \cup {verdict}
    /\ UNCHANGED <<run, ledger, sealed, shown>>

Next == Open \/ Record \/ Seal \/ Publish \/ Tell

Spec == Init /\ [][Next]_<<run, ledger, sealed, shown, told>>
===============================================================================
