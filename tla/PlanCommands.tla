----------------------------- MODULE PlanCommands -----------------------------
(***************************************************************************)
(* The plan commands of cmd/rebootstrap and the operator between them: a   *)
(* plan is authored, bound, printed as a run sheet and confirmed with a    *)
(* record that is written from the sheet.  A command reads the plan once,  *)
(* validates it, with findCycle as a search of its own (FindCycle.tla),    *)
(* and then answers; dry-run reads the record after the search.            *)
(*                                                                         *)
(* The search reads nothing that others write: they act before it starts   *)
(* or after it has ended.  A new sheet puts the last one away with its     *)
(* record: to confirm with the older record is to confirm before the new   *)
(* sheet is printed, which changes no file.                                *)
(***************************************************************************)
EXTENDS PlanContracts, FindCycle

CONSTANTS
    Drafts,    \* plans as an author writes them, their digest blank
    Bindings,  \* anchors that bind is called with
    NoJob, NoSheet, NoRecord

ASSUME DraftsArePlans == \A draft \in Drafts : IsPlan(draft)

VARIABLES
    file,      \* the plan file
    sheet,     \* the run sheet printed last
    record,    \* the confirmation that was written from that sheet
    job,       \* the command that runs and the plan it has read
    answer     \* of the command that has just ended

vars == <<searchVars, file, sheet, record, job, answer>>

NoSearch ==
    /\ graph' = <<>> /\ state' = <<>> /\ stack' = <<>> /\ next' = <<>>
    /\ ids' = {} /\ cycle' = <<>> /\ searching' = FALSE

Init ==
    /\ graph = <<>> /\ state = <<>> /\ stack = <<>> /\ next = <<>>
    /\ ids = {} /\ cycle = <<>> /\ searching = FALSE
    /\ file \in Drafts
    /\ sheet = NoSheet /\ record = NoRecord
    /\ job = NoJob /\ answer = "none"

-----------------------------------------------------------------------------
(***************************************************************************)
(* The author and the operator.                                            *)
(***************************************************************************)
\* The plan is edited, its digest left as it was or computed with plan digest.
Author ==
    /\ ~searching
    /\ \E draft \in Drafts :
          /\ draft.id = file.id
          /\ \E digest \in {file.planDigest, CanonicalDigest(draft)} :
                file' = [draft EXCEPT !.planDigest = digest]
    /\ answer' = "none"
    /\ UNCHANGED <<searchVars, sheet, record, job>>

\* The texts that a sheet asks to be recorded word for word, by step.
Asked(printed) ==
    LET asking == {k \in DOMAIN printed.sections : printed.sections[k].acknowledge # Blank}
    IN  [id \in {printed.sections[k].id : k \in asking} |->
            printed.sections[CHOOSE k \in asking : printed.sections[k].id = id].acknowledge]

\* The operator writes down some of them, and may mistype.
Transcribe ==
    /\ ~searching /\ sheet # NoSheet /\ Asked(sheet) # <<>>
    /\ \E done \in SUBSET DOMAIN Asked(sheet) : \E wrong \in SUBSET done : \E signed \in BOOLEAN :
          record' = [signed           |-> signed,
                     planDigest       |-> sheet.planDigest,
                     checkpointDigest |-> sheet.checkpointDigest,
                     acknowledged     |-> [id \in done |-> IF id \in wrong THEN Malformed
                                                           ELSE Asked(sheet)[id]]]
    /\ answer' = "none"
    /\ UNCHANGED <<searchVars, file, sheet, job>>

-----------------------------------------------------------------------------
(***************************************************************************)
(* The commands.                                                           *)
(***************************************************************************)
\* Validate ends the command, or goes on to search.
Validate(cmd, plan) ==
    \/ /\ Searchable(plan)
       /\ StartSearch(Dependencies(plan))
       /\ job' = [cmd |-> cmd, plan |-> plan]
       /\ answer' = "none"
    \/ /\ ~Searchable(plan)
       /\ answer' = "refused"
       /\ UNCHANGED <<searchVars, job>>

\* plan render as a run sheet, plan dry-run with a confirmation; "read" stands
\* for the commands that only answer with a text: plan validate, plan render as
\* a listing, plan dry-run without a confirmation.
Start ==
    /\ job = NoJob
    /\ \E cmd \in {"read", "runsheet", "confirm"} : Validate(cmd, file)
    /\ UNCHANGED <<file, sheet, record>>

StartBind ==
    /\ job = NoJob
    /\ \E anchors \in Bindings :
          \/ Bindable(file, anchors) /\ Validate("bind", Bound(file, anchors))
          \/ /\ ~Bindable(file, anchors)
             /\ answer' = "refused"
             /\ UNCHANGED <<searchVars, job>>
    /\ UNCHANGED <<file, sheet, record>>

Search == SearchNext /\ UNCHANGED <<file, sheet, record, job, answer>>

End(said) == job' = NoJob /\ answer' = said /\ NoSearch

\* Mutant: the cycle that was found is not reported.
MutantPassed(cmd) == job # NoJob /\ job.cmd = cmd /\ ~searching

Passed(cmd) == job # NoJob /\ job.cmd = cmd /\ ~searching /\ cycle = <<>>

ReportCycle ==
    /\ job # NoJob /\ ~searching /\ cycle # <<>>
    /\ End("refused")
    /\ UNCHANGED <<file, sheet, record>>

EndRead == Passed("read") /\ End("pass") /\ UNCHANGED <<file, sheet, record>>

\* The bound plan replaces the file (--out).
EndBind == Passed("bind") /\ End("bound") /\ file' = job.plan /\ UNCHANGED <<sheet, record>>

EndRunsheet ==
    /\ Passed("runsheet") /\ End("printed")
    /\ sheet' = Runsheet(job.plan) /\ record' = NoRecord
    /\ UNCHANGED file

EndConfirm ==
    /\ Passed("confirm")
    /\ End(IF record # NoRecord /\ Confirms(record, job.plan) THEN "confirmed" ELSE "refused")
    /\ UNCHANGED <<file, sheet, record>>

Command ==
    \/ Search \/ ReportCycle
    \/ EndRead \/ EndBind \/ EndRunsheet \/ EndConfirm

Next == Author \/ Transcribe \/ Start \/ StartBind \/ Command

\* A command that was started is run to its end.
Spec == Init /\ [][Next]_vars /\ WF_vars(Command)

-----------------------------------------------------------------------------
(***************************************************************************)
(* Properties.                                                             *)
(***************************************************************************)
Confirming == job # NoJob /\ job.cmd = "confirm" /\ job' = NoJob

\* README.md:70: a confirmation passes only for the plan that its sheet shows,
\* every step and every anchor of it: one that was written before the plan was
\* edited, bound or bound again, or from another sheet, is refused.
ConfirmedAsPrinted ==
    [][Confirming /\ answer' = "confirmed" => sheet = Runsheet(job.plan)]_vars

\* A confirmation passes only if every banner of its sheet has its text
\* recorded word for word, and nothing else is recorded.
EveryBannerAcknowledged ==
    [][Confirming /\ answer' = "confirmed" =>
          LET banners == {k \in DOMAIN sheet.sections : sheet.sections[k].banner} IN
          /\ DOMAIN record.acknowledged = {sheet.sections[k].id : k \in banners}
          /\ \A k \in banners :
                LET section == sheet.sections[k] IN
                /\ section.acknowledge # Blank
                /\ record.acknowledged[section.id] = section.acknowledge]_vars

\* The sheet that would be printed of the file, valid or not, is complete:
\* SheetShows in PlanContracts.
SheetIsComplete == SheetShows(file)

\* What Validate is to accept, with the search for cycles told in one word.
Valid(plan) == Searchable(plan) /\ Acyclic(Dependencies(plan))

Review == INSTANCE PlanReview WITH Sheet <- Runsheet, Rebound <- Bound

\* The commands, with their digests and their search, are what PlanReview says
\* of plans and sheets.
ImplementsReview == Review!Spec

\* A command that was started answers: the search ends on every plan.
EveryCommandAnswers == (job # NoJob) ~> (job = NoJob)

\* render.go:170: the acknowledgement that a sheet demands "before the action
\* below" is the one a record is valid with: a signed record of all that the
\* sheet of the plan asks passes.
WhatTheSheetAsksIsAccepted ==
    [][Confirming /\ record # NoRecord /\ sheet = Runsheet(job.plan)
       /\ record.signed /\ record.acknowledged = Asked(sheet)
       => answer' = "confirmed"]_vars

-----------------------------------------------------------------------------
(***************************************************************************)
(* The inductive invariant behind these and behind those of FindCycle.     *)
(***************************************************************************)
\* A command searches the dependencies of the plan that it has read.
JobInv ==
    job # NoJob => IsPlan(job.plan) /\ Searchable(job.plan) /\ graph = Dependencies(job.plan)

\* The document of a digest, the digest filled in.
Sealed(digest) == [digest[2] EXCEPT !.planDigest = digest]

\* The sheet at hand is that of the plan its digest was taken of, a valid one.
SheetInv ==
    sheet # NoSheet =>
        LET plan == Sealed(sheet.planDigest)
        IN  IsPlan(plan) /\ Valid(plan) /\ sheet = Runsheet(plan)

\* The record is of the sheet at hand.
RecordInv ==
    record # NoRecord =>
        /\ sheet # NoSheet
        /\ record.planDigest = sheet.planDigest
        /\ record.checkpointDigest = sheet.checkpointDigest

CommandsInv == SearchInv /\ IsPlan(file) /\ JobInv /\ SheetInv /\ RecordInv
===============================================================================
