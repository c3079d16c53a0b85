------------------------------ MODULE PlanReview ------------------------------
(***************************************************************************)
(* What the plan commands promise, without digests and without a search:   *)
(* a command answers for the plan that it took, and exactly the valid      *)
(* plans pass; bind is refused exactly when the bound plan is not valid;   *)
(* and a record confirms a plan exactly when the sheet that it was written *)
(* from is the one of this plan, and it is signed and acknowledges each    *)
(* banner of that sheet in its words, and nothing else.                    *)
(***************************************************************************)
CONSTANTS
    Valid(_),        \* the plans that are to pass
    Sheet(_),        \* the run sheet of a plan
    Rebound(_, _),   \* a plan with other anchors
    Bindings,
    NoJob, NoSheet, NoRecord

VARIABLES file, sheet, record, job, answer

Init == sheet = NoSheet /\ record = NoRecord /\ job = NoJob /\ answer = "none"

\* The author writes any plan, the operator any record of the sheet.
Write ==
    /\ answer' = "none" /\ UNCHANGED <<sheet, job>>
    /\ record' = record \/ (sheet # NoSheet /\ file' = file)

\* A command takes a plan, or refuses it at once.
Take(cmd, plan) ==
    \/ job' = [cmd |-> cmd, plan |-> plan] /\ answer' = "none"
    \/ ~Valid(plan) /\ answer' = "refused" /\ UNCHANGED job

Begin ==
    /\ job = NoJob /\ UNCHANGED <<file, sheet, record>>
    /\ \/ \E cmd \in {"read", "runsheet", "confirm"} : Take(cmd, file)
       \/ \E anchors \in Bindings : Take("bind", Rebound(file, anchors))

Answer(said) == job' = NoJob /\ answer' = said

Refuse ==
    /\ job # NoJob /\ ~Valid(job.plan)
    /\ Answer("refused") /\ UNCHANGED <<file, sheet, record>>

Passes(cmd) == job # NoJob /\ Valid(job.plan) /\ job.cmd = cmd

Read == Passes("read") /\ Answer("pass") /\ UNCHANGED <<file, sheet, record>>

Bind == Passes("bind") /\ Answer("bound") /\ file' = job.plan /\ UNCHANGED <<sheet, record>>

PrintSheet ==
    /\ Passes("runsheet") /\ Answer("printed")
    /\ sheet' = Sheet(job.plan) /\ record' = NoRecord /\ UNCHANGED file

Fulfilled ==
    LET banners == {k \in DOMAIN sheet.sections : sheet.sections[k].banner} IN
    /\ record.signed
    /\ DOMAIN record.acknowledged = {sheet.sections[k].id : k \in banners}
    /\ \A k \in banners :
          record.acknowledged[sheet.sections[k].id] = sheet.sections[k].acknowledge

Confirm ==
    /\ Passes("confirm") /\ UNCHANGED <<file, sheet, record>>
    /\ \/ record # NoRecord /\ sheet = Sheet(job.plan) /\ Fulfilled /\ Answer("confirmed")
       \/ ~(record # NoRecord /\ sheet = Sheet(job.plan) /\ Fulfilled) /\ Answer("refused")

Next == Write \/ Begin \/ Refuse \/ Read \/ Bind \/ PrintSheet \/ Confirm

Spec == Init /\ [][Next]_<<file, sheet, record, job, answer>>
===============================================================================
