--------------------------- MODULE DurabilityProofs ---------------------------
(***************************************************************************)
(* For any number of evaluations, interruptions and power losses: the four *)
(* safety properties of Durability, from the inductive invariant IInv.     *)
(***************************************************************************)
EXTENDS Durability, TLAPS

Directories == {"projections", "reports"}

\* The files that are replaced as a whole.
Documents == {"run", "status", "gate", "report", "output"}

LEMMA ParentValues ==
    /\ \A f \in InRun : Parent(f) = "dir"
    /\ Parent("status") = "projections" /\ Parent("gate") = "projections"
    /\ Parent("report") = "reports" /\ Parent("output") = "elsewhere"
BY DEF Parent, InRun

LEMMA FileKinds ==
    /\ Documents \subseteq Files \ Directories /\ "journal" \in Files \ Directories
    /\ "journal" \notin Documents
    /\ Files = Documents \cup {"journal", "projections", "reports"}
BY DEF Files, InRun, Directories, Documents

LEMMA MakeParentEffect ==
    ASSUME NEW f \in Documents, MakeParent(f)
    PROVE  /\ cache' = [g \in Files |-> cache'[g]] /\ disk' = [g \in Files |-> disk'[g]]
           /\ \A g \in Files \ Directories : cache'[g] = cache[g] /\ disk'[g] = disk[g]
           /\ \A g \in Directories :
                 \/ cache'[g] = Made /\ disk'[g] = disk[g] \cup {Made}
                 \/ cache'[g] = cache[g] /\ disk'[g] = disk[g]
<1>1. Parent(f) \in Directories \/ Parent(f) \notin Files
  BY DEF Parent, Files, InRun, Directories, Documents
<1>. QED
  BY <1>1 DEF MakeParent, Files, InRun, Directories

LEMMA PutEffect ==
    ASSUME TypeInv, NEW f \in Files, NEW content, NEW leaves, Put(f, content, leaves)
    PROVE  /\ cache' = [g \in Files |-> cache'[g]] /\ disk' = [g \in Files |-> disk'[g]]
           /\ cache'[f] = content /\ disk'[f] = disk[f] \cup leaves
           /\ \A g \in Files \ {f} : cache'[g] = cache[g] /\ disk'[g] = disk[g]
BY DEF Put, TypeInv, FileTypes

\* Syncing leaves the cache, and on disk only contents that were possible.
LEMMA SyncParentEffect ==
    ASSUME TypeInv, NEW f \in Files, SyncParent(f)
    PROVE  /\ cache' = cache /\ temp' = temp /\ disk' = [g \in Files |-> disk'[g]]
           /\ \A g \in Files : disk'[g] \subseteq disk[g] /\ cache'[g] \in disk'[g]
           /\ \A g \in Files \ {"journal"} : Parent(g) = Parent(f) =>
                 disk'[g] \subseteq {cache[g], Partial}
           /\ Parent(f) = "dir" /\ cache["journal"] # Missing => Missing \notin disk'["journal"]
<1>1. \A g \in Files : cache[g] \in disk[g]
  BY DEF TypeInv, FileTypes
<1>2. "journal" \in Files /\ Parent("journal") = "dir"
  BY FileKinds, ParentValues DEF InRun
<1>. QED
  BY <1>1, <1>2 DEF SyncParent

-----------------------------------------------------------------------------
(***************************************************************************)
(* Types.                                                                  *)
(***************************************************************************)
LEMMA JournalType == FileTypes => Journal \in Seq(Appended)
<1>1. FileTypes => cache["journal"] = Missing \/ cache["journal"] \in Seq(Appended)
  BY FileKinds DEF FileTypes, JournalContents
<1>2. <<>> \in Seq(Appended)
  OBVIOUS
<1>. QED
  BY <1>1, <1>2 DEF Journal, AppendsOf

LEMMA PartialIsNoContent ==
    Partial \notin JournalContents /\ Partial \notin Nat \cup {Missing, Made}
BY SentinelsAssumption DEF JournalContents

LEMMA ContentType ==
    ASSUME TypeInv
    PROVE  /\ Content("run") = Made
           /\ \A f \in Documents \ {"run"} : Content(f) \in Nat
           /\ \A f \in {"gate", "report", "output"} : Content(f) = job.verdict
<1>1. Len(Journal) \in Nat /\ job.verdict \in Nat
  BY JournalType DEF TypeInv, JobTypes
<1>. QED
  BY <1>1 DEF Content, Documents

\* What moving on does to the job.
LEMMA JobSteps ==
    ASSUME TypeInv
    PROVE  /\ \A step : /\ Then(step).stage = job.stage /\ Then(step).step = step
                        /\ Then(step).cmd = job.cmd /\ Then(step).line = job.line
                        /\ Then(step).verdict = job.verdict
           /\ \A stage : /\ To(stage).stage = stage /\ To(stage).step = "write"
                         /\ To(stage).cmd = job.cmd /\ To(stage).line = job.line
                         /\ To(stage).verdict = job.verdict
           /\ \A stage, line : LET next == [To(stage) EXCEPT !.line = line]
                               IN  /\ next.stage = stage /\ next.step = "write"
                                   /\ next.cmd = job.cmd /\ next.line = line
                                   /\ next.verdict = job.verdict
BY DEF TypeInv, JobTypes, Then, To

LEMMA SyncTypes ==
    ASSUME TypeInv, NEW f \in Files, SyncParent(f) PROVE FileTypes'
<1>1. /\ cache' = cache /\ disk' = [g \in Files |-> disk'[g]]
      /\ \A g \in Files : disk'[g] \subseteq disk[g] /\ cache'[g] \in disk'[g]
  BY SyncParentEffect
<1>2. {"journal", "run", "projections", "reports", "status", "gate", "report", "output"} \subseteq Files
  BY DEF Files, InRun
<1>. QED
  BY <1>1, <1>2 DEF TypeInv, FileTypes

\* A step of Replace prepares the temporary file, or renames it to f.
LEMMA ReplaceEffect ==
    ASSUME TypeInv, TempInv, NEW f \in Documents, At(f), NEW after, Replace(f, after)
    PROVE  /\ FileTypes'
           /\ \A g \in Files \ (Directories \cup {f}) : cache'[g] = cache[g] /\ disk'[g] = disk[g]
           /\ \A g \in Directories : disk'[g] \subseteq disk[g] \cup {Made}
           /\ \/ /\ AtStep("write") /\ job' = Then("sync")
                 /\ cache'[f] = cache[f] /\ disk'[f] = disk[f]
                 /\ temp' = {Partial, Content(f)}
              \/ /\ AtStep("sync") /\ job' = Then("rename")
                 /\ cache' = cache /\ disk' = disk
                 /\ temp' = temp \ {Partial}
              \/ /\ AtStep("rename") /\ job' = after
                 /\ cache'[f] = Content(f) /\ disk'[f] = disk[f] \cup {Content(f)}
                 /\ temp' = {}
<1>0. f \in Files \ Directories
  BY FileKinds
<1>1. CASE AtStep("write") /\ WriteTemporary(f) /\ job' = Then("sync")
  <2>1. /\ cache' = [g \in Files |-> cache'[g]] /\ disk' = [g \in Files |-> disk'[g]]
        /\ \A g \in Files \ Directories : cache'[g] = cache[g] /\ disk'[g] = disk[g]
        /\ \A g \in Directories :
              \/ cache'[g] = Made /\ disk'[g] = disk[g] \cup {Made}
              \/ cache'[g] = cache[g] /\ disk'[g] = disk[g]
    BY <1>1, MakeParentEffect DEF WriteTemporary
  <2>2. FileTypes'
    BY <2>1 DEF TypeInv, FileTypes, Files, InRun, Directories
  <2>. QED
    BY <1>0, <1>1, <2>1, <2>2 DEF WriteTemporary
<1>2. CASE AtStep("sync") /\ SyncTemporary /\ job' = Then("rename")
  BY <1>0, <1>2 DEF SyncTemporary, TypeInv, FileTypes
<1>3. CASE AtStep("rename") /\ Rename(f) /\ job' = after
  <2>1. job.stage = f /\ temp = {Content(f)}
    BY <1>3 DEF TempInv, At, AtStep
  <2>2. /\ cache' = [g \in Files |-> cache'[g]] /\ disk' = [g \in Files |-> disk'[g]]
        /\ cache'[f] = Content(f) /\ disk'[f] = disk[f] \cup {Content(f)}
        /\ \A g \in Files \ {f} : cache'[g] = cache[g] /\ disk'[g] = disk[g]
    BY <1>0, <1>3, <2>1, PutEffect DEF Rename
  <2>3. \A g \in Files : cache'[g] \in disk'[g]
    BY <2>2 DEF TypeInv, FileTypes
  <2>4. Content(f) \in IF f = "run" THEN {Made} ELSE Nat
    BY ContentType
  <2>5. FileTypes'
    BY <1>0, <2>2, <2>3, <2>4 DEF TypeInv, FileTypes, Files, InRun, Directories, Documents
  <2>. QED
    BY <1>0, <1>3, <2>2, <2>5, FileKinds DEF Rename, Directories, Files, InRun
<1>. QED
  BY <1>1, <1>2, <1>3 DEF Replace

\* What the steps of writeAtomic do to its file, and to the others.
LEMMA AtomicEffect ==
    ASSUME TypeInv, TempInv, NEW f \in Documents \ {"output"}, NEW next, WriteAtomic(f, next)
    PROVE  /\ FileTypes' /\ At(f) /\ UNCHANGED <<issued, history>>
           /\ \A g \in Files \ (Directories \cup {f}) :
                 cache'[g] = cache[g] /\ disk'[g] \subseteq disk[g] /\ cache[g] \in disk'[g]
           /\ \A g \in Directories : disk'[g] \subseteq disk[g] \cup {Made}
           /\ \/ /\ AtStep("write") /\ job' = Then("sync")
                 /\ cache'[f] = cache[f] /\ disk'[f] = disk[f]
                 /\ temp' = {Partial, Content(f)}
              \/ /\ AtStep("sync") /\ job' = Then("rename")
                 /\ cache' = cache /\ disk' = disk
                 /\ temp' = temp \ {Partial}
              \/ /\ AtStep("rename") /\ job' = Then("commit")
                 /\ cache'[f] = Content(f) /\ disk'[f] = disk[f] \cup {Content(f)}
                 /\ temp' = {}
              \/ /\ AtStep("commit") /\ job' = next
                 /\ cache' = cache /\ cache[f] \in disk'[f]
                 /\ disk'[f] \subseteq disk[f] /\ disk'[f] \subseteq {cache[f], Partial}
<1>0. f \in Files \ Directories /\ f # "journal" /\ \A g \in Files : cache[g] \in disk[g]
  BY FileKinds DEF TypeInv, FileTypes
<1>1. CASE Replace(f, Then("commit"))
  BY <1>0, <1>1, ReplaceEffect DEF WriteAtomic
<1>2. CASE AtStep("commit") /\ SyncParent(f) /\ job' = next
  <2>1. /\ cache' = cache
        /\ \A g \in Files : disk'[g] \subseteq disk[g] /\ cache'[g] \in disk'[g]
        /\ disk'[f] \subseteq {cache[f], Partial}
    BY <1>0, <1>2, SyncParentEffect
  <2>. QED
    BY <1>0, <1>2, <2>1, SyncTypes DEF WriteAtomic, Files, InRun, Directories
<1>. QED
  BY <1>1, <1>2 DEF WriteAtomic

\* The same for a report file, where a removal is done at once.
LEMMA ReportEffect ==
    ASSUME TypeInv, TempInv, NEW f \in {"gate", "report"}, NEW next, WriteReportFile(f, next)
    PROVE  /\ FileTypes' /\ At(f) /\ UNCHANGED <<issued, history>>
           /\ \A g \in Files \ (Directories \cup {f}) :
                 cache'[g] = cache[g] /\ disk'[g] \subseteq disk[g] /\ cache[g] \in disk'[g]
           /\ \A g \in Directories : disk'[g] \subseteq disk[g] \cup {Made}
           /\ disk'[f] \subseteq disk[f] \cup {Missing} \cup ({job.verdict} \ {0})
           /\ \/ AtStep("write") /\ job' = Then("sync") /\ temp' = {Partial, Content(f)}
              \/ AtStep("sync") /\ job' = Then("rename") /\ temp' = temp \ {Partial}
              \/ AtStep("rename") /\ job' = Then("commit")
              \/ job' = next
<1>0. /\ f \in Files \ Directories /\ f \in Documents \ {"output"} /\ Content(f) = job.verdict
      /\ \A g \in Files : cache[g] \in disk[g]
  BY FileKinds, ContentType DEF TypeInv, FileTypes, Documents
<1>1. CASE job.verdict # 0 /\ WriteAtomic(f, next)
  <2>1. disk'[f] \subseteq disk[f] \cup {job.verdict}
    BY <1>0, <1>1, AtomicEffect
  <2>. QED
    BY <1>0, <1>1, <2>1, AtomicEffect
<1>2. CASE /\ job.verdict = 0 /\ At(f) /\ Remove(f) /\ job' = next
           /\ UNCHANGED <<issued, history>>
  <2>1. CASE UNCHANGED <<cache, disk>>
    BY <1>0, <1>2, <2>1 DEF TypeInv, FileTypes
  <2>2. CASE Put(f, Missing, {Missing})
    <3>1. /\ cache' = [g \in Files |-> cache'[g]] /\ disk' = [g \in Files |-> disk'[g]]
          /\ cache'[f] = Missing /\ disk'[f] = disk[f] \cup {Missing}
          /\ \A g \in Files \ {f} : cache'[g] = cache[g] /\ disk'[g] = disk[g]
      BY <1>0, <2>2, PutEffect
    <3>2. FileTypes'
      BY <1>0, <3>1 DEF TypeInv, FileTypes, Files, InRun
    <3>. QED
      BY <1>0, <1>2, <3>1, <3>2, FileKinds DEF Directories, Files, InRun
  <2>. QED
    BY <1>2, <2>1, <2>2 DEF Remove
<1>. QED
  BY <1>1, <1>2 DEF WriteReportFile

\* What WriteLine leaves: the event and its newline, the event, a part of it,
\* or nothing of it.
LEMMA WriteLineEffect ==
    ASSUME TypeInv, NEW event \in Nat, WriteLine(event)
    PROVE  /\ FileTypes' /\ temp' = temp
           /\ Journal \in Seq(Appended)
           /\ cache'["journal"] = With(event, TRUE)
           /\ disk'["journal"] =
                 disk["journal"] \cup
                 {Journal, With(Torn, FALSE), With(event, FALSE), With(event, TRUE)}
           /\ \A g \in Files \ {"journal"} : cache'[g] = cache[g] /\ disk'[g] = disk[g]
<1>1. Journal \in Seq(Appended)
  BY JournalType DEF TypeInv
<1>2. {Journal, With(Torn, FALSE), With(event, FALSE), With(event, TRUE)} \subseteq JournalContents
  <2>2. ASSUME NEW e \in Nat \cup {Torn}, NEW b \in BOOLEAN PROVE With(e, b) \in Seq(Appended)
    <3>1. [event |-> e, ended |-> b] \in Appended
      BY DEF Appended
    <3>2. \A a \in Appended : Append(Journal, a) \in Seq(Appended)
      BY <1>1
    <3>. QED
      BY <3>1, <3>2 DEF With
  <2>. QED
    BY <1>1, <2>2 DEF JournalContents
<1>3. /\ cache'["journal"] = With(event, TRUE)
      /\ disk'["journal"] =
            disk["journal"] \cup
            {Journal, With(Torn, FALSE), With(event, FALSE), With(event, TRUE)}
      /\ \A g \in Files \ {"journal"} : cache'[g] = cache[g] /\ disk'[g] = disk[g]
      /\ cache' = [g \in Files |-> cache'[g]] /\ disk' = [g \in Files |-> disk'[g]]
  <2>1. "journal" \in Files /\ Put("journal", With(event, TRUE),
           {Journal, With(Torn, FALSE), With(event, FALSE), With(event, TRUE)})
    BY FileKinds DEF WriteLine
  <2>. QED
    BY <2>1, PutEffect
<1>4. FileTypes'
  BY <1>2, <1>3 DEF TypeInv, FileTypes, Files, InRun
<1>. QED
  BY <1>1, <1>3, <1>4 DEF WriteLine

LEMMA SyncJournalEffect ==
    ASSUME TypeInv, SyncJournal
    PROVE  /\ FileTypes'
           /\ cache' = cache /\ temp' = temp
           /\ disk'["journal"] = (disk["journal"] \cap {Missing}) \cup {cache["journal"]}
           /\ \A g \in Files \ {"journal"} : disk'[g] = disk[g]
BY DEF SyncJournal, TypeInv, FileTypes, Files, InRun

LEMMA PowerLossEffect ==
    ASSUME TypeInv, PowerLoss
    PROVE  /\ cache' = [f \in Files |-> cache'[f]]
           /\ \A f \in Files : disk'[f] = {cache'[f]} /\ cache'[f] \in disk[f] \cup {Missing}
           /\ \A f \in InRun : cache'[f] \in disk[f]
<1>1. PICK c \in [run : disk["run"], journal : disk["journal"],
                 projections : disk["projections"], reports : disk["reports"],
                 status : disk["status"], gate : disk["gate"],
                 report : disk["report"], output : disk["output"]] :
          /\ cache' = Rooted(c)
          /\ disk' = [f \in Files |-> {cache'[f]}]
  BY DEF PowerLoss
<1>2. \A f \in Files : c[f] \in disk[f]
  BY <1>1 DEF Files, InRun
<1>3. \A f \in Files : cache'[f] = c[f] \/ cache'[f] = Missing
  BY <1>1 DEF Rooted
<1>4. \A f \in InRun : cache'[f] = c[f]
  BY <1>1, ParentValues DEF Rooted, Files, InRun
<1>. QED
  BY <1>1, <1>2, <1>3, <1>4 DEF Rooted, Files, InRun

LEMMA InitTypes == Init => TypeInv
<1>. SUFFICES ASSUME Init PROVE TypeInv
  OBVIOUS
<1>1. FileTypes
  BY DEF Init, FileTypes, JournalContents, Files, InRun
<1>2. JobTypes
  <2>1. job = NoJob /\ issued = 0 /\ anchored = FALSE /\ lost = FALSE /\ exposed = FALSE
    BY DEF Init
  <2>2. issued \in Nat /\ issued <= MaxEvaluations
    BY <2>1, SentinelsAssumption
  <2>3. anchored \in BOOLEAN /\ lost \in BOOLEAN /\ exposed \in BOOLEAN
    BY <2>1
  <2>4. job \in [cmd : {"none", "evaluate", "reconcile", "report"},
                stage : Files \cup {"idle", "dir", "answer"},
                step : {"write", "sync", "rename", "commit"}, line : Nat, verdict : Nat]
    BY <2>1 DEF NoJob
  <2>. QED
    BY <2>1, <2>2, <2>3, <2>4 DEF JobTypes, NoJob
<1>. QED
  BY <1>1, <1>2 DEF TypeInv

\* At work means that there is a job.
LEMMA Working ==
    ASSUME TypeInv PROVE \A stage \in Files \cup {"dir", "answer"} : At(stage) => job # NoJob
BY DEF TypeInv, JobTypes, At, NoJob, Files, InRun

\* A job that ends, or that goes on to a stage of the same command.
LEMMA StageTypes ==
    ASSUME TypeInv, UNCHANGED <<issued, history>>,
           \/ job' = NoJob
           \/ job # NoJob /\ \E step \in {"sync", "rename", "commit"} : job' = Then(step)
           \/ /\ job # NoJob /\ ~At("output")
              /\ \E stage \in (Files \ {"output"}) \cup {"dir", "answer"} :
                    \E line \in Nat :
                        job' = To(stage) \/ job' = [To(stage) EXCEPT !.line = line]
    PROVE  JobTypes'
<1>1. CASE job' = NoJob
  BY <1>1 DEF TypeInv, JobTypes, NoJob, history, Files, InRun
<1>2. ASSUME job # NoJob, NEW step \in {"sync", "rename", "commit"}, job' = Then(step)
      PROVE  JobTypes'
  BY <1>2 DEF TypeInv, JobTypes, NoJob, history, Then
<1>3. ASSUME job # NoJob, ~At("output"),
             NEW stage \in (Files \ {"output"}) \cup {"dir", "answer"}, NEW line \in Nat,
             job' = To(stage) \/ job' = [To(stage) EXCEPT !.line = line]
      PROVE  JobTypes'
  <2>1. /\ job' \in [cmd : {"none", "evaluate", "reconcile", "report"},
                    stage : Files \cup {"idle", "dir", "answer"},
                    step : {"write", "sync", "rename", "commit"}, line : Nat, verdict : Nat]
        /\ job'.cmd = job.cmd /\ job'.stage = stage
    BY <1>3 DEF TypeInv, JobTypes, To
  <2>2. job.cmd # "none" /\ job.cmd # "report"
    BY <1>3 DEF TypeInv, JobTypes, At
  <2>3. stage # "idle" /\ stage # "output"
    BY <1>3 DEF Files, InRun
  <2>. QED
    BY <2>1, <2>2, <2>3 DEF TypeInv, JobTypes, NoJob, history
<1>. QED
  BY <1>1, <1>2, <1>3

LEMMA AtomicTypes ==
    ASSUME TypeInv, TempInv, NEW f \in Documents \ {"output"}, NEW next, WriteAtomic(f, next),
           \E stage \in (Files \ {"output"}) \cup {"dir", "answer"} :
              \E line \in Nat : next = To(stage) \/ next = [To(stage) EXCEPT !.line = line]
    PROVE  TypeInv'
<1>1. /\ FileTypes' /\ At(f) /\ UNCHANGED <<issued, history>>
      /\ \/ \E step \in {"sync", "rename", "commit"} : job' = Then(step)
         \/ job' = next
  BY AtomicEffect
<1>2. job # NoJob /\ ~At("output")
  BY <1>1, Working, FileKinds DEF At
<1>. QED
  BY <1>1, <1>2, StageTypes DEF TypeInv

LEMMA ReportTypes ==
    ASSUME TypeInv, TempInv, NEW f \in {"gate", "report"},
           NEW stage \in (Files \ {"output"}) \cup {"dir", "answer"},
           WriteReportFile(f, To(stage))
    PROVE  TypeInv'
<1>1. /\ FileTypes' /\ At(f) /\ UNCHANGED <<issued, history>>
      /\ \/ \E step \in {"sync", "rename", "commit"} : job' = Then(step)
         \/ job' = To(stage)
  BY ReportEffect
<1>2. job # NoJob /\ ~At("output") /\ 0 \in Nat
  BY <1>1, Working, FileKinds DEF At, Documents
<1>. QED
  BY <1>1, <1>2, StageTypes DEF TypeInv

LEMMA PowerLossTypes == TypeInv /\ PowerLoss => TypeInv'
<1>. SUFFICES ASSUME TypeInv, PowerLoss PROVE TypeInv'
  OBVIOUS
<1>1. FileTypes'
  <2>1. /\ cache' = [f \in Files |-> cache'[f]]
        /\ \A f \in Files : disk'[f] = {cache'[f]} /\ cache'[f] \in disk[f] \cup {Missing}
    BY PowerLossEffect
  <2>2. disk' = [f \in Files |-> disk'[f]]
    BY DEF PowerLoss
  <2>3. /\ disk["journal"] \subseteq JournalContents
        /\ \A f \in {"projections", "reports"} : disk[f] \subseteq {Missing, Made}
        /\ disk["run"] \subseteq {Missing, Partial, Made}
        /\ \A f \in {"status", "gate", "report", "output"} :
              disk[f] \subseteq {Missing, Partial} \cup Nat
    BY DEF TypeInv, FileTypes
  <2>4. {"journal", "run", "projections", "reports", "status", "gate", "report", "output"} = Files
    BY DEF Files, InRun
  <2>5. disk'["journal"] \subseteq JournalContents
    BY <2>1, <2>3, <2>4 DEF JournalContents
  <2>. QED
    BY <2>1, <2>2, <2>3, <2>4, <2>5 DEF FileTypes
<1>2. JobTypes'
  BY DEF TypeInv, JobTypes, PowerLoss, NoJob, Files, InRun
<1>. QED
  BY <1>1, <1>2 DEF TypeInv

LEMMA NextTypes == TypeInv /\ TempInv /\ [Next]_vars => TypeInv'
<1>. SUFFICES ASSUME TypeInv, TempInv, [Next]_vars PROVE TypeInv'
  OBVIOUS
<1>0. 0 \in Nat /\ job.verdict \in Nat /\ job.line \in Nat /\ issued \in Nat
      /\ {"run", "status"} \subseteq Documents \ {"output"}
      /\ {"journal", "gate", "report", "status"} \subseteq Files \ {"output"}
  BY DEF TypeInv, JobTypes, Documents, Files, InRun
<1>u. ASSUME UNCHANGED files PROVE FileTypes'
  BY <1>u DEF TypeInv, FileTypes, files
<1>1. CASE Evaluate
  <2>1. \E stage \in {"run", "journal"} : \E line \in Nat :
           job' = Started("evaluate", stage, line, issued')
    BY <1>0, <1>1 DEF Evaluate
  <2>2. issued' \in Nat /\ issued' <= MaxEvaluations /\ UNCHANGED history
    BY <1>0, <1>1, SentinelsAssumption DEF Evaluate
  <2>3. JobTypes'
    BY <2>1, <2>2 DEF TypeInv, JobTypes, NoJob, Started, history, Files, InRun
  <2>. QED
    BY <1>1, <1>u, <2>3 DEF Evaluate, TypeInv
<1>2. CASE WriteRun
  BY <1>0, <1>2, AtomicTypes DEF WriteRun
<1>3. CASE AppendEvent
  <2>0. job # NoJob /\ UNCHANGED <<issued, history>> /\ ~At("output")
    BY <1>3, Working, FileKinds DEF AppendEvent, At
  <2>1. CASE WriteLine(job.line) /\ job' = Then("sync")
    BY <1>0, <2>0, <2>1, WriteLineEffect, StageTypes DEF TypeInv
  <2>2. CASE job' = NoJob /\ UNCHANGED files
    BY <1>u, <2>0, <2>2, StageTypes DEF TypeInv
  <2>3. CASE SyncJournal /\ job' = To("status")
    BY <1>0, <2>0, <2>3, SyncJournalEffect, StageTypes DEF TypeInv
  <2>. QED
    BY <1>3, <2>1, <2>2, <2>3 DEF AppendEvent
<1>4. CASE WriteStatus
  BY <1>0, <1>4, AtomicTypes DEF WriteStatus
<1>5. CASE WriteGate
  BY <1>0, <1>5, ReportTypes DEF WriteGate
<1>6. CASE WriteReport
  BY <1>6, ReportTypes DEF WriteReport
<1>7. CASE Reconcile
  <2>1. \A i \in VerdictLines : Journal[i].event \in Nat
    <3>1. Journal \in Seq(Appended) /\ \A i \in DOMAIN Journal : Journal[i].event # Torn
      BY <1>7, JournalType DEF Reconcile, Readable, TypeInv
    <3>2. \A i \in DOMAIN Journal : Journal[i] \in Appended
      BY <3>1
    <3>. QED
      BY <3>1, <3>2 DEF VerdictLines, Appended
  <2>2. PICK verdict \in Nat : job' = Started("reconcile", "status", 0, verdict)
    BY <1>0, <1>7, <2>1 DEF Reconcile
  <2>3. JobTypes'
    BY <1>7, <2>2 DEF Reconcile, TypeInv, JobTypes, NoJob, Started, history, Files, InRun
  <2>. QED
    BY <1>7, <1>u, <2>3 DEF Reconcile, TypeInv
<1>8. CASE SyncRun
  <2>1. job # NoJob /\ ~At("output")
    BY <1>8, Working DEF SyncRun, At
  <2>. QED
    BY <1>0, <1>8, <2>1, SyncTypes, StageTypes DEF SyncRun, TypeInv
<1>9. CASE Report
  <2>1. cache["report"] \in Nat
    BY <1>9 DEF Report, TypeInv, FileTypes, Files, InRun
  <2>2. JobTypes'
    BY <1>9, <2>1 DEF Report, TypeInv, JobTypes, NoJob, Started, history, Files, InRun
  <2>. QED
    BY <1>9, <1>u, <2>2 DEF Report, TypeInv
<1>10. CASE WriteOutput
  <2>1. /\ At("output") /\ UNCHANGED <<issued, history>>
        /\ Replace("output", NoJob) /\ "output" \in Documents
    BY <1>10 DEF WriteOutput, Documents
  <2>2. FileTypes' /\ (job' = NoJob \/ \E step \in {"sync", "rename"} : job' = Then(step))
    BY <2>1, ReplaceEffect
  <2>. QED
    BY <2>1, <2>2, StageTypes, Working, FileKinds DEF TypeInv
<1>11. CASE Answer
  <2>1. JobTypes'
    BY <1>11 DEF Answer, TypeInv, JobTypes, NoJob, Files, InRun
  <2>. QED
    BY <1>11, <1>u, <2>1 DEF Answer, TypeInv
<1>12. CASE Interrupt
  BY <1>12 DEF Interrupt, Unsynced, TypeInv, FileTypes, JobTypes, NoJob, Files, InRun
<1>13. CASE PowerLoss
  BY <1>13, PowerLossTypes
<1>14. CASE UNCHANGED vars
  BY <1>14 DEF vars, files, history, TypeInv, FileTypes, JobTypes, NoJob
<1>. QED
  BY <1>1, <1>2, <1>3, <1>4, <1>5, <1>6, <1>7, <1>8, <1>9, <1>10, <1>11, <1>12, <1>13, <1>14
  DEF Next

-----------------------------------------------------------------------------
(***************************************************************************)
(* What a step does to the job, to the journal and to the projections.     *)
(***************************************************************************)
LEMMA HistoryGrows ==
    ASSUME TypeInv, [Next]_vars PROVE (exposed => exposed') /\ (lost => lost')
<1>1. exposed \in BOOLEAN /\ lost \in BOOLEAN
  BY DEF TypeInv, JobTypes
<1>2. CASE UNCHANGED history
  BY <1>2 DEF history
<1>3. CASE ~UNCHANGED history
  BY <1>1, <1>3
  DEF Next, vars, history, Evaluate, WriteRun, AppendEvent, WriteStatus, WriteGate, WriteReport,
      WriteReportFile, WriteAtomic, Reconcile, SyncRun, Report, WriteOutput, Answer,
      Interrupt, PowerLoss
<1>. QED
  BY <1>2, <1>3

\* A stage of a command, and the next.
Follows(stage) ==
    /\ job'.step = "write"
    /\ \/ At("run") /\ stage = "journal" /\ job'.line = job.line
       \/ At("journal") /\ AtStep("sync") /\ stage = "status" /\ job'.line = job.line
       \/ /\ At("status") /\ stage = "gate" /\ job'.line = job.line
          /\ ~(job.cmd = "evaluate" /\ job.line # job.verdict)
       \/ At("status") /\ stage = "journal" /\ job.cmd = "evaluate"
       \/ At("gate") /\ stage = "report" /\ job'.line = job.line
       \/ /\ At("report") /\ job'.line = job.line
          /\ stage = IF job.cmd = "reconcile" THEN "dir" ELSE "answer"
       \/ At("dir") /\ stage = "answer" /\ job'.line = job.line

\* A job that neither starts nor ends goes on to its next step or stage.
LEMMA Moves ==
    ASSUME TypeInv, TempInv, [Next]_vars, job # NoJob, job' # NoJob
    PROVE  /\ UNCHANGED <<issued, history>>
           /\ job'.cmd = job.cmd /\ job'.verdict = job.verdict
           /\ \/ job' = job /\ UNCHANGED files
              \/ /\ job'.stage = job.stage /\ job'.line = job.line
                 /\ \/ ~At("journal") /\ job'.step \in {"sync", "rename", "commit"}
                    \/ At("journal") /\ AtStep("write") /\ job'.step = "sync"
              \/ Follows(job'.stage)
<1>0. {"run", "status"} \subseteq Documents \ {"output"} /\ "output" \in Documents
  BY DEF Documents
<1>1. CASE WriteRun
  <2>1. /\ At("run") /\ UNCHANGED <<issued, history>>
        /\ (\E step \in {"sync", "rename", "commit"} : job' = Then(step)) \/ job' = To("journal")
    BY <1>0, <1>1, AtomicEffect DEF WriteRun
  <2>. QED
    BY <2>1, JobSteps DEF Follows, At
<1>2. CASE AppendEvent
  BY <1>2, JobSteps DEF AppendEvent, Follows, At
<1>3. CASE WriteStatus
  <2>1. /\ At("status") /\ UNCHANGED <<issued, history>>
        /\ \/ \E step \in {"sync", "rename", "commit"} : job' = Then(step)
           \/ job' = IF job.cmd = "evaluate" /\ job.line # job.verdict
                     THEN [To("journal") EXCEPT !.line = job.verdict]
                     ELSE To("gate")
    BY <1>0, <1>3, AtomicEffect DEF WriteStatus
  <2>2. ASSUME NEW step \in {"sync", "rename", "commit"}, job' = Then(step)
        PROVE  /\ job'.cmd = job.cmd /\ job'.verdict = job.verdict
               /\ job'.stage = job.stage /\ job'.line = job.line /\ job'.step = step
    BY <2>2, JobSteps
  <2>3. CASE job' = To("gate") /\ ~(job.cmd = "evaluate" /\ job.line # job.verdict)
    BY <2>1, <2>3, JobSteps DEF Follows
  <2>4. CASE job' = [To("journal") EXCEPT !.line = job.verdict] /\ job.cmd = "evaluate"
    <3>1. job'.stage = "journal" /\ job'.step = "write" /\ job'.cmd = job.cmd
          /\ job'.verdict = job.verdict
      BY <2>4, JobSteps
    <3>. QED
      BY <2>1, <2>4, <3>1 DEF Follows
  <2>. QED
    BY <2>1, <2>2, <2>3, <2>4 DEF At
<1>4. CASE WriteGate
  <2>1. /\ At("gate") /\ UNCHANGED <<issued, history>>
        /\ (\E step \in {"sync", "rename", "commit"} : job' = Then(step)) \/ job' = To("report")
    BY <1>4, ReportEffect DEF WriteGate
  <2>. QED
    BY <2>1, JobSteps DEF Follows, At
<1>5. CASE WriteReport
  <2>1. /\ At("report") /\ UNCHANGED <<issued, history>>
        /\ \/ \E step \in {"sync", "rename", "commit"} : job' = Then(step)
           \/ job' = To(IF job.cmd = "reconcile" THEN "dir" ELSE "answer")
    BY <1>5, ReportEffect DEF WriteReport
  <2>. QED
    BY <2>1, JobSteps DEF Follows, At
<1>6. CASE SyncRun
  BY <1>6, JobSteps DEF SyncRun, Follows, At
<1>7. CASE WriteOutput
  <2>1. At("output") /\ UNCHANGED <<issued, history>> /\ Replace("output", NoJob)
    BY <1>7 DEF WriteOutput
  <2>2. \E step \in {"sync", "rename"} : job' = Then(step)
    BY <1>0, <2>1, ReplaceEffect
  <2>. QED
    BY <2>1, <2>2, JobSteps DEF At
<1>8. CASE UNCHANGED vars
  BY <1>8 DEF vars
<1>9. ~Evaluate /\ ~Reconcile /\ ~Report /\ ~Answer /\ ~Interrupt /\ ~PowerLoss
  BY DEF Evaluate, Reconcile, Report, Answer, Interrupt, PowerLoss
<1>. QED
  BY <1>1, <1>2, <1>3, <1>4, <1>5, <1>6, <1>7, <1>8, <1>9 DEF Next

Appends == At("journal") /\ AtStep("write") /\ Readable /\ WriteLine(job.line) /\ job' = Then("sync")

\* Only an append and a power loss change what the journal holds or add to
\* what it may hold.
LEMMA JournalKept ==
    ASSUME TypeInv, TempInv, [Next]_vars, ~PowerLoss, ~Appends
    PROVE  cache'["journal"] = cache["journal"] /\ disk'["journal"] \subseteq disk["journal"]
<1>0. /\ "journal" \in Files /\ \A f \in Documents : "journal" \in Files \ (Directories \cup {f})
      /\ {"run", "status"} \subseteq Documents \ {"output"} /\ "output" \in Documents
      /\ {"gate", "report"} \subseteq Documents
      /\ cache["journal"] \in disk["journal"]
  BY FileKinds DEF TypeInv, FileTypes, Documents
<1>1. CASE UNCHANGED files
  BY <1>1 DEF files
<1>2. CASE WriteRun
  BY <1>0, <1>2, AtomicEffect DEF WriteRun
<1>3. CASE AppendEvent
  <2>1. CASE SyncJournal
    BY <1>0, <2>1, SyncJournalEffect
  <2>. QED
    BY <1>1, <1>3, <2>1 DEF AppendEvent, Appends
<1>4. CASE WriteStatus
  BY <1>0, <1>4, AtomicEffect DEF WriteStatus
<1>5. CASE WriteGate
  BY <1>0, <1>5, ReportEffect DEF WriteGate
<1>6. CASE WriteReport
  BY <1>0, <1>6, ReportEffect DEF WriteReport
<1>7. CASE SyncRun
  BY <1>0, <1>7, SyncParentEffect DEF SyncRun
<1>8. CASE WriteOutput
  BY <1>0, <1>8, ReplaceEffect DEF WriteOutput
<1>9. CASE Interrupt
  BY <1>9 DEF Interrupt
<1>10. CASE Evaluate \/ Reconcile \/ Report \/ Answer \/ UNCHANGED vars
  BY <1>1, <1>10 DEF Evaluate, Reconcile, Report, Answer, vars
<1>. QED
  BY <1>2, <1>3, <1>4, <1>5, <1>6, <1>7, <1>8, <1>9, <1>10 DEF Next

\* A document is only given its content, at its own stage.
LEMMA DocumentsKept ==
    ASSUME TypeInv, TempInv, [Next]_vars, ~PowerLoss, NEW f \in Documents
    PROVE  disk'[f] \subseteq disk[f] \cup {Missing}
              \cup {c \in {Content(f)} : At(f) /\ (f \in {"gate", "report"} => job.verdict # 0)}
<1>0. /\ f \in Files /\ f # "journal"
      /\ \A g \in Documents \ {f} : f \in Files \ (Directories \cup {g})
      /\ {"run", "status"} \subseteq Documents \ {"output"} /\ "output" \in Documents
      /\ {"gate", "report"} \subseteq Documents
      /\ \A g \in {"gate", "report"} : Content(g) = job.verdict
  BY FileKinds, ContentType DEF Documents
<1>1. CASE UNCHANGED files
  BY <1>1 DEF files
<1>2. CASE WriteRun
  <2>1. PICK next : WriteAtomic("run", next)
    BY <1>2 DEF WriteRun
  <2>. QED
    BY <1>0, <2>1, AtomicEffect
<1>3. CASE AppendEvent
  <2>1. CASE SyncJournal
    BY <1>0, <2>1, SyncJournalEffect
  <2>2. CASE WriteLine(job.line)
    BY <1>0, <2>2, WriteLineEffect DEF TypeInv, JobTypes
  <2>. QED
    BY <1>1, <1>3, <2>1, <2>2 DEF AppendEvent
<1>4. CASE WriteStatus
  <2>1. PICK next : WriteAtomic("status", next)
    BY <1>4 DEF WriteStatus
  <2>. QED
    BY <1>0, <2>1, AtomicEffect
<1>5. ASSUME NEW g \in {"gate", "report"}, NEW next, WriteReportFile(g, next)
      PROVE  disk'[f] \subseteq disk[f] \cup {Missing}
                \cup {c \in {Content(f)} : At(f) /\ (f \in {"gate", "report"} => job.verdict # 0)}
  BY <1>0, <1>5, ReportEffect
<1>6. CASE WriteGate \/ WriteReport
  BY <1>5, <1>6 DEF WriteGate, WriteReport
<1>7. CASE SyncRun
  BY <1>0, <1>7, FileKinds, SyncParentEffect DEF SyncRun
<1>8. CASE WriteOutput
  <2>1. At("output") /\ Replace("output", NoJob)
    BY <1>8 DEF WriteOutput
  <2>. QED
    BY <1>0, <2>1, ReplaceEffect
<1>9. CASE Interrupt
  BY <1>9 DEF Interrupt
<1>10. CASE Evaluate \/ Reconcile \/ Report \/ Answer \/ UNCHANGED vars
  BY <1>1, <1>10 DEF Evaluate, Reconcile, Report, Answer, vars
<1>. QED
  BY <1>2, <1>3, <1>4, <1>6, <1>7, <1>8, <1>9, <1>10 DEF Next

-----------------------------------------------------------------------------
(***************************************************************************)
(* Whole documents.                                                        *)
(***************************************************************************)
LEMMA NextTemp ==
    ASSUME TypeInv, TempInv, [Next]_vars PROVE TempInv'
<1>0. /\ {"run", "status"} \subseteq Documents \ {"output"} /\ "output" \in Documents
      /\ {"gate", "report"} \subseteq Documents
  BY DEF Documents
<1>1. ASSUME job'.step \in {"write", "commit"} \/ (job'.step = "sync" /\ job'.stage = "journal")
      PROVE  TempInv'
  BY <1>1 DEF TempInv, AtStep, At
<1>2. CASE job' = NoJob \/ \E stage : job' = To(stage)
  BY <1>1, <1>2, JobSteps DEF NoJob
<1>3. ASSUME NEW f \in Documents, At(f), cache'["journal"] = cache["journal"],
             \/ AtStep("write") /\ job' = Then("sync") /\ temp' = {Partial, Content(f)}
             \/ AtStep("sync") /\ job' = Then("rename") /\ temp' = temp \ {Partial}
             \/ job' = Then("commit")
      PROVE  TempInv'
  <2>1. job'.stage = f /\ f # "journal" /\ job'.verdict = job.verdict
    BY <1>3, JobSteps, FileKinds DEF At
  <2>2. (Content(job.stage))' = Content(f)
    BY <1>3, <2>1 DEF Content, Journal
  <2>3. Partial # Content(f)
    BY ContentType, PartialIsNoContent
  <2>4. CASE AtStep("write") /\ job' = Then("sync") /\ temp' = {Partial, Content(f)}
    BY <2>2, <2>4, JobSteps DEF TempInv, AtStep
  <2>5. CASE AtStep("sync") /\ job' = Then("rename") /\ temp' = temp \ {Partial}
    <3>1. temp = {Partial, Content(f)}
      BY <1>3, <2>1, <2>5 DEF TempInv, At
    <3>. QED
      BY <2>2, <2>3, <2>5, <3>1, JobSteps DEF TempInv, AtStep
  <2>6. CASE job' = Then("commit")
    BY <1>1, <2>6, JobSteps
  <2>. QED
    BY <1>3, <2>4, <2>5, <2>6
<1>4. ASSUME NEW f \in Documents \ {"output"}, NEW next, WriteAtomic(f, next), next.step = "write"
      PROVE  TempInv'
  <2>1. /\ At(f) /\ cache'["journal"] = cache["journal"]
        /\ \/ AtStep("write") /\ job' = Then("sync") /\ temp' = {Partial, Content(f)}
           \/ AtStep("sync") /\ job' = Then("rename") /\ temp' = temp \ {Partial}
           \/ job' = Then("commit")
           \/ job' = next
    BY <1>4, AtomicEffect, FileKinds
  <2>. QED
    BY <1>1, <1>3, <1>4, <2>1
<1>5. ASSUME NEW f \in {"gate", "report"}, NEW stage, WriteReportFile(f, To(stage))
      PROVE  TempInv'
  <2>1. /\ At(f) /\ cache'["journal"] = cache["journal"]
        /\ \/ AtStep("write") /\ job' = Then("sync") /\ temp' = {Partial, Content(f)}
           \/ AtStep("sync") /\ job' = Then("rename") /\ temp' = temp \ {Partial}
           \/ job' = Then("commit")
           \/ job' = To(stage)
    BY <1>0, <1>5, ReportEffect, FileKinds
  <2>. QED
    BY <1>0, <1>2, <1>3, <2>1
<1>6. CASE WriteRun
  BY <1>0, <1>4, <1>6, JobSteps DEF WriteRun
<1>7. CASE AppendEvent
  <2>1. job' = NoJob \/ job' = To("status") \/ (At("journal") /\ job' = Then("sync"))
    BY <1>7 DEF AppendEvent
  <2>. QED
    BY <1>1, <1>2, <2>1, JobSteps DEF At
<1>8. CASE WriteStatus
  <2>1. PICK next : next.step = "write" /\ WriteAtomic("status", next)
    <3>1. To("gate").step = "write" /\ [To("journal") EXCEPT !.line = job.verdict].step = "write"
      BY JobSteps
    <3>. QED
      BY <1>8, <3>1 DEF WriteStatus
  <2>. QED
    BY <1>0, <1>4, <2>1
<1>9. CASE WriteGate \/ WriteReport
  BY <1>5, <1>9 DEF WriteGate, WriteReport
<1>10. CASE SyncRun
  BY <1>2, <1>10 DEF SyncRun
<1>11. CASE WriteOutput
  <2>1. At("output") /\ Replace("output", NoJob)
    BY <1>11 DEF WriteOutput
  <2>2. /\ cache'["journal"] = cache["journal"]
        /\ \/ AtStep("write") /\ job' = Then("sync") /\ temp' = {Partial, Content("output")}
           \/ AtStep("sync") /\ job' = Then("rename") /\ temp' = temp \ {Partial}
           \/ job' = NoJob
    BY <1>0, <2>1, ReplaceEffect, FileKinds
  <2>. QED
    BY <1>0, <1>2, <1>3, <2>1, <2>2
<1>12. CASE Evaluate \/ Reconcile \/ Report
  <2>1. job'.step = "write"
    BY <1>12 DEF Evaluate, Reconcile, Report, Started
  <2>. QED
    BY <1>1, <2>1
<1>13. CASE Answer \/ Interrupt \/ PowerLoss
  BY <1>2, <1>13 DEF Answer, Interrupt, PowerLoss
<1>14. CASE UNCHANGED vars
  BY <1>14 DEF vars, files, TempInv, At, AtStep, Content, Journal
<1>. QED
  BY <1>6, <1>7, <1>8, <1>9, <1>10, <1>11, <1>12, <1>13, <1>14 DEF Next

LEMMA NextWhole ==
    ASSUME TypeInv, WholeInv, [Next]_vars PROVE WholeInv'
<1>0. TempInv /\ NoPartialDocument
  BY DEF WholeInv
<1>1. TempInv'
  BY <1>0, NextTemp
<1>. SUFFICES ASSUME NEW f \in Files PROVE Partial \notin disk'[f]
  BY <1>1 DEF WholeInv, NoPartialDocument
<1>2. FileTypes' /\ f \in Documents \cup {"journal", "projections", "reports"}
  BY <1>0, NextTypes, FileKinds DEF TypeInv
<1>3. CASE f \in {"journal", "projections", "reports"}
  BY <1>2, <1>3, PartialIsNoContent DEF FileTypes
<1>4. CASE f \in Documents
  <2>1. Partial \notin disk[f] \cup {Missing} \cup {Content(f)}
    BY <1>0, <1>4, ContentType, PartialIsNoContent, FileKinds DEF NoPartialDocument
  <2>2. CASE PowerLoss
    BY <2>1, <2>2, PowerLossEffect
  <2>3. CASE ~PowerLoss
    BY <1>0, <1>4, <2>1, <2>3, DocumentsKept
  <2>. QED
    BY <2>2, <2>3
<1>. QED
  BY <1>2, <1>3, <1>4

-----------------------------------------------------------------------------
(***************************************************************************)
(* run.json before the journal.                                            *)
(***************************************************************************)
\* Only the creation of a run and a power loss change run.json.
LEMMA RunKept ==
    ASSUME TypeInv, TempInv, [Next]_vars, ~PowerLoss, ~WriteRun
    PROVE  /\ cache'["run"] = cache["run"]
           /\ disk'["run"] \subseteq disk["run"] /\ cache["run"] \in disk'["run"]
<1>0. /\ "run" \in Files /\ "run" # "journal"
      /\ \A f \in Documents \ {"run"} : "run" \in Files \ (Directories \cup {f})
      /\ "status" \in Documents \ {"output", "run"} /\ "output" \in Documents \ {"run"}
      /\ {"gate", "report"} \subseteq Documents \ {"run"}
      /\ cache["run"] \in disk["run"]
  BY FileKinds DEF TypeInv, FileTypes, Documents
<1>1. CASE UNCHANGED files
  BY <1>0, <1>1 DEF files
<1>2. CASE AppendEvent
  <2>1. CASE SyncJournal
    BY <1>0, <2>1, SyncJournalEffect
  <2>2. CASE WriteLine(job.line)
    BY <1>0, <2>2, WriteLineEffect DEF TypeInv, JobTypes
  <2>. QED
    BY <1>1, <1>2, <2>1, <2>2 DEF AppendEvent
<1>3. CASE WriteStatus
  BY <1>0, <1>3, AtomicEffect DEF WriteStatus
<1>4. CASE WriteGate
  BY <1>0, <1>4, ReportEffect DEF WriteGate
<1>5. CASE WriteReport
  BY <1>0, <1>5, ReportEffect DEF WriteReport
<1>6. CASE SyncRun
  BY <1>0, <1>6, FileKinds, SyncParentEffect DEF SyncRun
<1>7. CASE WriteOutput
  BY <1>0, <1>7, ReplaceEffect DEF WriteOutput
<1>8. CASE Interrupt
  BY <1>0, <1>8 DEF Interrupt
<1>9. CASE Evaluate \/ Reconcile \/ Report \/ Answer \/ UNCHANGED vars
  BY <1>1, <1>9 DEF Evaluate, Reconcile, Report, Answer, vars
<1>. QED
  BY <1>2, <1>3, <1>4, <1>5, <1>6, <1>7, <1>8, <1>9 DEF Next

LEMMA NextRun ==
    ASSUME TypeInv, WholeInv, RunInv, [Next]_vars, ~exposed' PROVE RunInv'
<1>0. /\ "run" \in Documents \ {"output"} /\ "run" \in Files /\ "journal" \in Files
      /\ "run" \in InRun /\ "journal" \in InRun
      /\ "journal" \in Files \ (Directories \cup {"run"})
  BY DEF Files, InRun, Documents, Directories
<1>t. /\ cache["run"] \in disk["run"] /\ disk["run"] \subseteq {Missing, Made}
      /\ cache["journal"] \in disk["journal"] /\ Made # Missing
      /\ TempInv /\ Content("run") = Made
  BY <1>0, SentinelsAssumption, ContentType DEF TypeInv, WholeInv, NoPartialDocument, FileTypes
<1>1. CASE PowerLoss
  <2>1. /\ cache'["run"] \in disk["run"] /\ cache'["journal"] \in disk["journal"]
        /\ disk'["run"] = {cache'["run"]} /\ disk'["journal"] = {cache'["journal"]}
    BY <1>0, <1>1, PowerLossEffect DEF InRun
  <2>2. job' = NoJob
    BY <1>1 DEF PowerLoss
  <2>. QED
    BY <1>t, <2>1, <2>2 DEF RunInv, At, NoJob, Projecting
<1>2. CASE WriteRun
  <2>1. /\ At("run") /\ cache'["journal"] = cache["journal"]
        /\ disk'["journal"] \subseteq disk["journal"] /\ cache["journal"] \in disk'["journal"]
        /\ \/ /\ ~AtStep("commit") /\ (job' = Then("sync") \/ job' = Then("rename"))
              /\ cache'["run"] = cache["run"] /\ disk'["run"] = disk["run"]
           \/ /\ job' = Then("commit")
              /\ cache'["run"] = Made /\ disk'["run"] = disk["run"] \cup {Made}
           \/ /\ AtStep("commit") /\ job' = To("journal") /\ cache' = cache
              /\ disk'["run"] \subseteq {cache["run"], Partial} /\ disk'["run"] \subseteq disk["run"]
              /\ cache["run"] \in disk'["run"]
    BY <1>0, <1>t, <1>2, AtomicEffect DEF WriteRun, AtStep
  <2>2. disk["journal"] = {Missing} /\ disk'["journal"] = {Missing}
    BY <1>t, <2>1 DEF RunInv
  <2>3. CASE /\ ~AtStep("commit") /\ (job' = Then("sync") \/ job' = Then("rename"))
             /\ cache'["run"] = cache["run"] /\ disk'["run"] = disk["run"]
    <3>1. job'.stage = "run" /\ job'.step # "commit"
      BY <2>1, <2>3, JobSteps DEF At
    <3>. QED
      BY <2>2, <2>3, <3>1 DEF RunInv, At, AtStep, Projecting
  <2>4. CASE /\ job' = Then("commit")
             /\ cache'["run"] = Made /\ disk'["run"] = disk["run"] \cup {Made}
    <3>1. job'.stage = "run" /\ job'.step = "commit"
      BY <2>1, <2>4, JobSteps DEF At
    <3>. QED
      BY <1>t, <2>2, <2>4, <3>1 DEF RunInv, At, AtStep, Projecting
  <2>5. CASE /\ AtStep("commit") /\ job' = To("journal") /\ cache' = cache
             /\ disk'["run"] \subseteq {cache["run"], Partial} /\ disk'["run"] \subseteq disk["run"]
             /\ cache["run"] \in disk'["run"]
    <3>0. cache["run"] # Missing
      BY <2>1, <2>5 DEF RunInv
    <3>1. cache["run"] = Made /\ disk'["run"] = {Made}
      <4>1. cache["run"] = Made
        BY <1>t, <3>0
      <4>2. Partial # Made /\ Partial # Missing /\ Partial \notin disk["run"]
        BY <1>t, PartialIsNoContent
      <4>. QED
        BY <1>t, <2>5, <4>1, <4>2
    <3>2. job'.stage = "journal"
      BY <2>5, JobSteps
    <3>. QED
      BY <2>2, <3>1, <3>2 DEF RunInv, At, Projecting
  <2>. QED
    BY <2>1, <2>3, <2>4, <2>5
<1>3. ASSUME ~PowerLoss, ~WriteRun PROVE RunInv'
  <2>k. /\ cache'["run"] = cache["run"]
        /\ disk'["run"] \subseteq disk["run"] /\ cache["run"] \in disk'["run"]
    BY <1>t, <1>3, RunKept
  <2>1. CASE UNCHANGED job
    <3>1. ~Appends
      BY <2>1, JobSteps DEF Appends, AtStep
    <3>2. disk'["journal"] \subseteq disk["journal"] /\ cache["journal"] \in disk'["journal"]
      BY <1>t, <1>3, <3>1, JournalKept, NextTypes, <1>0 DEF TypeInv, FileTypes
    <3>. QED
      BY <1>t, <2>k, <2>1, <3>2 DEF RunInv, At, AtStep
  <2>2. CASE disk["run"] = {Made} /\ ~At("run")'
    BY <1>t, <2>k, <2>2 DEF RunInv, At
  <2>3. CASE job = NoJob /\ job' # NoJob
    <3>1. Evaluate \/ Reconcile \/ Report
      BY <1>3, <2>3, Working, FileKinds
      DEF Next, vars, AppendEvent, WriteStatus, WriteGate, WriteReport, WriteReportFile,
          WriteAtomic, SyncRun, WriteOutput, Answer, Interrupt, Documents
    <3>2. ~At("run")
      BY <2>3 DEF At, NoJob
    <3>3. UNCHANGED files
      BY <3>1 DEF Evaluate, Reconcile, Report
    <3>4. \/ cache["run"] = Missing /\ job'.stage = "run" /\ job'.step = "write"
          \/ cache["run"] = Made /\ job'.stage \in {"journal", "status"}
          \/ job'.stage = "output"
      BY <3>1 DEF Evaluate, Reconcile, Report, Started
    <3>5. cache["run"] = Missing => disk["run"] # {Made} /\ disk["journal"] = {Missing}
      BY <1>t DEF RunInv
    <3>6. cache["run"] = Made => disk["run"] = {Made}
      BY <1>t, <3>2 DEF RunInv
    <3>. QED
      BY <1>t, <3>2, <3>3, <3>4, <3>5, <3>6 DEF RunInv, At, AtStep, Projecting, files
  <2>4. CASE job' = NoJob /\ job # NoJob
    <3>1. ~At("run")' /\ job'.stage \notin {"journal"} \cup Projecting
      BY <2>4 DEF At, NoJob, Projecting
    <3>2. CASE Interrupt
      BY <2>k, <3>1, <3>2 DEF RunInv, Interrupt, Unsynced, At, AtStep
    <3>3. CASE WriteOutput \/ ~At("run")
      <4>1. ~At("run")
        BY <3>3 DEF WriteOutput, At
      <4>2. disk["run"] = {Made} \/ (disk["journal"] = {Missing} /\ cache["run"] = Missing
                                     /\ job.stage # "journal")
        BY <4>1 DEF RunInv, At
      <4>3. ~Appends
        BY <2>4, JobSteps, Working, FileKinds DEF Appends, NoJob, At
      <4>4. disk'["journal"] \subseteq disk["journal"] /\ cache'["journal"] \in disk'["journal"]
        BY <1>0, <1>t, <1>3, <4>3, JournalKept, NextTypes DEF TypeInv, FileTypes
      <4>. QED
        BY <1>t, <2>k, <3>1, <4>2, <4>4 DEF RunInv
    <3>4. At("run") => Interrupt
      BY <1>3, <2>4 DEF Next, vars, Evaluate, Reconcile, Report, AppendEvent, WriteStatus,
         WriteGate, WriteReport, WriteReportFile, WriteAtomic, SyncRun, WriteOutput, Answer, At
    <3>. QED
      BY <3>2, <3>3, <3>4
  <2>5. CASE job # NoJob /\ job' # NoJob
    <3>1. \/ UNCHANGED job
          \/ job'.stage = job.stage
          \/ Follows(job'.stage)
      BY <1>t, <2>5, Moves
    <3>2. At("run") => UNCHANGED job
      BY <1>3, <2>5 DEF Next, vars, Evaluate, Reconcile, Report, AppendEvent, WriteStatus,
         WriteGate, WriteReport, WriteReportFile, WriteAtomic, SyncRun, WriteOutput, Answer,
         Interrupt, At
    <3>3. CASE job.stage \in {"journal"} \cup Projecting
      <4>1. disk["run"] = {Made}
        BY <3>3 DEF RunInv
      <4>. QED
        BY <2>1, <2>2, <3>1, <3>3, <4>1 DEF Follows, At, Projecting
    <3>4. CASE job.stage \notin {"journal", "run"} \cup Projecting
      <4>1. ~Follows(job'.stage)
        BY <3>4 DEF Follows, At, Projecting
      <4>2. job'.stage = job.stage
        BY <3>1, <4>1
      <4>3. ~Appends
        BY <3>4 DEF Appends, At
      <4>4. disk'["journal"] \subseteq disk["journal"] /\ cache'["journal"] \in disk'["journal"]
        BY <1>0, <1>t, <1>3, <4>3, JournalKept, NextTypes DEF TypeInv, FileTypes
      <4>. QED
        BY <1>t, <2>k, <3>4, <4>2, <4>4 DEF RunInv, At
    <3>. QED
      BY <2>1, <3>2, <3>3, <3>4 DEF At
  <2>. QED
    BY <2>1, <2>3, <2>4, <2>5
<1>. QED
  BY <1>1, <1>2, <1>3

-----------------------------------------------------------------------------
(***************************************************************************)
(* The journal between two appends.                                        *)
(***************************************************************************)
\* A step that leaves the journal alone, and moves the job on as it should.
LEMMA JournalQuiet ==
    ASSUME JournalInv, ~(At("journal") /\ AtStep("sync")),
           cache'["journal"] = cache["journal"], disk'["journal"] \subseteq disk["journal"],
           \/ job' = NoJob
           \/ /\ job'.stage \notin Projecting /\ ~(At("journal") /\ AtStep("sync"))'
              /\ job'.cmd # "reconcile" /\ (job'.cmd = "evaluate" => job'.verdict # 0)
           \/ /\ job.stage \in Projecting /\ job'.stage \in Projecting
              /\ job'.cmd = job.cmd /\ job'.line = job.line /\ job'.verdict = job.verdict
              /\ \/ job.stage # "status" \/ job'.stage = "status"
                 \/ ~(job.cmd = "evaluate" /\ job.line # job.verdict)
    PROVE  JournalInv'
<1>1. disk'["journal"] \subseteq {Missing, cache'["journal"]}
  BY DEF JournalInv
<1>2. CASE job' = NoJob
  BY <1>1, <1>2 DEF JournalInv, At, NoJob, Projecting
<1>3. CASE /\ job'.stage \notin Projecting /\ ~(At("journal") /\ AtStep("sync"))'
           /\ job'.cmd # "reconcile" /\ (job'.cmd = "evaluate" => job'.verdict # 0)
  BY <1>1, <1>3 DEF JournalInv
<1>4. CASE /\ job.stage \in Projecting /\ job'.stage \in Projecting
           /\ job'.cmd = job.cmd /\ job'.line = job.line /\ job'.verdict = job.verdict
           /\ \/ job.stage # "status" \/ job'.stage = "status"
              \/ ~(job.cmd = "evaluate" /\ job.line # job.verdict)
  <2>1. /\ cache'["journal"] # Missing /\ ~Written(cache'["journal"], Torn)
        /\ (job.cmd = "reconcile" \/ job.line = job.verdict) /\ job.verdict # 0 =>
              Written(cache'["journal"], job.verdict)
    BY <1>4 DEF JournalInv
  <2>2. /\ job'.cmd = "evaluate" /\ job'.stage # "status" => job'.line = job'.verdict
        /\ job'.cmd = "evaluate" => job'.verdict # 0
    BY <1>4 DEF JournalInv
  <2>. QED
    BY <1>1, <1>4, <2>1, <2>2 DEF JournalInv, At, Projecting
<1>. QED
  BY <1>2, <1>3, <1>4

\* A journal that is appended to has what was written to it, and the new event.
LEMMA AppendHolds ==
    ASSUME FileTypes, NEW event \in Nat \cup {Torn}, NEW ended \in BOOLEAN
    PROVE  /\ AppendsOf(Journal) = Journal /\ AppendsOf(With(event, ended)) = With(event, ended)
           /\ With(event, ended) # Missing /\ Journal # Missing
           /\ Journal \in Seq(Appended) /\ Len(With(event, ended)) = Len(Journal) + 1
           /\ \A i \in 1..Len(Journal) : With(event, ended)[i] = Journal[i]
           /\ \A v : Written(Journal, v) => Written(With(event, ended), v)
           /\ \A v : Written(With(event, ended), v) => v = event \/ Written(Journal, v)
           /\ Written(With(event, ended), event)
<1>. DEFINE new == [event |-> event, ended |-> ended]
<1>1. Journal \in Seq(Appended) /\ new \in Appended
  BY JournalType DEF Appended
<1>2. With(event, ended) = Append(Journal, new)
  BY DEF With
<1>. HIDE DEF new
<1>3. With(event, ended) \in Seq(Appended)
  BY <1>1, <1>2
<1>4. /\ AppendsOf(Journal) = Journal /\ AppendsOf(With(event, ended)) = With(event, ended)
      /\ With(event, ended) # Missing /\ Journal # Missing
  BY <1>1, <1>3, SentinelsAssumption DEF AppendsOf
<1>5. /\ DOMAIN Journal = 1..Len(Journal) /\ Len(Journal) \in Nat
      /\ DOMAIN With(event, ended) = 1..(Len(Journal) + 1)
      /\ \A i \in 1..Len(Journal) : With(event, ended)[i] = Journal[i]
      /\ With(event, ended)[Len(Journal) + 1] = new
      /\ Len(With(event, ended)) = Len(Journal) + 1
  BY <1>1, <1>2
<1>6. new.event = event
  BY DEF new
<1>7. ASSUME NEW v, Written(Journal, v) PROVE Written(With(event, ended), v)
  BY <1>4, <1>5, <1>7 DEF Written
<1>8. ASSUME NEW v, Written(With(event, ended), v) PROVE v = event \/ Written(Journal, v)
  <2>1. PICK i \in DOMAIN With(event, ended) : With(event, ended)[i].event = v
    BY <1>4, <1>8 DEF Written
  <2>2. i = Len(Journal) + 1 \/ i \in 1..Len(Journal)
    BY <1>5, <2>1
  <2>. QED
    BY <1>4, <1>5, <1>6, <2>1, <2>2 DEF Written
<1>9. Written(With(event, ended), event)
  BY <1>4, <1>5, <1>6 DEF Written
<1>. QED
  BY <1>1, <1>4, <1>5, <1>7, <1>8, <1>9

\* What is written to a journal is the same, by either name of it.
LEMMA JournalHolds ==
    ASSUME FileTypes
    PROVE  /\ AppendsOf(cache["journal"]) = Journal /\ AppendsOf(Journal) = Journal
           /\ \A v : Written(cache["journal"], v) <=> Written(Journal, v)
<1>1. AppendsOf(Journal) = Journal
  BY JournalType, SentinelsAssumption DEF AppendsOf
<1>. QED
  BY <1>1 DEF Journal, Written

LEMMA NextJournal ==
    ASSUME TypeInv, TempInv, JournalInv, [Next]_vars, ~exposed' PROVE JournalInv'
<1>0. /\ cache["journal"] \in disk["journal"] /\ disk["journal"] \subseteq JournalContents
      /\ job.line \in Nat /\ job.verdict \in Nat /\ issued \in Nat
      /\ "journal" \in Files \ Directories /\ FileTypes
  BY FileKinds DEF TypeInv, FileTypes, JobTypes
<1>1. CASE PowerLoss
  <2>1. disk'["journal"] = {cache'["journal"]} /\ job' = NoJob
    BY <1>0, <1>1, PowerLossEffect DEF PowerLoss
  <2>. QED
    BY <2>1 DEF JournalInv, At, NoJob, Projecting
<1>2. CASE Appends
  <2>1. /\ job'.stage = "journal" /\ job'.step = "sync" /\ job'.line = job.line
        /\ job'.cmd = job.cmd /\ job'.verdict = job.verdict
    BY <1>2, JobSteps DEF Appends, At
  <2>2. cache'["journal"] = With(job.line, TRUE)
    BY <1>0, <1>2, WriteLineEffect DEF Appends
  <2>3. ~Written(Journal, Torn) /\ Torn # job.line
    BY <1>0, <1>2, JournalHolds, SentinelsAssumption DEF Appends, Readable, Written
  <2>4. /\ cache'["journal"] # Missing /\ ~Written(cache'["journal"], Torn)
        /\ Written(cache'["journal"], job.line)
    <3>1. job.line \in Nat \cup {Torn} /\ TRUE \in BOOLEAN
      BY <1>0
    <3>2. /\ With(job.line, TRUE) # Missing /\ Written(With(job.line, TRUE), job.line)
          /\ Written(With(job.line, TRUE), Torn) => Torn = job.line \/ Written(Journal, Torn)
      BY <1>0, <3>1, AppendHolds
    <3>. QED
      BY <2>2, <2>3, <3>2
  <2>5. /\ job.cmd = "evaluate" => job.verdict # 0
        /\ job.cmd # "reconcile"
    BY <1>2 DEF JournalInv, Appends, At, Projecting
  <2>. QED
    BY <2>1, <2>4, <2>5 DEF JournalInv, At, AtStep, Projecting
<1>3. ASSUME ~PowerLoss, ~Appends PROVE JournalInv'
  <2>k. cache'["journal"] = cache["journal"] /\ disk'["journal"] \subseteq disk["journal"]
    BY <1>3, JournalKept
  <2>1. CASE job' = job
    <3>1. ~(At("journal") /\ AtStep("sync")) =>
             disk'["journal"] \subseteq {Missing, cache'["journal"]}
      BY <2>k DEF JournalInv
    <3>. QED
      BY <2>k, <2>1, <3>1 DEF JournalInv, At, AtStep
  <2>2. CASE job' = NoJob /\ job # NoJob
    <3>1. CASE At("journal") /\ AtStep("sync")
      <4>1. Interrupt
        BY <1>3, <2>2, <3>1, JobSteps
        DEF Next, vars, Evaluate, WriteRun, WriteAtomic, AppendEvent, WriteStatus, WriteGate,
            WriteReport, WriteReportFile, Reconcile, SyncRun, Report, WriteOutput, Answer,
            At, AtStep, NoJob
      <4>. QED
        BY <3>1, <4>1 DEF Interrupt, Unsynced
    <3>. QED
      BY <2>k, <2>2, <3>1, JournalQuiet
  <2>3. CASE job = NoJob /\ job' # NoJob
    <3>0. ~(At("journal") /\ AtStep("sync"))
      BY <2>3 DEF At, NoJob
    <3>1. Evaluate \/ Reconcile \/ Report
      BY <1>3, <2>3, Working, FileKinds
      DEF Next, vars, AppendEvent, WriteStatus, WriteGate, WriteReport, WriteReportFile,
          WriteRun, WriteAtomic, SyncRun, WriteOutput, Answer, Interrupt, Documents
    <3>2. CASE Evaluate
      <4>1. /\ job'.stage \in {"run", "journal"} /\ job'.step = "write"
            /\ job'.cmd = "evaluate" /\ job'.verdict # 0
        BY <1>0, <3>2 DEF Evaluate, Started
      <4>. QED
        BY <2>k, <3>0, <4>1, JournalQuiet DEF At, AtStep, Projecting
    <3>3. CASE Report
      <4>1. job'.stage = "output" /\ job'.cmd = "report"
        BY <3>3 DEF Report, Started
      <4>. QED
        BY <2>k, <3>0, <4>1, JournalQuiet DEF At, Projecting
    <3>4. CASE Reconcile
      <4>1. PICK verdict \in {0} \cup {Journal[i].event : i \in VerdictLines} :
               /\ verdict # 0 => \E i \in VerdictLines : Journal[i].event = verdict
               /\ job' = Started("reconcile", "status", 0, verdict)
        BY <3>4 DEF Reconcile
      <4>2. Journal # <<>> /\ Readable
        BY <3>4 DEF Reconcile
      <4>3. /\ verdict # 0 => Written(cache["journal"], verdict)
            /\ ~Written(cache["journal"], Torn)
        BY <1>0, <4>1, <4>2, JournalHolds DEF VerdictLines, Written, Readable
      <4>4. cache["journal"] # Missing
        BY <4>2 DEF Journal, AppendsOf
      <4>5. disk["journal"] \subseteq {Missing, cache["journal"]}
        BY <3>0 DEF JournalInv
      <4>6. /\ job'.cmd = "reconcile" /\ job'.stage = "status" /\ job'.verdict = verdict
        BY <4>1 DEF Started
      <4>. QED
        BY <2>k, <4>3, <4>4, <4>5, <4>6 DEF JournalInv, At, Projecting
    <3>. QED
      BY <3>1, <3>2, <3>3, <3>4
  <2>4. CASE job # NoJob /\ job' # NoJob /\ job' # job
    <3>1. job'.cmd = job.cmd /\ job'.verdict = job.verdict
      BY <2>4, Moves
    <3>2. job.cmd = "evaluate" => job.verdict # 0
      BY DEF JournalInv
    <3>3. job.cmd = "reconcile" => job.stage \in Projecting
      BY DEF JournalInv
    <3>4. CASE /\ job'.stage = job.stage /\ job'.line = job.line /\ ~At("journal")
      BY <2>k, <3>1, <3>2, <3>3, <3>4, JournalQuiet DEF At
    <3>5. CASE At("journal") /\ AtStep("write") /\ job'.stage = job.stage /\ job'.step = "sync"
      <4>1. AppendEvent
        BY <1>3, <2>4, <3>5, FileKinds
        DEF Next, vars, Evaluate, WriteRun, WriteAtomic, WriteStatus, WriteGate,
            WriteReport, WriteReportFile, Reconcile, SyncRun, Report, WriteOutput, Answer,
            Interrupt, At
      <4>. QED
        BY <1>3, <2>4, <3>5, <4>1 DEF AppendEvent, Appends, AtStep
    <3>6. CASE At("journal") /\ AtStep("sync") /\ job'.stage = "status" /\ job'.line = job.line
      <4>1. SyncJournal
        BY <1>3, <2>4, <3>6, FileKinds
        DEF Next, vars, Evaluate, WriteRun, WriteAtomic, WriteStatus, WriteGate, AppendEvent,
            WriteReport, WriteReportFile, Reconcile, SyncRun, Report, WriteOutput, Answer,
            Interrupt, At, AtStep
      <4>2. disk'["journal"] = (disk["journal"] \cap {Missing}) \cup {cache["journal"]}
        BY <4>1, SyncJournalEffect
      <4>3. /\ cache["journal"] # Missing /\ ~Written(cache["journal"], Torn)
            /\ Written(cache["journal"], job.line) /\ job.cmd # "reconcile"
        BY <3>3, <3>6 DEF JournalInv, At, Projecting
      <4>. QED
        BY <2>k, <3>1, <3>2, <3>6, <4>2, <4>3 DEF JournalInv, At, Projecting
    <3>7. CASE /\ Follows(job'.stage)
               /\ ~(At("journal") /\ AtStep("sync") /\ job'.stage = "status" /\ job'.line = job.line)
      <4>0. ~(At("journal") /\ AtStep("sync"))
        BY <3>7 DEF Follows, At
      <4>1. CASE job'.stage = "journal" /\ job'.step = "write"
        <5>1. job.cmd # "reconcile"
          BY <3>3, <3>7, <4>1 DEF Follows, At, Projecting
        <5>. QED
          BY <2>k, <3>1, <3>2, <4>0, <4>1, <5>1, JournalQuiet DEF At, AtStep, Projecting
      <4>2. CASE job'.stage # "journal"
        <5>1. /\ job.stage \in Projecting /\ job'.stage \in Projecting
              /\ job'.line = job.line
              /\ job.stage # "status" \/ ~(job.cmd = "evaluate" /\ job.line # job.verdict)
          BY <3>7, <4>2 DEF Follows, At, Projecting
        <5>. QED
          BY <2>k, <3>1, <4>0, <5>1, JournalQuiet
      <4>. QED
        BY <3>7, <4>1, <4>2 DEF Follows
    <3>. QED
      BY <2>4, <3>4, <3>5, <3>6, <3>7, Moves
  <2>. QED
    BY <2>1, <2>2, <2>3, <2>4
<1>. QED
  BY <1>1, <1>2, <1>3

-----------------------------------------------------------------------------
(***************************************************************************)
(* What a reconcile anchors.                                               *)
(***************************************************************************)
\* Fewer contents, and no more to keep.
LEMMA AnchorQuiet ==
    ASSUME AnchorInv, disk'["journal"] \subseteq disk["journal"],
           anchored' = anchored, kept' = kept,
           (At("answer") /\ job.cmd = "reconcile")' => Missing \notin disk'["journal"]
    PROVE  AnchorInv'
BY DEF AnchorInv

LEMMA NextAnchor ==
    ASSUME TypeInv, TempInv, JournalInv, AnchorInv, [Next]_vars PROVE AnchorInv'
<1>0. /\ cache["journal"] \in disk["journal"] /\ disk["journal"] \subseteq JournalContents
      /\ job.line \in Nat /\ job.verdict \in Nat /\ anchored \in BOOLEAN
      /\ "journal" \in Files \ Directories /\ FileTypes
  BY FileKinds DEF TypeInv, FileTypes, JobTypes
<1>1. CASE PowerLoss
  <2>1. disk'["journal"] = {cache'["journal"]} /\ cache'["journal"] \in disk["journal"]
    BY <1>0, <1>1, PowerLossEffect DEF InRun
  <2>2. job' = NoJob /\ anchored' = anchored /\ kept' = kept
    BY <1>1 DEF PowerLoss
  <2>. QED
    BY <2>1, <2>2, AnchorQuiet DEF At, NoJob
<1>2. CASE Appends
  <2>1. job'.stage = "journal" /\ anchored' = anchored /\ kept' = kept
    <3>1. job # NoJob /\ job'.stage = "journal"
      BY <1>0, <1>2, Working, JobSteps DEF Appends, At
    <3>2. job' # NoJob
      BY <3>1 DEF NoJob
    <3>. QED
      BY <3>1, <3>2, Moves DEF history
  <2>2. disk'["journal"] = disk["journal"] \cup
           {Journal, With(Torn, FALSE), With(job.line, FALSE), With(job.line, TRUE)}
    BY <1>0, <1>2, WriteLineEffect DEF Appends
  <2>3. \A event \in {Torn, job.line} : \A ended \in BOOLEAN :
           /\ With(event, ended) # Missing
           /\ \A v : Written(Journal, v) => Written(With(event, ended), v)
    BY <1>0, AppendHolds
  <2>4. \A v \in kept : Written(Journal, v)
    BY <1>0, JournalHolds DEF AnchorInv
  <2>5. Journal # Missing
    BY <1>0, JournalType, SentinelsAssumption
  <2>6. \A content \in disk'["journal"] \ disk["journal"] :
           content # Missing /\ \A v \in kept : Written(content, v)
    BY <2>2, <2>3, <2>4, <2>5
  <2>. QED
    BY <2>1, <2>6 DEF AnchorInv, At
<1>3. ASSUME ~PowerLoss, ~Appends PROVE AnchorInv'
  <2>k. cache'["journal"] = cache["journal"] /\ disk'["journal"] \subseteq disk["journal"]
    BY <1>3, JournalKept
  <2>1. CASE Answer
    <3>1. /\ disk["journal"] \subseteq {Missing, cache["journal"]}
          /\ job.cmd = "evaluate" => job.verdict # 0 /\ Written(cache["journal"], job.verdict)
      BY <2>1 DEF Answer, JournalInv, At, Projecting
    <3>2. disk' = disk /\ ~At("answer")'
      BY <2>1 DEF Answer, files, At, NoJob
    <3>3. CASE job.cmd = "reconcile"
      <4>1. disk["journal"] = {cache["journal"]} /\ Missing \notin disk["journal"]
        BY <1>0, <2>1, <3>1, <3>3 DEF Answer, AnchorInv
      <4>2. \A v \in Verdicts(cache["journal"]) : Written(cache["journal"], v)
        BY DEF Verdicts, Written
      <4>3. kept' = kept \cup Verdicts(cache["journal"])
        BY <2>1, <3>3 DEF Answer
      <4>. QED
        BY <3>2, <4>1, <4>2, <4>3 DEF AnchorInv
    <3>4. CASE job.cmd # "reconcile" /\ anchored
      <4>1. disk["journal"] = {cache["journal"]} /\ Missing \notin disk["journal"]
        BY <1>0, <3>1, <3>4 DEF AnchorInv
      <4>2. job.cmd = "evaluate"
        BY <2>1, <3>4, Working DEF Answer, TypeInv, JobTypes, At
      <4>3. kept' = kept \cup {job.verdict}
        BY <2>1, <3>4 DEF Answer
      <4>. QED
        BY <3>1, <3>2, <4>1, <4>2, <4>3 DEF AnchorInv
    <3>5. CASE job.cmd # "reconcile" /\ ~anchored
      <4>1. kept' = kept /\ anchored' = anchored
        BY <1>0, <2>1, <3>5 DEF Answer
      <4>. QED
        BY <3>2, <4>1, AnchorQuiet
    <3>. QED
      BY <3>3, <3>4, <3>5
  <2>2. CASE ~Answer
    <3>1. kept' = kept /\ anchored' = anchored
      <4>1. CASE UNCHANGED history
        BY <4>1 DEF history
      <4>. QED
        BY <1>3, <2>2, <4>1
        DEF Next, vars, history, Evaluate, WriteRun, AppendEvent, WriteStatus, WriteGate,
            WriteReport, WriteReportFile, WriteAtomic, Reconcile, SyncRun, Report, WriteOutput,
            Interrupt
    <3>2. ASSUME (At("answer") /\ job.cmd = "reconcile")' PROVE Missing \notin disk'["journal"]
      <4>1. job' # NoJob /\ job'.stage = "answer" /\ job'.cmd = "reconcile"
        BY <3>2 DEF At, NoJob
      <4>2. job # NoJob
        BY <1>3, <4>1, Working, FileKinds
        DEF Next, vars, AppendEvent, WriteStatus, WriteGate, WriteReport, WriteReportFile,
            WriteRun, WriteAtomic, SyncRun, WriteOutput, Answer, Interrupt, Documents,
            Evaluate, Reconcile, Report, Started
      <4>3. /\ job'.cmd = job.cmd
            /\ job'.stage = job.stage \/ Follows(job'.stage)
        BY <4>1, <4>2, Moves
      <4>4. CASE At("answer")
        BY <2>k, <4>1, <4>3, <4>4 DEF AnchorInv
      <4>5. CASE ~At("answer")
        <5>1. At("dir")
          BY <4>1, <4>3, <4>5 DEF Follows, At
        <5>2. SyncParent("journal")
          BY <1>3, <4>1, <5>1
          DEF Next, vars, Evaluate, WriteRun, WriteAtomic, AppendEvent, WriteStatus, WriteGate,
              WriteReport, WriteReportFile, Reconcile, SyncRun, Report, WriteOutput, Answer,
              Interrupt, At, NoJob
        <5>3. cache["journal"] # Missing
          BY <5>1 DEF JournalInv, At, Projecting
        <5>. QED
          BY <1>0, <5>2, <5>3, SyncParentEffect, ParentValues DEF InRun
      <4>. QED
        BY <4>4, <4>5
    <3>. QED
      BY <2>k, <3>1, <3>2, AnchorQuiet
  <2>. QED
    BY <2>1, <2>2
<1>. QED
  BY <1>1, <1>2, <1>3

-----------------------------------------------------------------------------
(***************************************************************************)
(* The projections behind the journal.                                     *)
(***************************************************************************)
\* The part of ProjectionInv that concerns one content of the journal.
Covers(content, status, reports) ==
    /\ \A n \in status \ {Missing} :
          /\ n <= Len(AppendsOf(content))
          /\ \A i \in 1..n : AppendsOf(content)[i].event # Torn
    /\ \A v \in reports \ {Missing} : Written(content, v)

LEMMA ProjectionsCovered ==
    ProjectionInv <=>
        \A content \in disk["journal"] :
            content # Missing \/ cache["journal"] = Missing =>
                Covers(content, disk["status"], disk["gate"] \cup disk["report"])
BY DEF ProjectionInv, Covers

LEMMA NextProjection ==
    ASSUME TypeInv, WholeInv, JournalInv, ProjectionInv, [Next]_vars, ~lost'
    PROVE  ProjectionInv'
<1>0. /\ cache["journal"] \in disk["journal"] /\ disk["journal"] \subseteq JournalContents
      /\ disk["status"] \subseteq {Missing} \cup Nat
      /\ job.line \in Nat /\ FileTypes /\ TempInv
      /\ {"journal", "status", "gate", "report"} \subseteq Files \ Directories
      /\ {"status", "gate", "report"} \subseteq Documents
  BY FileKinds DEF TypeInv, FileTypes, JobTypes, WholeInv, NoPartialDocument, Documents
<1>c. \A content \in disk["journal"] :
         content # Missing \/ cache["journal"] = Missing =>
             Covers(content, disk["status"], disk["gate"] \cup disk["report"])
  BY ProjectionsCovered
<1>. SUFFICES ASSUME NEW content \in disk'["journal"],
                     content # Missing \/ cache'["journal"] = Missing
              PROVE  Covers(content, disk'["status"], disk'["gate"] \cup disk'["report"])
  BY DEF ProjectionInv, Covers
<1>1. CASE PowerLoss
  <2>1. /\ content = cache'["journal"] /\ content \in disk["journal"]
        /\ \A f \in {"status", "gate", "report"} : disk'[f] \subseteq disk[f] \cup {Missing}
    BY <1>0, <1>1, PowerLossEffect DEF InRun
  <2>2. content # Missing \/ cache["journal"] = Missing
    BY <1>1, <2>1 DEF PowerLoss
  <2>. QED
    BY <1>c, <2>1, <2>2 DEF Covers
<1>2. CASE Appends
  <2>1. /\ disk'["journal"] = disk["journal"] \cup
              {Journal, With(Torn, FALSE), With(job.line, FALSE), With(job.line, TRUE)}
        /\ cache'["journal"] = With(job.line, TRUE)
        /\ \A f \in {"status", "gate", "report"} : disk'[f] = disk[f]
    BY <1>0, <1>2, WriteLineEffect DEF Appends
  <2>2. \A event \in {Torn, job.line} : \A ended \in BOOLEAN :
           /\ With(event, ended) # Missing /\ Len(With(event, ended)) = Len(Journal) + 1
           /\ AppendsOf(With(event, ended)) = With(event, ended)
           /\ \A i \in 1..Len(Journal) : With(event, ended)[i] = Journal[i]
           /\ \A v : Written(Journal, v) => Written(With(event, ended), v)
    BY <1>0, AppendHolds
  <2>3. AppendsOf(Journal) = Journal /\ Len(Journal) \in Nat
    BY <1>0, JournalHolds, JournalType
  <2>4. Covers(Journal, disk["status"], disk["gate"] \cup disk["report"])
    <3>1. Covers(cache["journal"], disk["status"], disk["gate"] \cup disk["report"])
      BY <1>0, <1>c
    <3>2. /\ AppendsOf(cache["journal"]) = AppendsOf(Journal)
          /\ \A v : Written(cache["journal"], v) <=> Written(Journal, v)
      BY <1>0, JournalHolds
    <3>. QED
      BY <3>1, <3>2 DEF Covers
  <2>5. ASSUME NEW event \in {Torn, job.line}, NEW ended \in BOOLEAN
        PROVE  Covers(With(event, ended), disk["status"], disk["gate"] \cup disk["report"])
    <3>1. \A v \in (disk["gate"] \cup disk["report"]) \ {Missing} :
             Written(With(event, ended), v)
      BY <2>2, <2>4 DEF Covers
    <3>2. \A n \in disk["status"] \ {Missing} :
             n \in Nat /\ n <= Len(Journal) /\ \A i \in 1..n : Journal[i].event # Torn
      BY <1>0, <2>3, <2>4 DEF Covers
    <3>3. \A n \in disk["status"] \ {Missing} :
             /\ n <= Len(With(event, ended))
             /\ \A i \in 1..n : With(event, ended)[i].event # Torn
      BY <2>2, <2>3, <3>2
    <3>. QED
      BY <2>2, <3>1, <3>3 DEF Covers
  <2>6. Covers(content, disk["status"], disk["gate"] \cup disk["report"])
    <3>1. CASE content \in disk["journal"]
      <4>1. content # Missing
        BY <2>1, <2>2
      <4>. QED
        BY <1>c, <3>1, <4>1
    <3>2. CASE content = Journal
      BY <2>4, <3>2
    <3>3. CASE \E event \in {Torn, job.line}, ended \in BOOLEAN : content = With(event, ended)
      BY <2>5, <3>3
    <3>. QED
      BY <2>1, <3>1, <3>2, <3>3
  <2>. QED
    BY <2>1, <2>6
<1>3. ASSUME ~PowerLoss, ~Appends
      PROVE  Covers(content, disk'["status"], disk'["gate"] \cup disk'["report"])
  <2>k. cache'["journal"] = cache["journal"] /\ content \in disk["journal"]
    BY <1>0, <1>3, JournalKept
  <2>1. Covers(content, disk["status"], disk["gate"] \cup disk["report"])
    BY <1>c, <2>k
  <2>2. At("status") => Covers(content, {Content("status")}, {})
    <3>1. SUFFICES ASSUME At("status") PROVE Covers(content, {Content("status")}, {})
      OBVIOUS
    <3>2. content = cache["journal"] /\ ~Written(cache["journal"], Torn)
      BY <2>k, <3>1 DEF JournalInv, At, Projecting
    <3>3. AppendsOf(content) = Journal /\ Journal \in Seq(Appended)
      BY <1>0, <3>2, JournalType, JournalHolds
    <3>4. \A i \in 1..Len(Journal) : Journal[i].event # Torn
      BY <3>2, <3>3 DEF Written
    <3>5. Content("status") = Len(Journal) /\ Len(Journal) \in Nat
      BY <3>3 DEF Content
    <3>. QED
      BY <3>3, <3>4, <3>5 DEF Covers
  <2>3. \A f \in {"gate", "report"} : At(f) /\ job.verdict # 0 => Written(content, job.verdict)
    <3>1. SUFFICES ASSUME NEW f \in {"gate", "report"}, At(f), job.verdict # 0
                   PROVE  Written(content, job.verdict)
      OBVIOUS
    <3>2. content = cache["journal"]
      BY <2>k, <3>1 DEF JournalInv, At, Projecting
    <3>3. job.cmd = "reconcile" \/ job.cmd = "evaluate"
      BY <3>1 DEF TypeInv, JobTypes, At, NoJob
    <3>. QED
      BY <3>1, <3>2, <3>3 DEF JournalInv, At, Projecting
  <2>4. \A n \in disk'["status"] \ {Missing} :
           n \in disk["status"] \/ (n = Content("status") /\ At("status"))
    BY <1>0, <1>3, DocumentsKept
  <2>5. \A f \in {"gate", "report"} : \A v \in disk'[f] \ {Missing} :
           v \in disk[f] \/ (v = job.verdict /\ v # 0 /\ At(f))
    BY <1>0, <1>3, DocumentsKept, ContentType
  <2>. QED
    BY <2>1, <2>2, <2>3, <2>4, <2>5 DEF Covers
<1>. QED
  BY <1>1, <1>2, <1>3

-----------------------------------------------------------------------------
(***************************************************************************)
(* The theorems.                                                           *)
(***************************************************************************)
LEMMA InitIInv == Init => IInv
<1>1. ASSUME Init PROVE /\ disk["journal"] = {Missing} /\ cache["journal"] = Missing
                        /\ cache["run"] = Missing /\ kept = {} /\ ~anchored /\ job = NoJob
                        /\ \A f \in {"status", "gate", "report"} : disk[f] = {Missing}
                        /\ \A f \in Files : disk[f] = {Missing}
  BY <1>1 DEF Init, Files, InRun
<1>2. Init => RunInv
  BY <1>1 DEF RunInv, At, NoJob, Projecting
<1>3. Init => JournalInv
  BY <1>1 DEF JournalInv, At, NoJob, Projecting
<1>4. Init => AnchorInv
  BY <1>1 DEF AnchorInv, At, NoJob
<1>5. Init => ProjectionInv
  BY <1>1 DEF ProjectionInv
<1>6. Init => WholeInv
  BY <1>1, SentinelsAssumption DEF WholeInv, TempInv, NoPartialDocument, AtStep, NoJob
<1>. QED
  BY <1>2, <1>3, <1>4, <1>5, <1>6, InitTypes DEF IInv

LEMMA NextIInv == IInv /\ [Next]_vars => IInv'
<1>. SUFFICES ASSUME IInv, [Next]_vars PROVE IInv'
  OBVIOUS
<1>1. TypeInv /\ TypeInv' /\ WholeInv /\ WholeInv' /\ TempInv
  BY NextTypes, NextWhole DEF IInv, WholeInv
<1>2. (exposed => exposed') /\ (lost => lost')
  BY <1>1, HistoryGrows
<1>3. ASSUME ~exposed' PROVE (RunInv /\ JournalInv /\ AnchorInv)'
  BY <1>1, <1>2, <1>3, NextRun, NextJournal, NextAnchor DEF IInv
<1>4. ASSUME ~exposed', ~lost' PROVE ProjectionInv'
  BY <1>1, <1>2, <1>4, NextProjection DEF IInv
<1>. QED
  BY <1>1, <1>3, <1>4 DEF IInv

\* For any number of evaluations, interruptions and power losses, the
\* invariant holds of the run directory of internal/run.
THEOREM Durable == Spec => []IInv
<1>1. Init => IInv
  BY InitIInv
<1>2. IInv /\ [Next]_vars => IInv'
  BY NextIInv
<1>. QED
  BY <1>1, <1>2, PTL DEF Spec

\* No interruption and no power loss leaves a document cut off under its name:
\* writeAtomic and writeOutput sync the temporary file before they rename it.
THEOREM WholeDocuments == Spec => []NoPartialDocument
<1>1. IInv => NoPartialDocument
  BY DEF IInv, WholeInv
<1>. QED
  BY <1>1, Durable, PTL

\* No journal outlives its run.json: Evaluate syncs the directory of run.json
\* before appendAndProject opens the journal.
THEOREM RunComesFirst == Spec => []RunOutlivesJournal
<1>1. IInv => RunOutlivesJournal
  <2>1. IInv => /\ cache["journal"] \in disk["journal"] /\ cache["run"] \in disk["run"]
                /\ Made # Missing
    BY SentinelsAssumption DEF IInv, TypeInv, FileTypes, Files, InRun
  <2>. QED
    BY <2>1 DEF IInv, RunInv, RunOutlivesJournal
<1>. QED
  BY <1>1, Durable, PTL

\* No projection gets ahead of what is in a journal that is there: the journal
\* is synced before the first projection is renamed.
THEOREM ProjectionsComeAfter == Spec => []ProjectionsBehindJournal
<1>1. IInv => ProjectionsBehindJournal
  <2>. SUFFICES ASSUME IInv, ~lost, ~exposed PROVE ProjectionsBehind
    BY DEF ProjectionsBehindJournal
  <2>1. \A f \in {"journal", "status", "gate", "report"} : cache[f] \in disk[f]
    BY DEF IInv, TypeInv, FileTypes, Files, InRun
  <2>2. ProjectionInv
    BY DEF IInv
  <2>. QED
    BY <2>1, <2>2 DEF ProjectionInv, ProjectionsBehind, Journal
<1>. QED
  BY <1>1, Durable, PTL

\* What a reconcile has found, and every verdict printed after it, survives
\* any power loss: syncDirectory at the end of Reconcile anchors the journal.
THEOREM ReconcileAnchors == Spec => []ReconcileAnchorsJournal
<1>1. IInv => ReconcileAnchorsJournal
  <2>1. IInv => cache["journal"] \in disk["journal"]
    BY DEF IInv, TypeInv, FileTypes, Files, InRun
  <2>. QED
    BY <2>1 DEF IInv, AnchorInv, ReconcileAnchorsJournal
<1>. QED
  BY <1>1, Durable, PTL
===============================================================================
