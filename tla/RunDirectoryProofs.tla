-------------------------- MODULE RunDirectoryProofs --------------------------
(***************************************************************************)
(* For every set of processes and of calls, and whatever an interrupted    *)
(* append leaves behind: the safety properties of RunDirectory.  The       *)
(* argument is the inductive invariant IInv of RunDirectoryInvariant.      *)
(***************************************************************************)
EXTENDS RunDirectoryInvariant, GateModelProofs, SequenceTheorems,
        WellFoundedInduction

-----------------------------------------------------------------------------
(***************************************************************************)
(* Values.                                                                 *)
(***************************************************************************)
\* A set of positions that is not empty has a last one.
LEMMA LastPosition ==
    ASSUME NEW n \in Nat, NEW T, T \subseteq 1..n, T # {}
    PROVE  \E x \in T : \A y \in T : y <= x
<1>. DEFINE D == {n - x : x \in T}
<1>1. D \subseteq Nat /\ D # {}
  <2>1. ASSUME NEW x \in T PROVE n - x \in Nat
    <3>1. x \in 1..n
      OBVIOUS
    <3>. QED BY <3>1
  <2>. QED BY <2>1
<1>2. PICK d \in D : \A e \in D : ~(<<e, d>> \in OpToRel(<, Nat))
  <2>. HIDE DEF D
  <2>. QED BY <1>1, NatLessThanWellFounded, WFMin
<1>3. \A e \in D : ~(e < d)
  BY <1>1, <1>2 DEF OpToRel
<1>4. PICK x \in T : d = n - x
  OBVIOUS
<1>5. ASSUME NEW y \in T PROVE y <= x
  <2>1. x \in 1..n /\ y \in 1..n
    OBVIOUS
  <2>2. ~(n - y < n - x)
    BY <1>3, <1>4
  <2>. QED BY <2>1, <2>2
<1>. QED
  BY <1>5

\* The latest report is the data of a gate event.
LEMMA LatestReportIsRecorded ==
    ASSUME NEW S, NEW lines \in Seq(S)
    PROVE  \/ LatestReport(lines) = NoReport
           \/ \E i \in GateEvents(lines) : LatestReport(lines) = lines[i].data
<1>1. CASE GateEvents(lines) = {}
  BY <1>1 DEF LatestReport
<1>2. CASE GateEvents(lines) # {}
  <2>1. GateEvents(lines) \subseteq 1..Len(lines) /\ Len(lines) \in Nat
    BY LenProperties DEF GateEvents
  <2>2. \E i \in GateEvents(lines) : \A j \in GateEvents(lines) : j <= i
    BY <1>2, <2>1, LastPosition
  <2>. QED
    BY <1>2, <2>2 DEF LatestReport
<1>. QED
  BY <1>1, <1>2

LEMMA RunTypes ==
    ASSUME NEW c \in Accepted
    PROVE  /\ NewRun(c) \in Runs
           /\ \A r \in Runs : ReportOf(c, r) \in Reports
BY DEF Runs, Reports

LEMMA ReportTypes ==
    ASSUME NEW r \in Reports
    PROVE  r.decision \in Decisions /\ r.eligible \in BOOLEAN
<1>1. PICK c \in Accepted, run \in Runs : r = ReportOf(c, run)
  BY DEF Reports
<1>. QED
  BY <1>1 DEF ReportOf, Evaluate, decision, Decisions, AllMandatoryPass

LEMMA EventType ==
    ASSUME NEW m \in Mems, m.run \in Runs, m.type \in EventTypes,
           m.type = "gate.evaluated" => m.report \in Reports
    PROVE  Event(m) \in Lines
BY DEF Event, Lines, Mems, EventTypes

LEMMA StatusType ==
    ASSUME NEW m \in Mems, m.run \in Runs, m.type \in EventTypes
    PROVE  StatusOf(m) \in StatusDocuments
<1>1. m.sequence \in Nat /\ m.report \in Reports \cup {NoReport}
  BY DEF Mems
<1>2. (IF m.report = NoReport THEN "" ELSE m.report.decision) \in Decisions \cup {""}
  BY <1>1, ReportTypes
<1>3. (m.report # NoReport /\ m.report.eligible) \in BOOLEAN
  OBVIOUS
<1>. QED
  BY <1>1, <1>2, <1>3 DEF StatusOf, StatusDocuments

LEMMA GarbageIsNoEvent ==
    /\ Garbage \subseteq Lines /\ Torn # Merged
    /\ Torn \in Garbage /\ Torn \in Lines
    /\ Merged \in Garbage /\ Merged \in Lines
    /\ \A line \in Garbage : line.sequence = 0 /\ line.type \notin EventTypes
BY DEF Garbage, Torn, Merged, Lines, EventTypes

\* A line that the scanner accepts is an event.
LEMMA ScannedLine ==
    ASSUME NEW line \in Lines, Scannable(line)
    PROVE  line.sequence \in Nat /\ line.type \in EventTypes
BY DEF Lines, Scannable

LEMMA GarbageNotNumbered ==
    ASSUME NEW lines, Numbered(lines), NEW i \in DOMAIN lines
    PROVE  lines[i] \notin Garbage /\ lines[i].sequence = i
BY DEF Numbered, Readable, Scannable

-----------------------------------------------------------------------------
(***************************************************************************)
(* Types.                                                                  *)
(***************************************************************************)
PCs == Working \cup Ended \cup {"idle", "lock", "answer"}

LEMMA UnlockedType ==
    ASSUME TypeOK, NEW p \in Proc, Unlocked(p)
    PROVE  writer' \in Proc \cup {NoProc} /\ readers' \subseteq Proc
BY DEF TypeOK, Unlocked

LEMMA GotoType ==
    ASSUME TypeOK, NEW p, NEW label \in PCs, Goto(p, label)
    PROVE  pc' \in [Proc -> PCs]
BY DEF TypeOK, Goto, PCs

LEMMA FailType ==
    ASSUME TypeOK, NEW p \in Proc, NEW code \in {1, 2}, Fail(p, code),
           call' \in [Proc -> Calls \cup {NoCall}]
    PROVE  TypeOK'
<1>1. "done" \in PCs
  BY DEF PCs, Ended
<1>2. pc' \in [Proc -> PCs]
  BY <1>1, GotoType DEF Fail
<1>3. writer' \in Proc \cup {NoProc} /\ readers' \subseteq Proc
  BY UnlockedType DEF Fail
<1>4. exit' \in [Proc -> {0, 1, 2, NoExit}]
  BY DEF TypeOK, Fail
<1>. QED
  BY <1>2, <1>3, <1>4 DEF TypeOK, Fail, directory, projections, PCs

\* A replay of the journal keeps a run, the type of its last event and a
\* recorded report.
LEMMA ReplayType ==
    ASSUME TypeOK, JournalInv, VerdictInv, Reconcilable
    PROVE  LET m == Replay(journal, runFile)
           IN  /\ m \in Mems
               /\ m.run = runFile
               /\ m.type \in EventTypes
               /\ m.report # NoReport => Sound(m.report)
<1>. DEFINE m == Replay(journal, runFile)
<1>1. journal \in Seq(Lines) /\ runFile \in Runs /\ journal # <<>> /\ Numbered(journal)
  BY DEF TypeOK, Reconcilable, Replayable
<1>2. Len(journal) \in Nat /\ Len(journal) \in DOMAIN journal
  BY <1>1, EmptySeq, LenProperties
<1>3. journal[Len(journal)] \in Lines /\ Scannable(journal[Len(journal)])
  BY <1>1, <1>2, ElementOfSeq, LenProperties DEF Numbered, Readable
<1>4. journal[Len(journal)].type \in EventTypes
  BY <1>3, ScannedLine
<1>5. LatestReport(journal) # NoReport => Sound(LatestReport(journal))
  BY <1>1, LatestReportIsRecorded DEF VerdictInv
<1>6. \A v : Sound(v) => v \in Reports
  BY <1>1 DEF Sound, Reports
<1>7. LatestReport(journal) \in Reports \cup {NoReport}
  BY <1>5, <1>6
<1>8. m \in Mems
  BY <1>1, <1>2, <1>4, <1>7 DEF Replay, Mems
<1>. QED
  BY <1>4, <1>5, <1>8 DEF Replay

LEMMA InitType == Init => TypeOK
<1>. SUFFICES ASSUME Init PROVE TypeOK
  OBVIOUS
<1>1. NoMem \in Mems
  BY DEF NoMem, Mems
<1>2. journal \in Seq(Lines)
  BY EmptySeq DEF Init
<1>. QED
  BY <1>1, <1>2 DEF Init, TypeOK

\* What a process holds when it is about to append or to write a projection.
LEMMA OnRunType ==
    ASSUME TypeOK, NEW p \in Proc, PhaseInv(p), pc[p] \in OnRun
    PROVE  /\ mem[p] \in Mems
           /\ mem[p].run \in Runs /\ mem[p].run = runFile
           /\ mem[p].type \in EventTypes
           /\ call[p].cmd = "evaluate" => call[p] \in Accepted
           /\ call[p].cmd = "evaluate" /\ mem[p].type = "gate.evaluated" =>
                 mem[p].report \in Reports
<1>1. mem[p] \in Mems /\ runFile \in Runs
  BY DEF TypeOK, PhaseInv, OnRun
<1>2. mem[p].run = runFile /\ mem[p].type \in EventTypes
  BY DEF PhaseInv
<1>3. call[p].cmd = "evaluate" => call[p] \in Accepted
  BY DEF PhaseInv, OnRun
<1>4. call[p].cmd = "evaluate" /\ mem[p].type = "gate.evaluated" =>
         mem[p].report \in Reports
  BY <1>1, <1>3, RunTypes DEF PhaseInv
<1>. QED
  BY <1>1, <1>2, <1>3, <1>4

\* An append leaves a sequence of lines, also when it lands on a cut line.
LEMMA ExtendedType ==
    ASSUME TypeOK, JournalInv, NEW line \in Lines
    PROVE  /\ Extended(line) \in Seq(Lines)
           /\ terminated => Extended(line) = Append(journal, line)
           /\ ~terminated =>
                 /\ Len(journal) \in 1..Len(journal)
                 /\ Extended(line) = [journal EXCEPT ![Len(journal)] = Merged]
<1>1. journal \in Seq(Lines)
  BY DEF TypeOK
<1>2. ~terminated => Len(journal) \in 1..Len(journal)
  BY <1>1, EmptySeq DEF JournalInv
<1>3. Append(journal, line) \in Seq(Lines)
  BY <1>1
<1>4. ~terminated => [journal EXCEPT ![Len(journal)] = Merged] \in Seq(Lines)
  BY <1>1, <1>2, ExceptSeq, GarbageIsNoEvent
<1>. QED
  BY <1>2, <1>3, <1>4 DEF Extended

\* Every step of every process keeps the types.
LEMMA StepType ==
    ASSUME IInv, NEW p \in Proc, Step(p)
    PROVE  TypeOK'
<1>. USE DEF IInv
<1>0. PhaseInv(p) /\ call \in [Proc -> Calls \cup {NoCall}] /\ mem[p] \in Mems
  BY DEF TypeOK
<1>. DEFINE Frame == UNCHANGED <<directory, call, exit, doc>>
<1>1. CASE Lock(p)
  <2>1. pc' \in [Proc -> PCs]
    BY <1>1, GotoType DEF Lock, PCs, Working
  <2>2. writer' \in Proc \cup {NoProc} /\ readers' \subseteq Proc
    BY <1>1 DEF Lock, TypeOK
  <2>. QED
    BY <1>1, <2>1, <2>2 DEF TypeOK, Lock, PCs, directory, projections
<1>2. CASE AdmitEvaluation(p)
  <2>1. call[p] \in Accepted
    BY <1>0, <1>2 DEF AdmitEvaluation, At, PhaseInv
  <2>2. pc' \in [Proc -> PCs]
    BY <1>2, GotoType DEF AdmitEvaluation, PCs, Working
  <2>3. CASE runFile = NoRun /\ Creating(p)
    <3>1. RunFor(call[p]) \in Runs
      BY <2>1, <2>3, RunTypes DEF RunFor
    <3>2. [mem[p] EXCEPT !.run = RunFor(call[p]), !.type = "run.created"] \in Mems
      BY <1>0, <3>1 DEF Mems, EventTypes
    <3>3. mem' \in [Proc -> Mems]
      BY <2>3, <3>2 DEF Creating, TypeOK
    <3>. QED
      BY <1>2, <2>2, <3>3 DEF TypeOK, AdmitEvaluation, PCs, directory, projections, lock
  <2>4. CASE runFile # NoRun /\ Evaluating(p, runFile)
    <3>1. runFile \in Runs /\ ReportOf(call[p], runFile) \in Reports
      BY <2>1, <2>4, RunTypes DEF TypeOK
    <3>2. [mem[p] EXCEPT !.run = runFile, !.type = "gate.evaluated",
                         !.report = ReportOf(call[p], runFile)] \in Mems
      BY <1>0, <3>1 DEF Mems, EventTypes
    <3>3. mem' \in [Proc -> Mems]
      BY <2>4, <3>2 DEF Evaluating, TypeOK
    <3>. QED
      BY <1>2, <2>2, <3>3 DEF TypeOK, AdmitEvaluation, PCs, directory, projections, lock
  <2>. QED
    BY <1>2, <2>3, <2>4 DEF AdmitEvaluation
<1>3. CASE RefuseEvaluation(p)
  BY <1>0, <1>3, FailType DEF RefuseEvaluation
<1>4. CASE CreateRun(p)
  <2>1. CASE ~Creatable(p)
    BY <1>0, <1>4, <2>1, FailType DEF CreateRun
  <2>2. CASE Creatable(p)
    <3>1. pc' \in [Proc -> PCs]
      BY <1>4, <2>2, GotoType DEF CreateRun, PCs, Working
    <3>2. mem[p].run \in Runs
      BY <1>0, <1>4, RunTypes DEF CreateRun, At, PhaseInv
    <3>. QED
      BY <1>4, <2>2, <3>1, <3>2 DEF TypeOK, CreateRun, PCs, projections, lock
  <2>. QED
    BY <2>1, <2>2
<1>5. CASE NumberEvent(p)
  <2>1. CASE ~Appendable(mem[p])
    BY <1>0, <1>5, <2>1, FailType DEF NumberEvent
  <2>2. CASE Appendable(mem[p])
    <3>1. pc' \in [Proc -> PCs]
      BY <1>5, <2>2, GotoType DEF NumberEvent, PCs, Working
    <3>2. Len(journal) + 1 \in Nat
      BY LenProperties DEF TypeOK
    <3>3. [mem[p] EXCEPT !.sequence = Len(journal) + 1] \in Mems
      BY <1>0, <3>2 DEF Mems
    <3>4. mem' \in [Proc -> Mems]
      BY <1>5, <2>2, <3>3 DEF NumberEvent, TypeOK
    <3>. QED
      BY <1>5, <2>2, <3>1, <3>4 DEF TypeOK, NumberEvent, PCs, directory, projections, lock
  <2>. QED
    BY <2>1, <2>2
<1>6. CASE AppendEvent(p)
  <2>1. pc' \in [Proc -> PCs]
    BY <1>6, GotoType DEF AppendEvent, PCs, Working
  <2>2. Event(mem[p]) \in Lines
    <3>1. call[p].cmd = "evaluate" /\ pc[p] \in OnRun
      BY <1>0, <1>6 DEF AppendEvent, At, PhaseInv, OnRun
    <3>. QED
      BY <1>0, <3>1, OnRunType, EventType
  <2>3. journal' \in Seq(Lines)
    BY <1>6, <2>2, ExtendedType DEF AppendEvent
  <2>. QED
    BY <1>6, <2>1, <2>3 DEF TypeOK, AppendEvent, PCs, projections, lock
<1>7. CASE WriteStatus(p)
  <2>1. pc' \in [Proc -> PCs]
    BY <1>7, GotoType DEF WriteStatus, PCs, Working
  <2>2. /\ pc[p] \in OnRun /\ mem[p] \in Mems /\ mem[p].run \in Runs
        /\ mem[p].type \in EventTypes
        /\ call[p].cmd = "evaluate" => call[p] \in Accepted
    BY <1>0, <1>7, OnRunType DEF WriteStatus, At, OnRun
  <2>3. status' \in StatusDocuments
    BY <1>7, <2>2, StatusType DEF WriteStatus
  <2>4. mem' \in [Proc -> Mems]
    <3>1. CASE call[p].cmd = "evaluate" /\ Evaluating(p, mem[p].run)
      <4>1. ReportOf(call[p], mem[p].run) \in Reports
        BY <2>2, <3>1, RunTypes
      <4>2. [mem[p] EXCEPT !.run = mem[p].run, !.type = "gate.evaluated",
                           !.report = ReportOf(call[p], mem[p].run)] \in Mems
        BY <2>2, <4>1 DEF Mems, EventTypes
      <4>. QED
        BY <3>1, <4>2 DEF Evaluating, TypeOK
    <3>2. CASE UNCHANGED mem
      BY <3>2 DEF TypeOK
    <3>. QED
      BY <1>7, <3>1, <3>2 DEF WriteStatus
  <2>. QED
    BY <1>7, <2>1, <2>3, <2>4 DEF TypeOK, WriteStatus, PCs, lock
<1>8. CASE WriteGate(p)
  <2>1. pc' \in [Proc -> PCs]
    BY <1>8, GotoType DEF WriteGate, PCs, Working
  <2>. QED
    BY <1>0, <1>8, <2>1 DEF TypeOK, WriteGate, PCs, lock, Mems
<1>9. CASE WriteReport(p)
  <2>1. pc' \in [Proc -> PCs]
    BY <1>9, GotoType DEF WriteReport, PCs
  <2>2. writer' \in Proc \cup {NoProc} /\ readers' \subseteq Proc
    BY <1>9, UnlockedType DEF WriteReport
  <2>. QED
    BY <1>0, <1>9, <2>1, <2>2 DEF TypeOK, WriteReport, PCs, Mems
<1>10. CASE ReplayJournal(p)
  <2>1. CASE ~Reconcilable
    BY <1>0, <1>10, <2>1, FailType DEF ReplayJournal
  <2>2. CASE Reconcilable
    <3>1. pc' \in [Proc -> PCs]
      BY <1>10, <2>2, GotoType DEF ReplayJournal, PCs, Working
    <3>2. mem' \in [Proc -> Mems]
      BY <1>10, <2>2, ReplayType DEF ReplayJournal, TypeOK
    <3>. QED
      BY <1>10, <2>2, <3>1, <3>2 DEF TypeOK, ReplayJournal, PCs, directory, projections, lock
  <2>. QED
    BY <2>1, <2>2
<1>11. CASE ReadProjection(p)
  <2>1. CASE ~Found(p)
    BY <1>0, <1>11, <2>1, FailType DEF ReadProjection
  <2>2. CASE Found(p)
    <3>1. pc' \in [Proc -> PCs]
      BY <1>11, <2>2, GotoType DEF ReadProjection, PCs
    <3>2. writer' \in Proc \cup {NoProc} /\ readers' \subseteq Proc
      BY <1>11, <2>2, UnlockedType DEF ReadProjection
    <3>3. /\ [mem[p] EXCEPT !.status = status] \in Mems
          /\ [mem[p] EXCEPT !.report = report] \in Mems
      BY <1>0 DEF Mems, TypeOK
    <3>4. mem' \in [Proc -> Mems]
      BY <1>11, <2>2, <3>3 DEF ReadProjection, TypeOK
    <3>. QED
      BY <1>11, <2>2, <3>1, <3>2, <3>4 DEF TypeOK, ReadProjection, PCs, directory, projections
  <2>. QED
    BY <2>1, <2>2
<1>12. CASE Answer(p)
  <2>1. pc' \in [Proc -> PCs]
    BY <1>12, GotoType DEF Answer, PCs, Ended
  <2>2. Document(p) \in StatusDocuments \cup Reports \cup {Reconciled, NoDoc}
    <3>1. call[p] \in Calls /\ (call[p].cmd = "status" => mem[p].status \in StatusDocuments)
      BY <1>0, <1>12 DEF Answer, At, PhaseInv, Mems
    <3>2. call[p].cmd \in {"evaluate", "report"} => mem[p].report \in Reports
      BY <1>0, <1>12 DEF Answer, At, PhaseInv, Mems
    <3>3. call[p].cmd \in {"evaluate", "reconcile", "status", "report"}
      BY <3>1, CallsAssumption
    <3>. QED
      BY <3>1, <3>2, <3>3 DEF Document
  <2>3. doc' \in [Proc -> StatusDocuments \cup Reports \cup {Reconciled, NoDoc}]
    BY <1>12, <2>2 DEF Answer, TypeOK
  <2>4. exit' \in [Proc -> {0, 1, 2, NoExit}]
    BY <1>12 DEF Answer, TypeOK
  <2>. QED
    BY <1>12, <2>1, <2>3, <2>4 DEF TypeOK, Answer, PCs, directory, projections, lock
<1>. QED
  BY <1>1, <1>2, <1>3, <1>4, <1>5, <1>6, <1>7, <1>8, <1>9, <1>10, <1>11, <1>12 DEF Step

LEMMA InterruptType ==
    ASSUME IInv, NEW p \in Proc, Interrupt(p)
    PROVE  TypeOK'
<1>. USE DEF IInv
<1>1. pc' \in [Proc -> PCs]
  BY GotoType DEF Interrupt, PCs, Ended
<1>2. writer' \in Proc \cup {NoProc} /\ readers' \subseteq Proc
  BY UnlockedType DEF Interrupt
<1>3. CASE UNCHANGED directory
  BY <1>1, <1>2, <1>3 DEF TypeOK, Interrupt, PCs, directory, projections
<1>4. CASE CutAppend(p)
  <2>1. call[p].cmd = "evaluate" /\ pc[p] \in OnRun /\ PhaseInv(p)
    BY <1>4 DEF CutAppend, At, PhaseInv, OnRun
  <2>2. Event(mem[p]) \in Lines
    BY <2>1, OnRunType, EventType
  <2>3. journal' \in Seq(Lines)
    BY <1>4, <2>2, ExtendedType, GarbageIsNoEvent DEF CutAppend
  <2>. QED
    BY <1>1, <1>2, <1>4, <2>3 DEF TypeOK, Interrupt, PCs, CutAppend, projections
<1>. QED
  BY <1>3, <1>4 DEF Interrupt

LEMMA InvokeType ==
    ASSUME IInv, NEW p \in Proc, NEW c \in Calls, Invoke(p, c)
    PROVE  TypeOK'
<1>. USE DEF IInv
<1>1. call' \in [Proc -> Calls \cup {NoCall}]
  BY DEF TypeOK, Invoke
<1>2. CASE c \in Evaluations \ Accepted /\ Fail(p, IF Unread(c) THEN 2 ELSE 1)
  BY <1>1, <1>2, FailType
<1>3. CASE Goto(p, "lock") /\ UNCHANGED <<directory, lock, mem, exit, doc>>
  <2>1. pc' \in [Proc -> PCs]
    BY <1>3, GotoType DEF PCs
  <2>. QED
    BY <1>1, <1>3, <2>1 DEF TypeOK, PCs, directory, projections, lock
<1>. QED
  BY <1>2, <1>3 DEF Invoke

-----------------------------------------------------------------------------
(***************************************************************************)
(* The lock.                                                               *)
(***************************************************************************)
\* A step that keeps the lock and does not enter the protected part.
LEMMA LockKept ==
    ASSUME TypeOK, LockInv, NEW p \in Proc, NEW label, Goto(p, label),
           UNCHANGED <<lock, call>>,
           label \in Working => pc[p] \in Working
    PROVE  LockInv'
<1>1. \A q \in Proc : pc'[q] \in Working => pc[q] \in Working
  BY DEF TypeOK, Goto
<1>. QED
  BY <1>1 DEF LockInv, IsWriter, lock

\* A step that leaves the protected part, if the process was in it.
LEMMA LockLeft ==
    ASSUME TypeOK, LockInv, NEW p \in Proc, NEW label, Goto(p, label),
           label \notin Working, Unlocked(p),
           \A q \in Proc \ {p} : call'[q] = call[q]
    PROVE  LockInv'
<1>1. \A q \in Proc : pc'[q] \in Working => q # p /\ pc[q] \in Working
  BY DEF TypeOK, Goto
<1>2. ASSUME NEW q \in Proc, pc'[q] \in Working
      PROVE  IF IsWriter(q)' THEN writer' = q ELSE q \in readers'
  <2>1. q # p /\ pc[q] \in Working /\ call'[q] = call[q]
    BY <1>1, <1>2
  <2>2. IF IsWriter(q) THEN writer = q ELSE q \in readers
    BY <2>1 DEF LockInv
  <2>. QED
    BY <2>1, <2>2 DEF Unlocked, IsWriter
<1>3. writer' # NoProc => readers' = {}
  BY DEF LockInv, Unlocked
<1>. QED
  BY <1>2, <1>3 DEF LockInv

LEMMA LockTaken ==
    ASSUME TypeOK, LockInv, NEW p \in Proc, Lock(p)
    PROVE  LockInv'
<1>1. \A q \in Proc : pc'[q] \in Working => q = p \/ pc[q] \in Working
  BY DEF TypeOK, Lock, Goto
<1>2. \A q \in Proc : IsWriter(q)' = IsWriter(q)
  BY DEF Lock, IsWriter
<1>3. \A q \in Proc : pc[q] \in Working => ~IsWriter(q) /\ q \in readers
  BY AbsentValues DEF LockInv, Lock
<1>. QED
  BY <1>1, <1>2, <1>3 DEF LockInv, Lock

LEMMA StepLock ==
    ASSUME IInv, NEW p \in Proc, Step(p)
    PROVE  LockInv'
<1>. USE DEF IInv
<1>1. CASE Lock(p)
  BY <1>1, LockTaken
<1>2. CASE AdmitEvaluation(p)
  BY <1>2, LockKept DEF AdmitEvaluation, At, Working
<1>3. CASE RefuseEvaluation(p)
  BY <1>3, LockLeft DEF RefuseEvaluation, Fail, Working
<1>4. CASE CreateRun(p)
  BY <1>4, LockKept, LockLeft DEF CreateRun, Fail, At, Working
<1>5. CASE NumberEvent(p)
  BY <1>5, LockKept, LockLeft DEF NumberEvent, Fail, At, Working
<1>6. CASE AppendEvent(p)
  BY <1>6, LockKept DEF AppendEvent, At, Working
<1>7. CASE WriteStatus(p)
  BY <1>7, LockKept DEF WriteStatus, At, Working
<1>8. CASE WriteGate(p)
  BY <1>8, LockKept DEF WriteGate, At, Working
<1>9. CASE WriteReport(p)
  BY <1>9, LockLeft DEF WriteReport, Working
<1>10. CASE ReplayJournal(p)
  BY <1>10, LockKept, LockLeft DEF ReplayJournal, Fail, At, Working
<1>11. CASE ReadProjection(p)
  BY <1>11, LockLeft DEF ReadProjection, Fail, Working
<1>12. CASE Answer(p)
  BY <1>12, LockKept DEF Answer, Working
<1>. QED
  BY <1>1, <1>2, <1>3, <1>4, <1>5, <1>6, <1>7, <1>8, <1>9, <1>10, <1>11, <1>12 DEF Step

LEMMA InterruptLock ==
    ASSUME IInv, NEW p \in Proc, Interrupt(p)
    PROVE  LockInv'
BY LockLeft DEF IInv, Interrupt, Working

LEMMA InvokeLock ==
    ASSUME IInv, NEW p \in Proc, NEW c \in Calls, Invoke(p, c)
    PROVE  LockInv'
<1>1. \A q \in Proc \ {p} : call'[q] = call[q]
  BY DEF IInv, TypeOK, Invoke
<1>2. CASE Fail(p, IF Unread(c) THEN 2 ELSE 1)
  BY <1>1, <1>2, LockLeft DEF IInv, Fail, Working
<1>3. CASE Goto(p, "lock") /\ UNCHANGED lock
  <2>1. \A q \in Proc : pc'[q] \in Working => q # p /\ pc[q] \in Working
    BY <1>3 DEF IInv, TypeOK, Goto, Working
  <2>. QED
    BY <1>1, <1>3, <2>1 DEF IInv, LockInv, IsWriter, lock
<1>. QED
  BY <1>2, <1>3 DEF Invoke

\* Who works on the run directory alone keeps the others out of it.
LEMMA WriterIsAlone ==
    ASSUME LockInv, NEW p \in Proc, pc[p] \in Working, IsWriter(p),
           NEW q \in Proc, q # p
    PROVE  pc[q] \notin Working
BY AbsentValues DEF LockInv

-----------------------------------------------------------------------------
(***************************************************************************)
(* The journal.                                                            *)
(***************************************************************************)
\* The report of an evaluation that was admitted to a run passes the checks
\* of the journal of that run.
LEMMA AdmittedReport ==
    ASSUME NEW c \in Accepted, NEW run, Admits(c, run)
    PROVE  ValidateGateReport(ReportOf(c, run), run)
<1>1. /\ IsGateInput(c.input)
      /\ ValidateGateInput(c.input, c.profile)
      /\ AuthorizationAccepted(c.auth, run, c.input)
  BY CallsAssumption DEF Accepted, InputsAccepted, Admits
<1>. QED
  BY <1>1, EvaluationIsJournalable DEF ReportOf

LEMMA JournalKept ==
    ASSUME JournalInv, UNCHANGED <<runFile, journal, terminated>>
    PROVE  JournalInv'
BY DEF JournalInv, JournalSound

\* What an append at the end of a numbered journal has to bring along.
LEMMA JournalExtended ==
    ASSUME TypeOK, JournalInv, Numbered(journal), runFile # NoRun, runFile' = runFile,
           NEW line \in Lines, journal' = Extended(line),
           \/ line \in Garbage
           \/ /\ line.sequence = Len(journal) + 1
              /\ BindsTo(line, runFile)
              /\ line.type = "run.created" => journal = <<>>
    PROVE  JournalInv'
<1>. DEFINE Good(lines, i) ==
                \/ lines[i] \in Garbage /\ i = Len(lines)
                \/ /\ lines[i].sequence = i
                   /\ BindsTo(lines[i], runFile)
                   /\ lines[i].type = "run.created" => i = 1
<1>1. /\ journal \in Seq(Lines) /\ journal' \in Seq(Lines)
      /\ DOMAIN journal = 1..Len(journal) /\ Len(journal) \in Nat
      /\ DOMAIN journal' = 1..Len(journal')
  BY ExtendedType, LenProperties DEF TypeOK
<1>2. ValidateRun(runFile)
  BY DEF JournalInv
<1>3. \A i \in DOMAIN journal :
         /\ journal[i].sequence = i
         /\ BindsTo(journal[i], runFile)
         /\ journal[i].type = "run.created" => i = 1
  BY GarbageNotNumbered DEF JournalInv, JournalSound
<1>4. CASE terminated
  <2>1. journal' = Append(journal, line)
    BY <1>4, ExtendedType
  <2>2. /\ Len(journal') = Len(journal) + 1
        /\ journal'[Len(journal) + 1] = line
        /\ \A i \in 1..Len(journal) : journal'[i] = journal[i]
    BY <1>1, <2>1
  <2>3. journal' # <<>>
    BY <1>1, <2>2
  <2>4. ASSUME NEW i \in DOMAIN journal' PROVE Good(journal', i)
    <3>1. CASE i \in 1..Len(journal)
      BY <1>1, <1>3, <2>2, <3>1
    <3>2. CASE i = Len(journal) + 1
      <4>1. journal = <<>> => Len(journal) = 0
        OBVIOUS
      <4>. QED BY <1>1, <2>2, <3>2, <4>1
    <3>. QED BY <1>1, <2>2, <3>1, <3>2
  <2>. QED
    BY <1>2, <2>3, <2>4 DEF JournalInv, JournalSound
<1>5. CASE ~terminated
  <2>1. /\ Len(journal) \in 1..Len(journal)
        /\ journal' = [journal EXCEPT ![Len(journal)] = Merged]
    BY <1>5, ExtendedType
  <2>2. /\ Len(journal') = Len(journal)
        /\ journal'[Len(journal)] = Merged
        /\ \A i \in 1..Len(journal) : i # Len(journal) => journal'[i] = journal[i]
    <3>1. Merged \in Lines
      BY GarbageIsNoEvent
    <3>2. DOMAIN journal' = DOMAIN journal
      BY <2>1
    <3>3. Len(journal') = Len(journal)
      BY <1>1, <2>1, <3>1, ExceptSeq
    <3>. QED
      BY <1>1, <2>1, <3>2, <3>3
  <2>3. journal' # <<>>
    BY <1>1, <2>1, <2>2
  <2>4. ASSUME NEW i \in DOMAIN journal' PROVE Good(journal', i)
    BY <1>1, <1>3, <2>2, GarbageIsNoEvent
  <2>. QED
    BY <1>2, <2>3, <2>4 DEF JournalInv, JournalSound
<1>. QED
  BY <1>4, <1>5

\* The event a process is about to append is the next one of its run.
LEMMA NextEvent ==
    ASSUME IInv, NEW p \in Proc, pc[p] = "append"
    PROVE  /\ Event(mem[p]) \in Lines
           /\ Event(mem[p]).sequence = Len(journal) + 1
           /\ Event(mem[p]).type = mem[p].type
           /\ BindsTo(Event(mem[p]), runFile)
           /\ mem[p].type = "run.created" => journal = <<>>
           /\ mem[p].type = "gate.evaluated" =>
                 Event(mem[p]).data = mem[p].report /\ Sound(mem[p].report)
           /\ Numbered(journal)
           /\ runFile # NoRun
<1>1. PhaseInv(p) /\ pc[p] \in OnRun
  BY DEF IInv, OnRun
<1>2. /\ call[p].cmd = "evaluate" /\ call[p] \in Accepted
      /\ runFile # NoRun /\ mem[p].run = runFile
      /\ mem[p].sequence = Len(journal) + 1 /\ Numbered(journal)
      /\ mem[p].type \in EventTypes
      /\ mem[p].type = "run.created" => journal = <<>>
      /\ Admits(call[p], runFile)
  BY <1>1 DEF PhaseInv
<1>3. mem[p].type = "gate.evaluated" => mem[p].report = ReportOf(call[p], runFile)
  BY <1>1, <1>2 DEF PhaseInv
<1>4. Event(mem[p]) \in Lines
  BY <1>1, <1>2, OnRunType, EventType DEF IInv
<1>5. BindsTo(Event(mem[p]), runFile)
  BY <1>2, <1>3, AdmittedReport DEF BindsTo, Event, EventTypes
<1>6. mem[p].type = "gate.evaluated" =>
         Event(mem[p]).data = mem[p].report /\ Sound(mem[p].report)
  BY <1>2, <1>3 DEF Event, Sound
<1>. QED
  BY <1>2, <1>4, <1>5, <1>6 DEF Event

LEMMA StepJournal ==
    ASSUME IInv, NEW p \in Proc, Step(p)
    PROVE  JournalInv'
<1>. USE DEF IInv
<1>1. CASE UNCHANGED <<runFile, journal, terminated>>
  BY <1>1, JournalKept
<1>2. CASE CreateRun(p) /\ Creatable(p)
  <2>1. runFile = NoRun /\ ValidateRun(mem[p].run) /\ journal = <<>> /\ terminated
    BY <1>2 DEF Creatable, JournalInv
  <2>. QED
    BY <1>2, <2>1 DEF CreateRun, JournalInv, JournalSound
<1>3. CASE AppendEvent(p)
  <2>1. pc[p] = "append"
    BY <1>3 DEF AppendEvent, At
  <2>. QED
    BY <1>3, <2>1, NextEvent, JournalExtended DEF AppendEvent
<1>. QED
  BY <1>1, <1>2, <1>3 DEF Step, Lock, AdmitEvaluation, RefuseEvaluation, CreateRun,
     NumberEvent, WriteStatus, WriteGate, WriteReport, ReplayJournal, ReadProjection,
     Answer, Fail, directory

LEMMA InterruptJournal ==
    ASSUME IInv, NEW p \in Proc, Interrupt(p)
    PROVE  JournalInv'
<1>1. CASE UNCHANGED directory
  BY <1>1, JournalKept DEF IInv, directory
<1>2. CASE CutAppend(p)
  <2>1. pc[p] = "append"
    BY <1>2 DEF CutAppend, At
  <2>2. TypeOK /\ JournalInv /\ runFile' = runFile
    BY <1>2 DEF IInv, CutAppend
  <2>3. CASE journal' = Extended(Torn)
    BY <2>1, <2>2, <2>3, NextEvent, JournalExtended, GarbageIsNoEvent
  <2>4. CASE journal' = Extended(Event(mem[p]))
    BY <2>1, <2>2, <2>4, NextEvent, JournalExtended
  <2>. QED
    BY <1>2, <2>3, <2>4 DEF CutAppend
<1>. QED
  BY <1>1, <1>2 DEF Interrupt

LEMMA InvokeJournal ==
    ASSUME IInv, NEW p \in Proc, NEW c \in Calls, Invoke(p, c)
    PROVE  JournalInv'
BY JournalKept DEF IInv, Invoke, Fail, directory

-----------------------------------------------------------------------------
(***************************************************************************)
(* The processes.                                                          *)
(***************************************************************************)
LEMMA ReportIsThere ==
    ASSUME NEW c \in Accepted, NEW r \in Runs
    PROVE  ReportOf(c, r) # NoReport /\ NewRun(c) # NoRun
BY RunTypes, AbsentDocuments

\* A process is not disturbed by another one: either the run and its journal
\* stay as they are, or the other one holds the lock and this one works on
\* neither.
LEMMA PhaseOfOthers ==
    ASSUME IInv, NEW p \in Proc, NEW q \in Proc, q # p,
           UNCHANGED <<pc[q], call[q], mem[q], doc[q], exit[q]>>,
           UNCHANGED <<runFile, journal>> \/ (pc[p] \in Working /\ IsWriter(p))
    PROVE  PhaseInv(q)'
<1>1. PhaseInv(q)
  BY DEF IInv
<1>2. CASE UNCHANGED <<runFile, journal>>
  BY <1>1, <1>2 DEF PhaseInv, IsWriter, Numbered, Readable
<1>3. CASE pc[p] \in Working /\ IsWriter(p)
  <2>1. pc[q] \notin Working
    BY <1>3, WriterIsAlone DEF IInv
  <2>2. pc[q] \notin OnRun /\ pc[q] # "create"
    BY <2>1 DEF OnRun, Working
  <2>. QED
    BY <1>1, <2>2 DEF PhaseInv, OnRun
<1>. QED
  BY <1>2, <1>3

LEMMA PhaseOfFail ==
    ASSUME IInv, NEW p \in Proc, NEW code \in {1, 2}, Fail(p, code),
           call'[p] \in Calls
    PROVE  PhaseInv(p)'
BY DEF IInv, TypeOK, Fail, Goto, PhaseInv, OnRun

\* What a process does to its own phase, one step at a time.
LEMMA OwnPhase ==
    ASSUME IInv, NEW p \in Proc, Step(p)
    PROVE  PhaseInv(p)'
<1>0. PhaseInv(p) /\ TypeOK /\ JournalInv /\ VerdictInv
  BY DEF IInv
<1>a. pc \in [Proc -> PCs] /\ mem \in [Proc -> Mems] /\ mem[p] \in Mems
  BY <1>0 DEF TypeOK, PCs
<1>b. \A label : Goto(p, label) => pc'[p] = label
  BY <1>a DEF Goto
<1>c. ASSUME UNCHANGED call, NEW code \in {1, 2}, Fail(p, code), pc[p] # "idle"
      PROVE  PhaseInv(p)'
  BY <1>0, <1>c, PhaseOfFail DEF PhaseInv
<1>1. CASE Lock(p)
  BY <1>0, <1>1, <1>b DEF Lock, At, PhaseInv, OnRun
<1>2. CASE AdmitEvaluation(p)
  <2>1. call[p] \in Accepted /\ Admits(call[p], RunFor(call[p]))
    BY <1>0, <1>2 DEF AdmitEvaluation, At, PhaseInv, Admitted, Admits
  <2>2. CASE runFile = NoRun /\ Creating(p) /\ Goto(p, "create")
    <3>1. mem[p].report = NoReport
      BY <1>0, <2>2 DEF VerdictInv, Sound
    <3>2. mem'[p] = [mem[p] EXCEPT !.run = NewRun(call[p]), !.type = "run.created"]
      BY <1>a, <2>2 DEF Creating, RunFor
    <3>3. mem'[p].run = NewRun(call[p]) /\ mem'[p].type = "run.created"
          /\ mem'[p].report = NoReport
      BY <1>a, <3>1, <3>2 DEF Mems
    <3>. QED
      BY <1>0, <1>2, <1>b, <2>1, <2>2, <3>3
      DEF AdmitEvaluation, At, PhaseInv, OnRun, RunFor
  <2>3. CASE runFile # NoRun /\ Evaluating(p, runFile) /\ Goto(p, "number")
    <3>1. mem'[p] = [mem[p] EXCEPT !.run = runFile, !.type = "gate.evaluated",
                                   !.report = ReportOf(call[p], runFile)]
      BY <1>a, <2>3 DEF Evaluating
    <3>2. mem'[p].run = runFile /\ mem'[p].type = "gate.evaluated"
          /\ mem'[p].report = ReportOf(call[p], runFile)
      BY <1>a, <3>1 DEF Mems
    <3>. QED
      BY <1>0, <1>2, <1>b, <2>1, <2>3, <3>2
      DEF AdmitEvaluation, At, PhaseInv, OnRun, RunFor, IsWriter, EventTypes, directory
  <2>. QED
    BY <1>2, <2>2, <2>3 DEF AdmitEvaluation
<1>3. CASE RefuseEvaluation(p)
  BY <1>3, <1>c DEF RefuseEvaluation, At
<1>4. CASE CreateRun(p)
  <2>1. CASE ~Creatable(p)
    BY <1>4, <2>1, <1>c DEF CreateRun, At
  <2>2. CASE Creatable(p)
    <3>1. /\ call[p] \in Accepted /\ call[p].cmd = "evaluate"
          /\ Admits(call[p], NewRun(call[p]))
          /\ mem[p].run = NewRun(call[p]) /\ mem[p].type = "run.created"
          /\ mem[p].report = NoReport
      BY <1>0, <1>4 DEF CreateRun, At, PhaseInv
    <3>2. runFile' # NoRun /\ runFile' = NewRun(call[p])
      BY <1>4, <2>2, <3>1, RunTypes, AbsentDocuments DEF CreateRun
    <3>3. journal' = <<>>
      BY <1>0, <1>4, <2>2 DEF CreateRun, Creatable, JournalInv
    <3>. QED
      BY <1>0, <1>4, <1>b, <2>2, <3>1, <3>2, <3>3
      DEF CreateRun, At, PhaseInv, OnRun, IsWriter, EventTypes
  <2>. QED
    BY <2>1, <2>2
<1>5. CASE NumberEvent(p)
  <2>1. CASE ~Appendable(mem[p])
    BY <1>5, <2>1, <1>c DEF NumberEvent, At
  <2>2. CASE Appendable(mem[p])
    <3>1. mem'[p] = [mem[p] EXCEPT !.sequence = Len(journal) + 1]
      BY <1>5, <1>a, <2>2 DEF NumberEvent
    <3>2. /\ mem'[p].sequence = Len(journal) + 1 /\ mem'[p].run = mem[p].run
          /\ mem'[p].type = mem[p].type /\ mem'[p].report = mem[p].report
          /\ mem'[p].status = mem[p].status
      BY <1>a, <3>1 DEF Mems
    <3>3. Numbered(journal)
      BY <2>2 DEF Appendable
    <3>. QED
      BY <1>0, <1>5, <1>b, <2>2, <3>2, <3>3
      DEF NumberEvent, At, PhaseInv, OnRun, IsWriter, directory
  <2>. QED
    BY <2>1, <2>2
<1>6. CASE AppendEvent(p)
  BY <1>0, <1>6, <1>b DEF AppendEvent, At, PhaseInv, OnRun, IsWriter
<1>7. CASE WriteStatus(p)
  <2>0. /\ pc[p] = "status" /\ UNCHANGED <<runFile, journal, call, doc, exit>>
        /\ IsWriter(p) /\ runFile # NoRun /\ mem[p].run = runFile
    BY <1>0, <1>7 DEF WriteStatus, At, PhaseInv, OnRun
  <2>1. CASE call[p].cmd = "evaluate" /\ Evaluating(p, mem[p].run) /\ Goto(p, "number")
    <3>1. mem'[p] = [mem[p] EXCEPT !.run = runFile, !.type = "gate.evaluated",
                                   !.report = ReportOf(call[p], runFile)]
      BY <1>a, <2>0, <2>1 DEF Evaluating
    <3>2. mem'[p].run = runFile /\ mem'[p].type = "gate.evaluated"
          /\ mem'[p].report = ReportOf(call[p], runFile)
      BY <1>a, <3>1 DEF Mems
    <3>. QED
      BY <1>0, <1>b, <2>0, <2>1, <3>2 DEF PhaseInv, OnRun, IsWriter, EventTypes
  <2>2. CASE /\ call[p].cmd = "reconcile" \/ mem[p].type = "gate.evaluated"
             /\ Goto(p, "gate") /\ UNCHANGED mem
    BY <1>0, <1>b, <2>0, <2>2 DEF PhaseInv, OnRun, IsWriter
  <2>. QED
    BY <1>7, <2>1, <2>2 DEF WriteStatus
<1>8. CASE WriteGate(p)
  BY <1>0, <1>8, <1>b DEF WriteGate, At, PhaseInv, OnRun, IsWriter
<1>9. CASE WriteReport(p)
  <2>1. call[p].cmd = "evaluate" => mem[p].report # NoReport
    <3>1. runFile \in Runs
      BY <1>0, <1>9 DEF WriteReport, At, PhaseInv, OnRun, TypeOK
    <3>. QED
      BY <1>0, <1>9, <3>1, ReportIsThere DEF WriteReport, At, PhaseInv, OnRun
  <2>2. call[p].cmd \notin {"status", "report"}
    BY <1>0, <1>9 DEF WriteReport, At, PhaseInv, OnRun, IsWriter
  <2>. QED
    BY <1>0, <1>9, <1>b, <2>1, <2>2 DEF WriteReport, At, PhaseInv, OnRun
<1>10. CASE ReplayJournal(p)
  <2>1. CASE ~Reconcilable
    BY <1>10, <2>1, <1>c DEF ReplayJournal, At
  <2>2. CASE Reconcilable
    <3>1. /\ mem'[p].run = runFile /\ mem'[p].type \in EventTypes
      BY <1>0, <1>10, <1>a, <2>2, ReplayType DEF ReplayJournal
    <3>2. runFile # NoRun
      BY <2>2 DEF Reconcilable
    <3>. QED
      BY <1>0, <1>10, <1>b, <2>2, <3>1, <3>2
      DEF ReplayJournal, At, PhaseInv, OnRun, IsWriter, directory
  <2>. QED
    BY <2>1, <2>2
<1>11. CASE ReadProjection(p)
  <2>1. CASE ~Found(p)
    BY <1>11, <2>1, <1>c DEF ReadProjection, At
  <2>2. CASE Found(p)
    <3>1. /\ call[p].cmd = "status" => mem'[p].status = status /\ status # NoStatus
          /\ call[p].cmd = "report" => mem'[p].report = report /\ report # NoReport
      BY <1>11, <1>a, <2>2 DEF ReadProjection, Found, Mems
    <3>. QED
      BY <1>0, <1>11, <1>b, <2>2, <3>1 DEF ReadProjection, At, PhaseInv, OnRun
  <2>. QED
    BY <2>1, <2>2
<1>12. CASE Answer(p)
  <2>1. doc'[p] = Document(p) /\ exit'[p] = IF NoGo(p) THEN 1 ELSE 0
    BY <1>0, <1>12 DEF Answer, TypeOK
  <2>2. call[p].cmd = "evaluate" => Document(p) = mem[p].report
    BY DEF Document
  <2>3. exit'[p] = 0 /\ call[p].cmd = "evaluate" => doc'[p].decision = "GO"
    BY <2>1, <2>2 DEF NoGo
  <2>. QED
    BY <1>0, <1>12, <1>b, <2>3 DEF Answer, At, PhaseInv, OnRun
<1>. QED
  BY <1>1, <1>2, <1>3, <1>4, <1>5, <1>6, <1>7, <1>8, <1>9, <1>10, <1>11, <1>12 DEF Step

LEMMA StepPhase ==
    ASSUME IInv, NEW p \in Proc, Step(p), NEW q \in Proc
    PROVE  PhaseInv(q)'
<1>1. CASE q = p
  BY <1>1, OwnPhase
<1>2. CASE q # p
  <2>1. UNCHANGED call /\ \A l : Goto(p, l) => pc'[q] = pc[q]
    BY <1>2 DEF IInv, TypeOK, Goto, Step, Lock, AdmitEvaluation, RefuseEvaluation,
       CreateRun, NumberEvent, AppendEvent, WriteStatus, WriteGate, WriteReport,
       ReplayJournal, ReadProjection, Answer
  <2>2. pc'[q] = pc[q]
    BY <2>1 DEF Step, Lock, AdmitEvaluation, RefuseEvaluation,
       CreateRun, NumberEvent, AppendEvent, WriteStatus, WriteGate, WriteReport,
       ReplayJournal, ReadProjection, Answer, Fail
  <2>3. mem'[q] = mem[q] /\ doc'[q] = doc[q] /\ exit'[q] = exit[q]
    BY <1>2 DEF IInv, TypeOK, Step, Lock, AdmitEvaluation, RefuseEvaluation,
       CreateRun, NumberEvent, AppendEvent, WriteStatus, WriteGate, WriteReport,
       ReplayJournal, ReadProjection, Answer, Fail, Creating, Evaluating
  <2>4. CASE CreateRun(p) \/ AppendEvent(p)
    <3>1. pc[p] \in Working /\ IsWriter(p)
      BY <2>4 DEF IInv, CreateRun, AppendEvent, At, PhaseInv, IsWriter, Working
    <3>. QED
      BY <1>2, <2>1, <2>2, <2>3, <3>1, PhaseOfOthers
  <2>5. CASE UNCHANGED <<runFile, journal>>
    BY <1>2, <2>1, <2>2, <2>3, <2>5, PhaseOfOthers
  <2>. QED
    BY <2>4, <2>5 DEF Step, Lock, AdmitEvaluation, RefuseEvaluation,
       NumberEvent, WriteStatus, WriteGate, WriteReport,
       ReplayJournal, ReadProjection, Answer, Fail, directory
<1>. QED
  BY <1>1, <1>2

LEMMA InterruptPhase ==
    ASSUME IInv, NEW p \in Proc, Interrupt(p), NEW q \in Proc
    PROVE  PhaseInv(q)'
<1>1. UNCHANGED <<call, mem, exit, doc>> /\ PhaseInv(q)
  BY DEF IInv, Interrupt
<1>2. CASE q = p
  <2>1. pc'[p] = "aborted" /\ pc[p] \notin {"idle", "done"}
    BY DEF IInv, TypeOK, Interrupt, Goto, Ended
  <2>. QED
    BY <1>1, <1>2, <2>1 DEF PhaseInv, OnRun
<1>3. CASE q # p
  <2>1. pc'[q] = pc[q]
    BY <1>3 DEF IInv, TypeOK, Interrupt, Goto
  <2>2. CASE UNCHANGED directory
    BY <1>1, <1>3, <2>1, <2>2, PhaseOfOthers DEF directory
  <2>3. CASE CutAppend(p)
    <3>1. pc[p] \in Working /\ IsWriter(p)
      BY <2>3 DEF IInv, CutAppend, At, PhaseInv, IsWriter, Working
    <3>. QED
      BY <1>1, <1>3, <2>1, <3>1, PhaseOfOthers
  <2>. QED
    BY <2>2, <2>3 DEF Interrupt
<1>. QED
  BY <1>2, <1>3

LEMMA InvokePhase ==
    ASSUME IInv, NEW p \in Proc, NEW c \in Calls, Invoke(p, c), NEW q \in Proc
    PROVE  PhaseInv(q)'
<1>1. /\ call'[p] = c /\ pc[p] = "idle"
      /\ UNCHANGED <<runFile, journal, terminated, mem, doc>> /\ PhaseInv(q)
      /\ q # p => call'[q] = call[q]
  BY DEF IInv, TypeOK, Invoke, At, Fail, directory
<1>2. CASE q = p
  <2>1. CASE Fail(p, IF Unread(c) THEN 2 ELSE 1)
    BY <1>1, <1>2, <2>1, PhaseOfFail
  <2>2. CASE /\ c \in Accepted \/ c \notin Evaluations
             /\ Goto(p, "lock") /\ UNCHANGED exit
    <3>1. pc'[p] = "lock" /\ exit'[p] = NoExit /\ exit'[p] # 0
      BY <1>1, <1>2, <2>2, AbsentValues DEF IInv, TypeOK, Goto, PhaseInv
    <3>2. c.cmd = "evaluate" => c \in Accepted
      BY <2>2 DEF Evaluations
    <3>. QED
      BY <1>1, <1>2, <3>1, <3>2 DEF PhaseInv, OnRun
  <2>. QED
    BY <2>1, <2>2 DEF Invoke
<1>3. CASE q # p
  <2>1. pc'[q] = pc[q] /\ exit'[q] = exit[q]
    BY <1>3 DEF IInv, TypeOK, Invoke, Goto, Fail
  <2>. QED
    BY <1>1, <1>3, <2>1, PhaseOfOthers
<1>. QED
  BY <1>2, <1>3

-----------------------------------------------------------------------------
(***************************************************************************)
(* The verdicts.                                                           *)
(***************************************************************************)
\* Wherever a report is written, it was sound where it came from.
LEMMA VerdictsKept ==
    ASSUME VerdictInv, runFile' = runFile,
           gate' # NoReport => gate' = gate \/ Sound(gate'),
           report' # NoReport => report' = report \/ Sound(report'),
           \A i \in GateEvents(journal') : Sound(journal'[i].data),
           \A q \in Proc :
              /\ mem'[q].report # NoReport =>
                    mem'[q].report = mem[q].report \/ Sound(mem'[q].report)
              /\ doc'[q] # NoDoc /\ call'[q].cmd \in {"evaluate", "report"} =>
                    Sound(doc'[q])
    PROVE  VerdictInv'
BY DEF VerdictInv, Sound

LEMMA ExtendedVerdicts ==
    ASSUME TypeOK, JournalInv, VerdictInv, NEW line \in Lines, journal' = Extended(line),
           line.type = "gate.evaluated" => Sound(line.data)
    PROVE  \A i \in GateEvents(journal') : Sound(journal'[i].data)
<1>1. /\ journal \in Seq(Lines) /\ journal' \in Seq(Lines)
      /\ DOMAIN journal = 1..Len(journal) /\ Len(journal) \in Nat
      /\ DOMAIN journal' = 1..Len(journal')
  BY ExtendedType, LenProperties DEF TypeOK
<1>2. SUFFICES ASSUME NEW i \in DOMAIN journal', journal'[i].type = "gate.evaluated"
               PROVE  Sound(journal'[i].data)
  BY DEF GateEvents
<1>3. \A j \in DOMAIN journal :
         journal[j].type = "gate.evaluated" => Sound(journal[j].data)
  BY DEF VerdictInv, GateEvents
<1>4. CASE terminated
  <2>1. journal' = Append(journal, line)
    BY <1>4, ExtendedType
  <2>2. CASE i \in 1..Len(journal)
    BY <1>1, <1>2, <1>3, <2>1, <2>2
  <2>3. CASE i = Len(journal) + 1
    BY <1>1, <1>2, <2>1, <2>3
  <2>. QED
    BY <1>1, <2>1, <2>2, <2>3
<1>5. CASE ~terminated
  <2>1. journal' = [journal EXCEPT ![Len(journal)] = Merged]
    BY <1>5, ExtendedType
  <2>2. i # Len(journal) /\ i \in DOMAIN journal
    BY <1>1, <1>2, <2>1, GarbageIsNoEvent DEF EventTypes
  <2>. QED
    BY <1>1, <1>2, <1>3, <2>1, <2>2
<1>. QED
  BY <1>4, <1>5

LEMMA StepVerdict ==
    ASSUME IInv, NEW p \in Proc, Step(p)
    PROVE  VerdictInv'
<1>0. /\ PhaseInv(p) /\ TypeOK /\ JournalInv /\ VerdictInv
      /\ mem \in [Proc -> Mems] /\ mem[p] \in Mems
  BY DEF IInv, TypeOK
<1>1. CASE UNCHANGED <<runFile, journal, gate, report, mem, doc, call>>
  BY <1>0, <1>1, VerdictsKept DEF VerdictInv
<1>2. CASE CreateRun(p) /\ Creatable(p)
  <2>1. /\ gate = NoReport /\ report = NoReport /\ GateEvents(journal) = {}
        /\ \A q \in Proc : /\ mem[q].report = NoReport
                           /\ doc[q] # NoDoc => call[q].cmd \notin {"evaluate", "report"}
    BY <1>0, <1>2 DEF Creatable, VerdictInv, Sound
  <2>. QED
    BY <1>2, <2>1 DEF CreateRun, VerdictInv, projections
<1>3. ASSUME NEW run, Evaluating(p, run), run = runFile, runFile # NoRun,
             call[p] \in Accepted, Admits(call[p], runFile),
             UNCHANGED <<runFile, journal, gate, report, call, doc>>
      PROVE  VerdictInv'
  <2>1. mem'[p] = [mem[p] EXCEPT !.run = run, !.type = "gate.evaluated",
                                 !.report = ReportOf(call[p], run)]
    BY <1>0, <1>3 DEF Evaluating
  <2>2. mem'[p].report = ReportOf(call[p], runFile)
    BY <1>0, <1>3, <2>1 DEF Mems
  <2>3. Sound(mem'[p].report)
    BY <1>3, <2>2 DEF Sound
  <2>4. \A q \in Proc : q # p => mem'[q] = mem[q]
    BY <1>0, <1>3 DEF Evaluating
  <2>. QED
    BY <1>0, <1>3, <2>3, <2>4, VerdictsKept DEF VerdictInv
<1>4. CASE AdmitEvaluation(p)
  <2>1. call[p] \in Accepted /\ Admits(call[p], RunFor(call[p]))
    BY <1>0, <1>4 DEF AdmitEvaluation, At, PhaseInv, Admitted, Admits
  <2>2. CASE Creating(p)
    <3>1. mem'[p] = [mem[p] EXCEPT !.run = RunFor(call[p]), !.type = "run.created"]
          /\ \A q \in Proc : q # p => mem'[q] = mem[q]
      BY <1>0, <2>2 DEF Creating
    <3>2. \A q \in Proc : mem'[q].report = mem[q].report
      BY <1>0, <3>1 DEF Mems
    <3>. QED
      BY <1>0, <1>4, <3>2, VerdictsKept DEF AdmitEvaluation, VerdictInv, directory, projections
  <2>3. CASE runFile # NoRun /\ Evaluating(p, runFile)
    BY <1>4, <1>3, <2>1, <2>3 DEF AdmitEvaluation, RunFor, directory, projections
  <2>. QED
    BY <1>4, <2>2, <2>3 DEF AdmitEvaluation
<1>5. CASE NumberEvent(p) /\ Appendable(mem[p])
  <2>1. mem'[p] = [mem[p] EXCEPT !.sequence = Len(journal) + 1]
        /\ \A q \in Proc : q # p => mem'[q] = mem[q]
    BY <1>0, <1>5 DEF NumberEvent
  <2>2. \A q \in Proc : mem'[q].report = mem[q].report
    BY <1>0, <2>1 DEF Mems
  <2>. QED
    BY <1>0, <1>5, <2>2, VerdictsKept DEF NumberEvent, VerdictInv, directory, projections
<1>6. CASE AppendEvent(p)
  <2>1. pc[p] = "append"
    BY <1>6 DEF AppendEvent, At
  <2>2. \A i \in GateEvents(journal') : Sound(journal'[i].data)
    BY <1>0, <1>6, <2>1, NextEvent, ExtendedVerdicts DEF AppendEvent
  <2>. QED
    BY <1>0, <1>6, <2>2, VerdictsKept DEF AppendEvent, VerdictInv, projections
<1>7. CASE WriteStatus(p)
  <2>1. CASE call[p].cmd = "evaluate" /\ Evaluating(p, mem[p].run)
    <3>1. /\ call[p] \in Accepted /\ Admits(call[p], runFile)
          /\ mem[p].run = runFile /\ runFile # NoRun
      BY <1>0, <1>7, <2>1 DEF WriteStatus, At, PhaseInv, OnRun
    <3>. QED
      BY <1>7, <1>3, <2>1, <3>1 DEF WriteStatus
  <2>2. CASE UNCHANGED mem
    BY <1>1, <1>7, <2>2 DEF WriteStatus
  <2>. QED
    BY <1>7, <2>1, <2>2 DEF WriteStatus
<1>8. CASE WriteGate(p) \/ WriteReport(p)
  <2>1. mem[p].report # NoReport => Sound(mem[p].report)
    BY <1>0 DEF VerdictInv
  <2>. QED
    BY <1>0, <1>8, <2>1, VerdictsKept DEF WriteGate, WriteReport, VerdictInv
<1>9. CASE ReplayJournal(p) /\ Reconcilable
  <2>1. mem'[p] = Replay(journal, runFile) /\ \A q \in Proc : q # p => mem'[q] = mem[q]
    BY <1>0, <1>9 DEF ReplayJournal
  <2>2. mem'[p].report # NoReport => Sound(mem'[p].report)
    BY <1>0, <1>9, <2>1, ReplayType
  <2>. QED
    BY <1>0, <1>9, <2>1, <2>2, VerdictsKept DEF ReplayJournal, VerdictInv, directory, projections
<1>10. CASE ReadProjection(p) /\ Found(p)
  <2>1. /\ mem'[p].report = mem[p].report \/ mem'[p].report = report
        /\ \A q \in Proc : q # p => mem'[q] = mem[q]
    BY <1>0, <1>10 DEF ReadProjection, Mems
  <2>2. report # NoReport => Sound(report)
    BY <1>0 DEF VerdictInv
  <2>. QED
    BY <1>0, <1>10, <2>1, <2>2, VerdictsKept
    DEF ReadProjection, VerdictInv, directory, projections
<1>11. CASE Answer(p)
  <2>1. call[p].cmd \in {"evaluate", "report"} => Sound(Document(p))
    BY <1>0, <1>11 DEF Answer, At, PhaseInv, VerdictInv, Document
  <2>2. doc'[p] = Document(p) /\ \A q \in Proc : q # p => doc'[q] = doc[q]
    BY <1>0, <1>11 DEF Answer, TypeOK
  <2>3. \A q \in Proc : doc'[q] # NoDoc /\ call[q].cmd \in {"evaluate", "report"} =>
                           Sound(doc'[q])
    BY <1>0, <2>1, <2>2 DEF VerdictInv
  <2>. QED
    BY <1>0, <1>11, <2>3, VerdictsKept DEF Answer, VerdictInv, directory, projections
<1>. QED
  BY <1>1, <1>2, <1>4, <1>5, <1>6, <1>7, <1>8, <1>9, <1>10, <1>11
  DEF Step, Lock, RefuseEvaluation, CreateRun, NumberEvent, ReplayJournal,
      ReadProjection, Fail, directory, projections

LEMMA InterruptVerdict ==
    ASSUME IInv, NEW p \in Proc, Interrupt(p)
    PROVE  VerdictInv'
<1>0. TypeOK /\ JournalInv /\ VerdictInv /\ UNCHANGED <<call, mem, doc>>
  BY DEF IInv, Interrupt
<1>1. CASE UNCHANGED directory
  BY <1>0, <1>1, VerdictsKept DEF VerdictInv, directory, projections
<1>2. CASE CutAppend(p)
  <2>1. pc[p] = "append" /\ runFile' = runFile /\ gate' = gate /\ report' = report
    BY <1>2 DEF CutAppend, At, projections
  <2>2. \A i \in GateEvents(journal') : Sound(journal'[i].data)
    <3>1. CASE journal' = Extended(Torn)
      BY <1>0, <3>1, ExtendedVerdicts, GarbageIsNoEvent DEF EventTypes
    <3>2. CASE journal' = Extended(Event(mem[p]))
      BY <1>0, <2>1, <3>2, NextEvent, ExtendedVerdicts
    <3>. QED
      BY <1>2, <3>1, <3>2 DEF CutAppend
  <2>. QED
    BY <1>0, <2>1, <2>2, VerdictsKept DEF VerdictInv
<1>. QED
  BY <1>1, <1>2 DEF Interrupt

LEMMA InvokeVerdict ==
    ASSUME IInv, NEW p \in Proc, NEW c \in Calls, Invoke(p, c)
    PROVE  VerdictInv'
<1>1. /\ UNCHANGED <<runFile, journal, gate, report, mem, doc>> /\ VerdictInv
      /\ \A q \in Proc : q # p => call'[q] = call[q]
      /\ doc[p] = NoDoc
  BY DEF IInv, TypeOK, Invoke, Fail, At, PhaseInv, directory, projections
<1>. QED
  BY <1>1, VerdictsKept DEF VerdictInv

-----------------------------------------------------------------------------
(***************************************************************************)
(* The invariant.                                                          *)
(***************************************************************************)
LEMMA InitInv == Init => IInv
<1>. SUFFICES ASSUME Init PROVE IInv
  OBVIOUS
<1>1. TypeOK
  BY InitType
<1>2. /\ runFile = NoRun /\ journal = <<>> /\ terminated
      /\ gate = NoReport /\ report = NoReport
      /\ \A p \in Proc : /\ pc[p] = "idle" /\ doc[p] = NoDoc /\ exit[p] = NoExit
                         /\ mem[p].report = NoReport
  BY DEF Init, NoMem
<1>3. LockInv
  BY <1>2 DEF Init, LockInv, Working
<1>4. \A p \in Proc : PhaseInv(p)
  BY <1>2, AbsentValues DEF PhaseInv, OnRun
<1>5. JournalInv
  BY <1>2 DEF JournalInv, JournalSound
<1>6. VerdictInv
  BY <1>2 DEF VerdictInv, GateEvents
<1>. QED
  BY <1>1, <1>3, <1>4, <1>5, <1>6 DEF IInv

LEMMA NextInv == IInv /\ [Next]_vars => IInv'
<1>. SUFFICES ASSUME IInv, [Next]_vars PROVE IInv'
  OBVIOUS
<1>1. ASSUME NEW p \in Proc, Step(p) PROVE IInv'
  BY <1>1, StepType, StepLock, StepPhase, StepJournal, StepVerdict DEF IInv
<1>2. ASSUME NEW p \in Proc, Interrupt(p) PROVE IInv'
  BY <1>2, InterruptType, InterruptLock, InterruptPhase, InterruptJournal,
     InterruptVerdict DEF IInv
<1>3. ASSUME NEW p \in Proc, NEW c \in Calls, Invoke(p, c) PROVE IInv'
  BY <1>3, InvokeType, InvokeLock, InvokePhase, InvokeJournal, InvokeVerdict DEF IInv
<1>4. CASE UNCHANGED vars
  <2>1. TypeOK'
    BY <1>4 DEF IInv, TypeOK, vars, directory, projections, lock
  <2>2. LockInv'
    BY <1>4 DEF IInv, LockInv, IsWriter, vars, directory, projections, lock
  <2>3. \A p \in Proc : PhaseInv(p)'
    BY <1>4 DEF IInv, PhaseInv, IsWriter, Numbered, Readable,
                vars, directory, projections, lock
  <2>4. JournalInv'
    BY <1>4, JournalKept DEF IInv, vars, directory, projections
  <2>5. VerdictInv'
    BY <1>4, VerdictsKept DEF IInv, VerdictInv, vars, directory, projections
  <2>. QED
    BY <2>1, <2>2, <2>3, <2>4, <2>5 DEF IInv
<1>. QED
  BY <1>1, <1>2, <1>3, <1>4 DEF Next, Terminating

\* Every reachable state satisfies the inductive invariant.
THEOREM Invariance == Spec => []IInv
<1>1. Init => IInv
  BY InitInv
<1>2. IInv /\ [Next]_vars => IInv'
  BY NextInv
<1>. QED
  BY <1>1, <1>2, PTL DEF Spec

-----------------------------------------------------------------------------
(***************************************************************************)
(* The properties.                                                         *)
(***************************************************************************)
\* Every file of the run directory holds a document of its kind or is absent,
\* at every step of every command.
THEOREM TypeCorrect == Spec => []TypeOK
<1>1. IInv => TypeOK
  BY DEF IInv
<1>. QED
  BY <1>1, Invariance, PTL

LEMMA InvSingleWriter == IInv => SingleWriter
<1>. SUFFICES ASSUME IInv, NEW p \in Proc, NEW q \in Proc,
                     pc[p] \in Working, pc[q] \in Working, p # q, IsWriter(p)
              PROVE  FALSE
  BY DEF SingleWriter
<1>. QED
  BY WriterIsAlone DEF IInv

\* WithLock's exclusive holder is alone in the directory, with any number of
\* processes, each of which can be interrupted at any step.
THEOREM WriterExcludesOthers == Spec => []SingleWriter
<1>. QED
  BY InvSingleWriter, Invariance, PTL

\* Line i of events.ndjson is event i of the run in run.json, and a damaged
\* line can only be the last one: for every set of calls, interleaving and
\* interruption, torn and unterminated lines included.
THEOREM JournalIsSound == Spec => []JournalSound
<1>1. IInv => JournalSound
  BY DEF IInv, JournalInv
<1>. QED
  BY <1>1, Invariance, PTL

\* gate.Evaluate says GO only with all predicates PASS and an authorization
\* for this run and this evidence.
LEMMA SoundGoIsJustified ==
    ASSUME NEW verdict, Sound(verdict), verdict.decision = "GO"
    PROVE  Justified(verdict)
<1>1. PICK c \in Accepted : Admits(c, runFile) /\ verdict = ReportOf(c, runFile)
  BY DEF Sound
<1>2. /\ verdict.predicates = c.input.predicates
      /\ verdict.operatorAuthorization = c.auth
      /\ AllMandatoryPass(c.profile, c.input)
      /\ Authorized(runFile, c.input, c.auth)
  BY <1>1 DEF ReportOf, Evaluate, decision
<1>3. c.input = [schemaVersion |-> SchemaVersion, predicates |-> c.input.predicates]
  <2>1. IsGateInput(c.input) /\ ValidateGateInput(c.input, c.profile)
    BY CallsAssumption DEF Accepted, InputsAccepted
  <2>. QED
    BY <2>1 DEF IsGateInput, ValidateGateInput
<1>4. runFile.profileDigest = ProfileDigest(c.profile)
      /\ \A id \in MandatoryIDs(c.profile) : Passes(verdict, id)
  BY <1>1, <1>2 DEF Admits, ProfileBinds, AllMandatoryPass, Passes
<1>5. /\ c.auth # NoAuthorization
      /\ ValidateAuthorization(c.auth, runFile, Digest(c.input))
  BY <1>2 DEF Authorized, EvidenceDigest
<1>. QED
  BY <1>2, <1>3, <1>4, <1>5 DEF Justified, ValidateAuthorization

LEMMA InvGoIsJustified == IInv => GoIsJustified
<1>. SUFFICES ASSUME IInv PROVE GoIsJustified
  OBVIOUS
<1>1. \A verdict \in Verdicts : Sound(verdict)
  BY DEF IInv, VerdictInv, Verdicts
<1>2. \A verdict \in Verdicts : verdict.decision = "GO" => Justified(verdict)
  BY <1>1, SoundGoIsJustified
<1>3. \A p \in Proc : IsEvaluation(p) /\ exit[p] = 0 => doc[p].decision = "GO"
  BY DEF IInv, PhaseInv, IsEvaluation, Evaluations
<1>. QED
  BY <1>2, <1>3 DEF GoIsJustified

\* A GO in the journal, in a projection or on standard output, and exit status
\* 0 of gate evaluate, mean what the documentation says a GO means.
THEOREM GoJustified == Spec => []GoIsJustified
<1>. QED
  BY InvGoIsJustified, Invariance, PTL

\* Where every line can be read, the journal passes the checks of reconcile.
LEMMA WholeJournalReplays ==
    ASSUME IInv, ~Damaged
    PROVE  Reconcilable
<1>1. runFile # NoRun /\ journal # <<>> /\ Readable(journal) /\ ValidateRun(runFile)
  BY DEF Damaged, IInv, JournalInv
<1>2. \A i \in DOMAIN journal : journal[i] \notin Garbage
  BY <1>1 DEF Readable, Scannable
<1>3. \A i \in DOMAIN journal : journal[i].sequence = i /\ BindsTo(journal[i], runFile)
  BY <1>2 DEF IInv, JournalInv, JournalSound
<1>. QED
  BY <1>1, <1>3 DEF Reconcilable, Replayable, Numbered

LEMMA StepReconcile ==
    ASSUME IInv, NEW q \in Proc, Step(q), NEW p \in Proc,
           At(p, "load"), call[p].cmd = "reconcile", pc'[p] = "done"
    PROVE  Damaged
<1>1. p = q
  BY DEF IInv, TypeOK, At, Goto, Fail, Step, Lock, AdmitEvaluation, RefuseEvaluation,
         CreateRun, NumberEvent, AppendEvent, WriteStatus, WriteGate, WriteReport,
         ReplayJournal, ReadProjection, Answer
<1>2. ReplayJournal(p)
  BY <1>1 DEF At, Step, Lock, AdmitEvaluation, RefuseEvaluation, CreateRun, NumberEvent,
         AppendEvent, WriteStatus, WriteGate, WriteReport, ReadProjection, Answer
<1>3. ~Reconcilable
  BY <1>2 DEF IInv, TypeOK, ReplayJournal, Goto
<1>. QED
  BY <1>3, WholeJournalReplays

\* reconcile never refuses a journal whose lines can all be read, whatever the
\* evaluations that wrote it were.
THEOREM ReconcileAcceptsReadableJournals == Spec => ReconcileRefusesOnlyDamage
<1>. DEFINE Refused == \A p \in Proc :
                          At(p, "load") /\ call[p].cmd = "reconcile" /\ pc'[p] = "done"
                          => Damaged
<1>1. ASSUME IInv, Next PROVE Refused
  <2>. SUFFICES ASSUME NEW p \in Proc, At(p, "load"), call[p].cmd = "reconcile",
                       pc'[p] = "done"
                PROVE  Damaged
    OBVIOUS
  <2>1. ASSUME NEW q \in Proc, Step(q) PROVE Damaged
    BY <1>1, <2>1, StepReconcile
  <2>2. ASSUME NEW q \in Proc, Interrupt(q) PROVE FALSE
    BY <1>1, <2>2 DEF IInv, TypeOK, At, Goto, Interrupt
  <2>3. ASSUME NEW q \in Proc, NEW c \in Calls, Invoke(q, c) PROVE FALSE
    BY <1>1, <2>3 DEF IInv, TypeOK, At, Goto, Fail, Invoke
  <2>4. CASE Terminating
    BY <2>4 DEF Terminating, At, Ended
  <2>. QED
    BY <1>1, <2>1, <2>2, <2>3, <2>4 DEF Next
<1>2. IInv /\ [Next]_vars =>
         [\A p \in Proc :
             /\ At(p, "load") /\ call[p].cmd = "reconcile"
             /\ pc'[p] = "done"
             => Damaged]_vars
  BY <1>1
<1>. QED
  BY <1>2, Invariance, PTL DEF Spec, ReconcileRefusesOnlyDamage

-----------------------------------------------------------------------------
(***************************************************************************)
(* The process that created the run.                                       *)
(***************************************************************************)
\* A process that has been started keeps its command line.
LEMMA CallsAreKept ==
    ASSUME IInv, [Next]_vars, NEW p \in Proc, pc[p] # "idle"
    PROVE  call'[p] = call[p] /\ pc'[p] # "idle"
<1>0. pc \in [Proc -> PCs] /\ call \in [Proc -> Calls \cup {NoCall}]
  BY DEF IInv, TypeOK, PCs
<1>1. ASSUME NEW q \in Proc, Step(q) PROVE call' = call /\ pc'[p] # "idle"
  BY <1>0, <1>1 DEF Step, Lock, AdmitEvaluation, RefuseEvaluation, CreateRun, NumberEvent,
     AppendEvent, WriteStatus, WriteGate, WriteReport, ReplayJournal, ReadProjection,
     Answer, Fail, Goto
<1>2. ASSUME NEW q \in Proc, Interrupt(q) PROVE call' = call /\ pc'[p] # "idle"
  BY <1>0, <1>2 DEF Interrupt, Goto
<1>3. ASSUME NEW q \in Proc, NEW c \in Calls, Invoke(q, c)
      PROVE  call'[p] = call[p] /\ pc'[p] # "idle"
  BY <1>0, <1>3 DEF Invoke, At, Fail, Goto
<1>. QED
  BY <1>1, <1>2, <1>3 DEF Next, Terminating, vars

\* run.json is written by CreateRun only.
LEMMA RunIsKept ==
    ASSUME IInv, [Next]_vars
    PROVE  \/ runFile' = runFile
           \/ \E p \in Proc : CreateRun(p) /\ Creatable(p)
<1>1. ASSUME NEW q \in Proc, Step(q)
      PROVE  runFile' = runFile \/ (CreateRun(q) /\ Creatable(q))
  BY <1>1 DEF Step, Lock, AdmitEvaluation, RefuseEvaluation, CreateRun, NumberEvent,
     AppendEvent, WriteStatus, WriteGate, WriteReport, ReplayJournal, ReadProjection,
     Answer, Fail, directory
<1>2. ASSUME NEW q \in Proc, Interrupt(q) PROVE runFile' = runFile
  BY <1>2 DEF Interrupt, CutAppend, directory
<1>3. ASSUME NEW q \in Proc, NEW c \in Calls, Invoke(q, c) PROVE runFile' = runFile
  BY <1>3 DEF Invoke, Fail, directory
<1>. QED
  BY <1>1, <1>2, <1>3 DEF Next, Terminating, vars, directory

LEMMA NextCreator == IInv /\ CreatorInv /\ [Next]_vars => CreatorInv'
<1>. SUFFICES ASSUME IInv, CreatorInv, [Next]_vars, runFile' # NoRun
              PROVE  \E p \in Proc : Creator(p)'
  BY DEF CreatorInv
<1>1. CASE runFile' = runFile
  <2>1. PICK p \in Proc : Creator(p)
    BY <1>1 DEF CreatorInv
  <2>2. call'[p] = call[p] /\ pc'[p] # "idle"
    BY <2>1, CallsAreKept DEF Creator
  <2>. QED
    BY <1>1, <2>1, <2>2 DEF Creator, NewRun
<1>2. CASE \E p \in Proc : CreateRun(p) /\ Creatable(p)
  <2>1. PICK p \in Proc : CreateRun(p) /\ Creatable(p)
    BY <1>2
  <2>2. pc[p] = "create" /\ runFile' = mem[p].run
    BY <2>1 DEF CreateRun, At
  <2>3. /\ call[p] \in Accepted /\ Admits(call[p], NewRun(call[p]))
        /\ mem[p].run = NewRun(call[p])
    BY <2>2 DEF IInv, PhaseInv
  <2>4. call'[p] = call[p] /\ pc'[p] # "idle"
    BY <2>2, CallsAreKept
  <2>. QED
    BY <2>2, <2>3, <2>4 DEF Creator
<1>. QED
  BY <1>1, <1>2, RunIsKept

\* An accepted evaluation created the run, and its authorization, if it gave
\* one, was for this run, its profile, commit, checkpoint and plan, and for its
\* evidence: whatever was rejected left no run behind.
THEOREM RunsAreCreatedByAcceptedEvaluations ==
    Spec => []RunCreatedByAcceptedEvaluation
<1>1. Init => CreatorInv
  BY DEF Init, CreatorInv
<1>2. CreatorInv => RunCreatedByAcceptedEvaluation
  <2>. SUFFICES ASSUME NEW p \in Proc, Creator(p)
                PROVE  /\ IsEvaluation(p)
                       /\ runFile = NewRun(call[p])
                       /\ InputsAccepted(call[p])
                       /\ AuthorizationAccepted(call[p].auth, runFile, call[p].input)
    BY DEF CreatorInv, RunCreatedByAcceptedEvaluation
  <2>1. call[p] \in Evaluations /\ InputsAccepted(call[p]) /\ runFile = NewRun(call[p])
    BY DEF Creator, Accepted
  <2>2. AuthorizationAccepted(call[p].auth, runFile, call[p].input)
    BY <2>1 DEF Creator, Admits
  <2>. QED
    BY <2>1, <2>2 DEF IsEvaluation
<1>3. IInv /\ CreatorInv /\ [Next]_vars => CreatorInv'
  BY NextCreator
<1>. QED
  BY <1>1, <1>2, <1>3, Invariance, PTL DEF Spec

-----------------------------------------------------------------------------
(***************************************************************************)
(* The status projection.                                                  *)
(***************************************************************************)
\* Nobody else is at a step inside the lock.
LEMMA StatusWriterIsAlone ==
    ASSUME IInv, NEW p \in Proc, pc[p] \in OnRun, NEW q \in Proc, q # p
    PROVE  pc[q] # "status"
<1>1. pc[p] \in Working /\ IsWriter(p)
  BY DEF IInv, PhaseInv, OnRun, Working
<1>2. pc[q] \notin Working
  BY <1>1, WriterIsAlone DEF IInv
<1>. QED
  BY <1>2 DEF Working

\* Steps that write neither the run, the journal nor the status, and lead
\* nobody to the step that writes the status.
LEMMA StatusKept ==
    ASSUME StatusInv, UNCHANGED <<status, runFile, journal>>,
           \A q \in Proc : pc'[q] = "status" => pc[q] = "status" /\ mem'[q] = mem[q]
    PROVE  StatusInv'
BY DEF StatusInv, Numbered, Readable

\* An append makes the journal one line longer or unreadable.
LEMMA AppendedLine ==
    ASSUME IInv, NEW p \in Proc, pc[p] = "append", NEW line \in Lines,
           journal' = Extended(line), Numbered(journal')
    PROVE  Len(journal') = Len(journal) + 1
<1>1. journal \in Seq(Lines) /\ TypeOK /\ JournalInv
  BY DEF IInv, TypeOK
<1>2. CASE terminated
  BY <1>1, <1>2, ExtendedType
<1>3. CASE ~terminated
  <2>1. /\ Len(journal) \in 1..Len(journal)
        /\ journal' = [journal EXCEPT ![Len(journal)] = Merged]
    BY <1>1, <1>3, ExtendedType
  <2>2. Len(journal) \in DOMAIN journal' /\ journal'[Len(journal)] = Merged
    BY <1>1, <2>1
  <2>. QED
    BY <2>2, GarbageNotNumbered, GarbageIsNoEvent
<1>. QED
  BY <1>2, <1>3

LEMMA StepStatus ==
    ASSUME IInv, StatusInv, NEW p \in Proc, Step(p)
    PROVE  StatusInv'
<1>0. /\ PhaseInv(p) /\ TypeOK /\ JournalInv
      /\ pc \in [Proc -> PCs] /\ mem \in [Proc -> Mems] /\ mem[p] \in Mems
      /\ Len(journal) \in Nat
  BY LenProperties DEF IInv, TypeOK, PCs
<1>1. \A label : \A q \in Proc : Goto(p, label) => pc'[q] = IF q = p THEN label ELSE pc[q]
  BY <1>0 DEF Goto
<1>2. ASSUME UNCHANGED <<status, runFile, journal, mem>>,
             NEW label, Goto(p, label), label # "status"
      PROVE  StatusInv'
  BY <1>1, <1>2, StatusKept
<1>3. CASE Lock(p) \/ RefuseEvaluation(p) \/ Answer(p) \/ WriteGate(p) \/ WriteReport(p)
  BY <1>2, <1>3 DEF Lock, RefuseEvaluation, Answer, WriteGate, WriteReport, Fail,
                    directory, projections
<1>4. CASE AdmitEvaluation(p)
  <2>1. \A q \in Proc : pc'[q] = "status" => q # p /\ pc[q] = "status"
    BY <1>1, <1>4 DEF AdmitEvaluation
  <2>2. \A q \in Proc : q # p => mem'[q] = mem[q]
    BY <1>0, <1>4 DEF AdmitEvaluation, Creating, Evaluating
  <2>. QED
    BY <1>4, <2>1, <2>2, StatusKept DEF AdmitEvaluation, directory, projections
<1>5. CASE CreateRun(p)
  <2>1. CASE Creatable(p)
    <3>1. status = NoStatus /\ status' = NoStatus
      BY <1>5, <2>1 DEF CreateRun, Creatable, StatusInv, projections
    <3>2. \A q \in Proc : pc'[q] = "status" => pc[q] = "status"
      BY <1>1, <1>5, <2>1 DEF CreateRun
    <3>3. UNCHANGED <<journal, mem>>
      BY <1>5, <2>1 DEF CreateRun
    <3>. QED
      BY <3>1, <3>2, <3>3 DEF StatusInv, Numbered, Readable
  <2>2. CASE ~Creatable(p)
    BY <1>2, <1>5, <2>2 DEF CreateRun, Fail, directory, projections
  <2>. QED
    BY <2>1, <2>2
<1>6. CASE NumberEvent(p)
  <2>1. CASE Appendable(mem[p])
    <3>1. \A q \in Proc : pc'[q] = "status" => q # p /\ pc[q] = "status"
      BY <1>1, <1>6, <2>1 DEF NumberEvent
    <3>2. \A q \in Proc : q # p => mem'[q] = mem[q]
      BY <1>0, <1>6, <2>1 DEF NumberEvent
    <3>. QED
      BY <1>6, <2>1, <3>1, <3>2, StatusKept DEF NumberEvent, directory, projections
  <2>2. CASE ~Appendable(mem[p])
    BY <1>2, <1>6, <2>2 DEF NumberEvent, Fail, directory, projections
  <2>. QED
    BY <2>1, <2>2
<1>7. CASE AppendEvent(p)
  <2>1. pc[p] = "append" /\ UNCHANGED <<runFile, status, mem>>
    BY <1>7 DEF AppendEvent, At, projections
  <2>2. mem[p].sequence = Len(journal) + 1 /\ Numbered(journal)
    BY <1>0, <2>1 DEF PhaseInv
  <2>3. Numbered(journal') => Len(journal') = Len(journal) + 1
    BY <1>7, <2>1, NextEvent, AppendedLine DEF AppendEvent
  <2>4. \A q \in Proc : pc'[q] = "status" => q = p
    BY <1>1, <1>7, <2>1, StatusWriterIsAlone DEF AppendEvent, OnRun
  <2>5. status # NoStatus => status \in StatusDocuments /\ status.lastSequence <= Len(journal)
    BY <1>0, <2>2 DEF StatusInv, TypeOK
  <2>6. status # NoStatus => status.lastSequence \in Nat
    BY <2>5 DEF StatusDocuments
  <2>. QED
    BY <1>0, <2>1, <2>2, <2>3, <2>4, <2>5, <2>6 DEF StatusInv, Numbered, Readable
<1>8. CASE WriteStatus(p)
  <2>1. pc[p] = "status" /\ status' = StatusOf(mem[p]) /\ UNCHANGED <<runFile, journal>>
    BY <1>8 DEF WriteStatus, At
  <2>2. \A q \in Proc : pc'[q] # "status"
    BY <1>1, <1>8, <2>1, StatusWriterIsAlone DEF WriteStatus, OnRun
  <2>3. mem[p].run = runFile /\ runFile # NoRun
    BY <1>0, <2>1 DEF PhaseInv, OnRun
  <2>4. Numbered(journal) => mem[p].sequence <= Len(journal)
    BY <2>1 DEF StatusInv
  <2>. QED
    BY <2>1, <2>2, <2>3, <2>4 DEF StatusInv, StatusOf, Numbered, Readable
<1>9. CASE ReplayJournal(p)
  <2>1. CASE Reconcilable
    <3>1. /\ UNCHANGED <<runFile, status, journal>> /\ mem'[p] = Replay(journal, runFile)
          /\ \A q \in Proc : q # p => mem'[q] = mem[q] /\ pc'[q] = pc[q]
      BY <1>0, <1>1, <1>9, <2>1 DEF ReplayJournal, directory, projections
    <3>2. mem'[p].sequence = Len(journal)
      BY <3>1 DEF Replay
    <3>3. status # NoStatus => status.lastSequence <= Len(journal)
      BY <2>1 DEF StatusInv, Reconcilable, Replayable
    <3>. QED
      BY <1>0, <3>1, <3>2, <3>3 DEF StatusInv, Numbered, Readable
  <2>2. CASE ~Reconcilable
    BY <1>2, <1>9, <2>2 DEF ReplayJournal, Fail, directory, projections
  <2>. QED
    BY <2>1, <2>2
<1>10. CASE ReadProjection(p)
  <2>1. CASE Found(p)
    <3>1. \A q \in Proc : pc'[q] = "status" => q # p /\ pc[q] = "status"
      BY <1>1, <1>10, <2>1 DEF ReadProjection
    <3>2. \A q \in Proc : q # p => mem'[q] = mem[q]
      BY <1>0, <1>10, <2>1 DEF ReadProjection
    <3>. QED
      BY <1>10, <2>1, <3>1, <3>2, StatusKept DEF ReadProjection, directory, projections
  <2>2. CASE ~Found(p)
    BY <1>2, <1>10, <2>2 DEF ReadProjection, Fail, directory, projections
  <2>. QED
    BY <2>1, <2>2
<1>. QED
  BY <1>3, <1>4, <1>5, <1>6, <1>7, <1>8, <1>9, <1>10 DEF Step

LEMMA InterruptStatus ==
    ASSUME IInv, StatusInv, NEW p \in Proc, Interrupt(p)
    PROVE  StatusInv'
<1>1. /\ UNCHANGED mem
      /\ \A q \in Proc : pc'[q] = "status" => q # p /\ pc[q] = "status"
  BY DEF IInv, TypeOK, Interrupt, Goto
<1>2. CASE UNCHANGED directory
  BY <1>1, <1>2, StatusKept DEF directory, projections
<1>3. CASE CutAppend(p)
  <2>1. pc[p] = "append" /\ UNCHANGED <<runFile, status>>
    BY <1>3 DEF CutAppend, At, projections
  <2>2. Len(journal) \in Nat /\ Numbered(journal)
    BY <2>1, LenProperties DEF IInv, TypeOK, PhaseInv
  <2>3. \A q \in Proc : pc'[q] # "status"
    BY <1>1, <2>1, StatusWriterIsAlone DEF OnRun
  <2>4. Numbered(journal') => Len(journal') = Len(journal) + 1
    BY <1>3, <2>1, NextEvent, GarbageIsNoEvent, AppendedLine DEF CutAppend
  <2>5. status # NoStatus => status \in StatusDocuments /\ status.lastSequence <= Len(journal)
    BY <2>2 DEF StatusInv, IInv, TypeOK
  <2>6. status # NoStatus => status.lastSequence \in Nat
    BY <2>5 DEF StatusDocuments
  <2>. QED
    BY <2>1, <2>2, <2>3, <2>4, <2>5, <2>6 DEF StatusInv, Numbered, Readable
<1>. QED
  BY <1>2, <1>3 DEF Interrupt

LEMMA NextStatus == IInv /\ StatusInv /\ [Next]_vars => StatusInv'
<1>. SUFFICES ASSUME IInv, StatusInv, [Next]_vars PROVE StatusInv'
  OBVIOUS
<1>1. ASSUME NEW p \in Proc, NEW c \in Calls, Invoke(p, c) PROVE StatusInv'
  <2>1. UNCHANGED <<status, runFile, journal, mem>>
    BY <1>1 DEF Invoke, Fail, directory, projections
  <2>2. \A q \in Proc : pc'[q] = "status" => pc[q] = "status"
    BY <1>1 DEF Invoke, Fail, Goto, IInv, TypeOK
  <2>. QED
    BY <2>1, <2>2, StatusKept
<1>2. CASE UNCHANGED vars
  BY <1>2, StatusKept DEF vars, directory, projections
<1>. QED
  BY <1>1, <1>2, StepStatus, InterruptStatus DEF Next, Terminating

\* Only WriteStatus replaces the status.
LEMMA StatusIsKept ==
    ASSUME IInv, [Next]_vars
    PROVE  status' = status \/ \E p \in Proc : WriteStatus(p)
<1>1. ASSUME NEW p \in Proc, Step(p) PROVE status' = status \/ WriteStatus(p)
  BY <1>1 DEF Step, Lock, AdmitEvaluation, RefuseEvaluation, CreateRun, NumberEvent,
     AppendEvent, WriteStatus, WriteGate, WriteReport, ReplayJournal, ReadProjection,
     Answer, Fail, directory, projections
<1>2. ASSUME NEW p \in Proc, Interrupt(p) PROVE status' = status
  BY <1>2 DEF Interrupt, CutAppend, directory, projections
<1>3. ASSUME NEW p \in Proc, NEW c \in Calls, Invoke(p, c) PROVE status' = status
  BY <1>3 DEF Invoke, Fail, directory, projections
<1>. QED
  BY <1>1, <1>2, <1>3 DEF Next, Terminating, vars, directory, projections

LEMMA StatusMovesOn ==
    ASSUME IInv, StatusInv, [Next]_vars, status # NoStatus
    PROVE  /\ status' # NoStatus
           /\ status'.lastSequence >= status.lastSequence
           /\ status'.runID = status.runID
           /\ status'.profileDigest = status.profileDigest
<1>1. status.lastSequence \in Nat
  BY DEF IInv, TypeOK, StatusDocuments
<1>2. ASSUME NEW p \in Proc, WriteStatus(p)
      PROVE  /\ status' # NoStatus
             /\ status'.lastSequence >= status.lastSequence
             /\ status'.runID = status.runID
             /\ status'.profileDigest = status.profileDigest
  <2>1. pc[p] = "status" /\ status' = StatusOf(mem[p]) /\ TypeOK /\ PhaseInv(p)
    BY <1>2 DEF WriteStatus, At, IInv
  <2>2. /\ mem[p] \in Mems /\ mem[p].run \in Runs /\ mem[p].run = runFile
        /\ mem[p].type \in EventTypes
    BY <2>1, OnRunType DEF OnRun
  <2>3. StatusOf(mem[p]) # NoStatus
    BY <2>2, StatusType, AbsentStatus
  <2>4. status.lastSequence <= mem[p].sequence /\ mem[p].sequence \in Nat
    BY <2>1, <2>2 DEF StatusInv, Mems
  <2>. QED
    BY <1>1, <2>1, <2>2, <2>3, <2>4 DEF StatusInv, StatusOf
<1>. QED
  BY <1>1, <1>2, StatusIsKept

\* The status never disappears, goes back to an earlier event or changes its
\* run and profile, across evaluations, repairs and interruptions.
THEOREM StatusNeverGoesBack == Spec => StatusMonotone
<1>1. Init => StatusInv
  BY DEF Init, StatusInv
<1>2. IInv /\ StatusInv /\ [Next]_vars =>
         [status # NoStatus =>
             /\ status' # NoStatus
             /\ status'.lastSequence >= status.lastSequence
             /\ status'.runID = status.runID
             /\ status'.profileDigest = status.profileDigest]_vars
  BY StatusMovesOn
<1>3. IInv /\ StatusInv /\ [Next]_vars => StatusInv'
  BY NextStatus
<1>. QED
  BY <1>1, <1>2, <1>3, Invariance, PTL DEF Spec, StatusMonotone

-----------------------------------------------------------------------------
(***************************************************************************)
(* The lock is let go.                                                     *)
(***************************************************************************)
\* A step after which a process that was inside is still inside.
LEMMA HeldOn ==
    ASSUME TypeOK, LockIsHeldForWork, NEW p \in Proc, NEW label,
           Goto(p, label), UNCHANGED <<lock, call>>,
           pc[p] \in Working => label \in Working
    PROVE  LockIsHeldForWork'
<1>1. \A q \in Proc : pc[q] \in Working => pc'[q] \in Working
  BY DEF TypeOK, Goto
<1>2. \A q \in Proc : IsWriter(q)' = IsWriter(q)
  BY DEF IsWriter
<1>. QED
  BY <1>1, <1>2 DEF TypeOK, LockIsHeldForWork, lock

\* A step that ends the protected part of a process.
LEMMA LetGo ==
    ASSUME TypeOK, LockIsHeldForWork, NEW p \in Proc, NEW label,
           Goto(p, label), Unlocked(p),
           \A q \in Proc \ {p} : call'[q] = call[q]
    PROVE  LockIsHeldForWork'
<1>1. \A q \in Proc \ {p} : pc'[q] = pc[q]
  BY DEF TypeOK, Goto
<1>2. \A q \in Proc \ {p} : IsWriter(q)' = IsWriter(q)
  BY DEF IsWriter
<1>3. /\ writer' # NoProc => writer' = writer /\ writer' \in Proc \ {p}
      /\ readers' = readers \ {p}
      /\ readers \subseteq Proc
  BY DEF TypeOK, Unlocked
<1>4. ASSUME writer' # NoProc
      PROVE  pc'[writer'] \in Working /\ IsWriter(writer)'
  <2>1. PICK w \in Proc \ {p} : w = writer /\ w = writer'
    BY <1>3, <1>4
  <2>2. pc[w] \in Working /\ IsWriter(w)
    BY <1>4, <2>1 DEF LockIsHeldForWork
  <2>3. pc'[w] \in Working /\ IsWriter(w)'
    BY <1>1, <1>2, <2>2
  <2>. QED
    BY <2>1, <2>3 DEF IsWriter
<1>5. ASSUME NEW q \in readers'
      PROVE  pc'[q] \in Working /\ ~IsWriter(q)'
  BY <1>1, <1>2, <1>3 DEF LockIsHeldForWork
<1>. QED
  BY <1>4, <1>5 DEF LockIsHeldForWork

LEMMA TakenForWork ==
    ASSUME TypeOK, LockIsHeldForWork, NEW p \in Proc, Lock(p)
    PROVE  LockIsHeldForWork'
<1>1. pc'[p] \in Working /\ \A q \in Proc \ {p} : pc'[q] = pc[q]
  BY DEF TypeOK, Lock, Goto, Working
<1>2. \A q \in Proc : IsWriter(q)' = IsWriter(q)
  BY DEF Lock, IsWriter
<1>3. \A q \in readers : q \in Proc /\ pc'[q] \in Working /\ ~IsWriter(q)'
  BY <1>1, <1>2 DEF TypeOK, LockIsHeldForWork
<1>4. CASE IsWriter(p) /\ readers = {} /\ writer' = p /\ readers' = readers
  <2>1. pc'[writer'] \in Working /\ IsWriter(writer)'
    BY <1>1, <1>2, <1>4 DEF IsWriter
  <2>. QED
    BY <1>4, <2>1 DEF LockIsHeldForWork
<1>5. CASE ~IsWriter(p) /\ readers' = readers \cup {p} /\ writer' = writer
  BY <1>1, <1>2, <1>3, <1>5 DEF Lock, LockIsHeldForWork
<1>. QED
  BY <1>4, <1>5 DEF Lock

LEMMA StepHeld ==
    ASSUME TypeOK, LockIsHeldForWork, NEW p \in Proc, Step(p)
    PROVE  LockIsHeldForWork'
<1>1. CASE Lock(p)
  BY <1>1, TakenForWork
<1>2. CASE AdmitEvaluation(p)
  BY <1>2, HeldOn DEF AdmitEvaluation, Working
<1>3. CASE RefuseEvaluation(p)
  BY <1>3, LetGo DEF RefuseEvaluation, Fail
<1>4. CASE CreateRun(p)
  BY <1>4, HeldOn, LetGo DEF CreateRun, Fail, Working
<1>5. CASE NumberEvent(p)
  BY <1>5, HeldOn, LetGo DEF NumberEvent, Fail, Working
<1>6. CASE AppendEvent(p)
  BY <1>6, HeldOn DEF AppendEvent, Working
<1>7. CASE WriteStatus(p)
  BY <1>7, HeldOn DEF WriteStatus, Working
<1>8. CASE WriteGate(p)
  BY <1>8, HeldOn DEF WriteGate, Working
<1>9. CASE WriteReport(p)
  BY <1>9, LetGo DEF WriteReport
<1>10. CASE ReplayJournal(p)
  BY <1>10, HeldOn, LetGo DEF ReplayJournal, Fail, Working
<1>11. CASE ReadProjection(p)
  BY <1>11, LetGo DEF ReadProjection, Fail
<1>12. CASE Answer(p)
  BY <1>12, HeldOn DEF Answer, At, Working
<1>. QED
  BY <1>1, <1>2, <1>3, <1>4, <1>5, <1>6, <1>7, <1>8, <1>9, <1>10, <1>11, <1>12 DEF Step

LEMMA InvokeHeld ==
    ASSUME TypeOK, LockIsHeldForWork, NEW p \in Proc, NEW c \in Calls, Invoke(p, c)
    PROVE  LockIsHeldForWork'
<1>1. \A q \in Proc \ {p} : call'[q] = call[q]
  BY DEF TypeOK, Invoke
<1>2. CASE Fail(p, IF Unread(c) THEN 2 ELSE 1)
  BY <1>1, <1>2, LetGo DEF Fail
<1>3. CASE Goto(p, "lock") /\ UNCHANGED lock
  <2>1. pc[p] \notin Working
    BY DEF Invoke, At, Working
  <2>2. writer # p /\ p \notin readers
    BY <2>1, AbsentValues DEF LockIsHeldForWork
  <2>3. Unlocked(p)
    BY <1>3, <2>2 DEF Unlocked, lock
  <2>. QED
    BY <1>1, <1>3, <2>3, LetGo
<1>. QED
  BY <1>2, <1>3 DEF Invoke

\* Whoever holds the lock is at work inside, however commands fail, end or are
\* interrupted: nobody waits for a process that has left.
THEOREM LockIsLetGo == Spec => []LockIsHeldForWork
<1>1. Init => LockIsHeldForWork
  BY DEF Init, LockIsHeldForWork
<1>2. TypeOK /\ LockIsHeldForWork /\ [Next]_vars => LockIsHeldForWork'
  <2>. SUFFICES ASSUME TypeOK, LockIsHeldForWork, [Next]_vars
                PROVE  LockIsHeldForWork'
    OBVIOUS
  <2>1. ASSUME NEW p \in Proc, Step(p)
        PROVE  LockIsHeldForWork'
    BY <2>1, StepHeld
  <2>2. ASSUME NEW p \in Proc, Interrupt(p)
        PROVE  LockIsHeldForWork'
    BY <2>2, LetGo DEF Interrupt
  <2>3. ASSUME NEW p \in Proc, NEW c \in Calls, Invoke(p, c)
        PROVE  LockIsHeldForWork'
    BY <2>3, InvokeHeld
  <2>4. CASE UNCHANGED vars
    BY <2>4 DEF vars, lock, LockIsHeldForWork, IsWriter
  <2>. QED
    BY <2>1, <2>2, <2>3, <2>4 DEF Next, Terminating
<1>. QED
  BY <1>1, <1>2, TypeCorrect, PTL DEF Spec
===============================================================================
