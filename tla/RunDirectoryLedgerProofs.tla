------------------------ MODULE RunDirectoryLedgerProofs ------------------------
(***************************************************************************)
(* For every set of processes and of calls, and whatever an interrupted    *)
(* append leaves behind: a run directory implements RunLedger.  Beside     *)
(* IInv and StatusInv the argument needs LedgerInv: a report that a        *)
(* process holds or a projection shows is an event the status has reached. *)
(***************************************************************************)
EXTENDS RunDirectoryLedger, RunDirectoryProofs

Broken == ~NothingMerged

-----------------------------------------------------------------------------
(***************************************************************************)
(* Events.                                                                 *)
(***************************************************************************)
\* Sequences that agree on their first n elements have the same prefix.
LEMMA SamePrefix ==
    ASSUME NEW S, NEW s \in Seq(S), NEW t \in Seq(S), NEW n \in Nat,
           n <= Len(s), n <= Len(t), \A i \in 1..n : s[i] = t[i]
    PROVE  SubSeq(s, 1, n) = SubSeq(t, 1, n)
<1>1. (\A i \in 1..n : s[i] \in S) /\ (\A i \in 1..n : t[i] \in S)
  BY ElementOfSeq, LenProperties
<1>2. /\ SubSeq(s, 1, n) \in Seq(S) /\ Len(SubSeq(s, 1, n)) = n
      /\ \A i \in 1..n : SubSeq(s, 1, n)[i] = s[i]
  BY <1>1, SubSeqProperties
<1>3. /\ SubSeq(t, 1, n) \in Seq(S) /\ Len(SubSeq(t, 1, n)) = n
      /\ \A i \in 1..n : SubSeq(t, 1, n)[i] = t[i]
  BY <1>1, SubSeqProperties
<1>. QED
  BY <1>2, <1>3, SeqEqual

\* A journal whose lines can be numbered has no seal and no line left out.
LEMMA NumberedEvents ==
    ASSUME TypeOK, Numbered(journal)
    PROVE  ~Sealed /\ ~Broken /\ Events = journal
<1>1. journal # <<>> => Len(journal) \in DOMAIN journal
  BY EmptySeq, LenProperties DEF TypeOK
<1>. QED
  BY <1>1, GarbageNotNumbered, GarbageIsNoEvent DEF Sealed, Broken, NothingMerged, Events

\* The events are lines of the journal.
LEMMA EventsType ==
    ASSUME TypeOK
    PROVE  /\ Events \in Seq(Lines) /\ Len(Events) \in Nat
           /\ DOMAIN Events = 1..Len(Events)
<1>1. journal \in Seq(Lines) /\ Len(journal) \in Nat
  BY LenProperties DEF TypeOK
<1>2. journal # <<>> => SubSeq(journal, 1, Len(journal) - 1) \in Seq(Lines)
  BY <1>1, EmptySeq, SubSeqProperties
<1>3. Events \in Seq(Lines)
  BY <1>1, <1>2 DEF Events
<1>. QED
  BY <1>3, LenProperties

LEMMA ShownType ==
    ASSUME TypeOK
    PROVE  Shown \in Nat
BY DEF TypeOK, Shown, StatusDocuments

\* What one line more does: an event is added, a cut line seals the journal,
\* and a line that lands on an unterminated one takes its event away.
LEMMA EventsAfterAppend ==
    ASSUME IInv, NEW p \in Proc, pc[p] = "append",
           NEW line \in Lines, journal' = Extended(line)
    PROVE  /\ Numbered(journal) /\ ~Sealed /\ ~Broken /\ Events = journal
           /\ terminated /\ line \notin Garbage => ~Sealed' /\ Events' = Append(Events, line)
           /\ terminated /\ line \in Garbage => Sealed' /\ Events' = Events
           /\ ~terminated =>
                 /\ Sealed' /\ Broken' /\ Events # <<>>
                 /\ Events' = SubSeq(Events, 1, Len(Events) - 1)
<1>1. /\ TypeOK /\ JournalInv /\ journal \in Seq(Lines) /\ Len(journal) \in Nat
      /\ Numbered(journal)
  BY LenProperties DEF IInv, TypeOK, PhaseInv
<1>2. ~Sealed /\ ~Broken /\ Events = journal
  BY <1>1, NumberedEvents
<1>3. ASSUME terminated
      PROVE  /\ journal' = Append(journal, line) /\ journal' # <<>>
             /\ Len(journal') = Len(journal) + 1 /\ journal'[Len(journal')] = line
             /\ SubSeq(journal', 1, Len(journal') - 1) = journal
  <2>1. journal' = Append(journal, line)
    BY <1>1, <1>3, ExtendedType
  <2>2. Len(journal') = Len(journal) + 1 /\ journal'[Len(journal')] = line
    BY <1>1, <2>1, AppendProperties
  <2>3. journal' # <<>>
    BY <1>1, <2>2
  <2>4. SubSeq(journal', 1, Len(journal)) = journal
    <3>1. journal' \in Seq(Lines) /\ \A i \in 1..Len(journal) : journal'[i] = journal[i]
      BY <1>1, <2>1, AppendProperties
    <3>2. SubSeq(journal', 1, Len(journal)) = SubSeq(journal, 1, Len(journal))
      BY <1>1, <2>2, <3>1, SamePrefix
    <3>. QED
      BY <1>1, <3>2, SubSeqFull
  <2>. QED
    BY <1>1, <2>1, <2>2, <2>3, <2>4
<1>4. ASSUME ~terminated
      PROVE  /\ journal # <<>> /\ journal' # <<>> /\ Len(journal') = Len(journal)
             /\ journal'[Len(journal')] = Merged /\ Len(journal') \in DOMAIN journal'
             /\ SubSeq(journal', 1, Len(journal) - 1) = SubSeq(journal, 1, Len(journal) - 1)
  <2>1. /\ Len(journal) \in 1..Len(journal)
        /\ journal' = [journal EXCEPT ![Len(journal)] = Merged]
        /\ journal' \in Seq(Lines)
    BY <1>1, <1>4, ExtendedType
  <2>2. /\ Len(journal') = Len(journal) /\ journal'[Len(journal')] = Merged
        /\ Len(journal') \in DOMAIN journal'
    BY <1>1, <2>1, LenProperties
  <2>3. journal # <<>> /\ journal' # <<>>
    BY <1>1, <2>1, <2>2, EmptySeq
  <2>4. SubSeq(journal', 1, Len(journal) - 1) = SubSeq(journal, 1, Len(journal) - 1)
    <3>. DEFINE n == Len(journal) - 1
    <3>1. n \in Nat /\ n <= Len(journal) /\ \A i \in 1..n : journal'[i] = journal[i]
      BY <1>1, <2>1
    <3>. HIDE DEF n
    <3>2. SubSeq(journal', 1, n) = SubSeq(journal, 1, n)
      BY <1>1, <2>1, <2>2, <3>1, SamePrefix
    <3>. QED
      BY <3>2 DEF n
  <2>. QED
    BY <2>2, <2>3, <2>4
<1>. QED
  BY <1>1, <1>2, <1>3, <1>4, GarbageIsNoEvent DEF Sealed, Broken, NothingMerged, Events

\* The event that a process is about to append.
LEMMA AppendedEvent ==
    ASSUME TypeOK, NEW p \in Proc, pc[p] = "append", PhaseInv(p)
    PROVE  Event(mem[p]) \in Lines /\ Event(mem[p]) \notin Garbage /\ Event(mem[p]) # Merged
<1>1. call[p].cmd = "evaluate" /\ pc[p] \in OnRun
  BY DEF PhaseInv, OnRun
<1>2. Event(mem[p]) \in Lines /\ Event(mem[p]).type \in EventTypes
  BY <1>1, OnRunType, EventType DEF Event
<1>. QED
  BY <1>2, GarbageIsNoEvent

\* An append after a newline merges nothing.
LEMMA NothingMergedByAppend ==
    ASSUME IInv, NEW p \in Proc, pc[p] = "append", terminated,
           NEW line \in Lines, line # Merged, journal' = Extended(line)
    PROVE  NothingMerged'
<1>1. journal \in Seq(Lines) /\ journal' = Append(journal, line)
  BY ExtendedType DEF IInv, TypeOK
<1>2. ~Broken
  BY EventsAfterAppend
<1>3. ASSUME NEW i \in DOMAIN journal' PROVE journal'[i] # Merged
  <2>1. i \in 1..Len(journal) \/ i = Len(journal) + 1
    BY <1>1, <1>3, AppendProperties, LenProperties
  <2>2. i \in 1..Len(journal) => journal'[i] = journal[i] /\ i \in DOMAIN journal
    BY <1>1, AppendProperties, LenProperties
  <2>3. i = Len(journal) + 1 => journal'[i] = line
    BY <1>1, AppendProperties
  <2>. QED
    BY <1>2, <2>1, <2>2, <2>3 DEF Broken, NothingMerged
<1>. QED
  BY <1>3 DEF NothingMerged

\* A merged line is the last one, and only a cut that may lose a newline makes it.
LEMMA BrokenIsSealed ==
    ASSUME TypeOK, JournalInv, LedgerInv, Broken
    PROVE  Ledger!Broken
<1>1. PICK i \in DOMAIN journal : journal[i] = Merged
  BY DEF Broken, NothingMerged
<1>2. i = Len(journal)
  <2>1. ~BindsTo(journal[i], runFile)
    BY <1>1, GarbageIsNoEvent DEF BindsTo, EventTypes
  <2>. QED
    BY <1>1, <2>1 DEF JournalInv, JournalSound
<1>3. journal # <<>>
  BY <1>1, EmptySeq DEF TypeOK
<1>. QED
  BY <1>1, <1>2, <1>3, GarbageIsNoEvent DEF Sealed, Ledger!Broken, LedgerInv, Broken

-----------------------------------------------------------------------------
(***************************************************************************)
(* LedgerInv.                                                              *)
(***************************************************************************)
\* What is recorded stays recorded when an event is added or the status moves on.
LEMMA RecordedStays ==
    ASSUME NEW events \in Seq(Lines), NEW line \in Lines,
           NEW later \in {events, Append(events, line)},
           NEW verdict, NEW m \in Nat, NEW n \in Nat, m <= n,
           RecordedIn(events, verdict, m)
    PROVE  RecordedIn(later, verdict, n)
<1>1. PICK i \in DOMAIN events :
         i <= m /\ events[i].type = "gate.evaluated" /\ events[i].data = verdict
  BY DEF RecordedIn
<1>2. i \in DOMAIN later /\ later[i] = events[i] /\ i <= n
  <2>1. i \in 1..Len(events) /\ Len(events) \in Nat
    BY LenProperties
  <2>2. CASE later = events
    BY <1>1, <2>1, <2>2
  <2>3. CASE later = Append(events, line)
    BY <1>1, <2>1, <2>3, AppendProperties, LenProperties
  <2>. QED
    BY <2>2, <2>3
<1>. QED
  BY <1>1, <1>2 DEF RecordedIn

\* A step of p that writes only what is recorded and leaves p with nothing else.
LEMMA RecordedKept ==
    ASSUME TypeOK, TypeOK', RecordedInv, NEW line \in Lines,
           Events' = Events \/ Events' = Append(Events, line), Shown <= Shown',
           gate' = gate \/ gate' = NoReport \/ RecordedIn(Events', gate', Shown'),
           report' = report \/ report' = NoReport \/ RecordedIn(Events', report', Shown'),
           NEW p \in Proc, RecordedOf(p)',
           \A q \in Proc : q # p =>
              pc'[q] = pc[q] /\ call'[q] = call[q] /\ mem'[q] = mem[q] /\ doc'[q] = doc[q]
    PROVE  RecordedInv'
<1>1. /\ Events \in Seq(Lines) /\ Len(Events) \in Nat /\ Shown \in Nat
      /\ Shown' \in Nat /\ Len(Events') \in Nat
      /\ Len(Events) <= Len(Events')
  <2>1. Events \in Seq(Lines) /\ Len(Events) \in Nat
    BY EventsType
  <2>2. Len(Events') \in Nat /\ Len(Events) <= Len(Events')
    BY <2>1, AppendProperties
  <2>3. Shown \in Nat
    BY ShownType
  <2>4. Shown' \in Nat
    BY DEF TypeOK, Shown, StatusDocuments
  <2>. QED
    BY <2>1, <2>2, <2>3, <2>4
<1>2. \A verdict : \A m, n \in Nat :
         m <= n /\ RecordedIn(Events, verdict, m) => RecordedIn(Events', verdict, n)
  BY <1>1, RecordedStays
<1>3. gate' # NoReport => RecordedIn(Events', gate', Shown')
  BY <1>1, <1>2 DEF RecordedInv
<1>4. report' # NoReport => RecordedIn(Events', report', Shown')
  BY <1>1, <1>2 DEF RecordedInv
<1>5. ASSUME NEW q \in Proc, q # p PROVE RecordedOf(q)'
  <2>1. RecordedOf(q) /\ mem[q] \in Mems /\ mem[q].sequence \in Nat
    BY DEF RecordedInv, TypeOK, Mems
  <2>2. pc'[q] = pc[q] /\ call'[q] = call[q] /\ mem'[q] = mem[q] /\ doc'[q] = doc[q]
    BY <1>5
  <2>3. pc'[q] = "status" =>
          /\ mem'[q].sequence \in 1..Len(Events')
          /\ mem'[q].report # NoReport =>
                RecordedIn(Events', mem'[q].report, mem'[q].sequence)
    BY <1>1, <1>2, <2>1, <2>2 DEF RecordedOf
  <2>4. Shows(q)' /\ mem'[q].report # NoReport => RecordedIn(Events', mem'[q].report, Shown')
    BY <1>1, <1>2, <2>1, <2>2 DEF RecordedOf, Shows
  <2>5. TellsVerdict(q)' => RecordedIn(Events', doc'[q], Shown')
    BY <1>1, <1>2, <2>1, <2>2 DEF RecordedOf, TellsVerdict
  <2>. QED
    BY <2>3, <2>4, <2>5 DEF RecordedOf
<1>. QED
  BY <1>3, <1>4, <1>5 DEF RecordedInv

\* A step touches the data of its own process only.
LEMMA OthersKept ==
    ASSUME TypeOK, NEW p \in Proc, Step(p) \/ Interrupt(p), NEW q \in Proc, q # p
    PROVE  pc'[q] = pc[q] /\ call'[q] = call[q] /\ mem'[q] = mem[q] /\ doc'[q] = doc[q]
BY DEF TypeOK, Step, Interrupt, Goto, Fail, Lock, AdmitEvaluation, RefuseEvaluation,
       CreateRun, NumberEvent, AppendEvent, WriteStatus, WriteGate, WriteReport,
       ReplayJournal, ReadProjection, Answer, Creating, Evaluating

\* Before its answer a process has printed nothing.
LEMMA NothingToldBefore ==
    ASSUME LedgerInv, NEW p \in Proc, pc[p] # "done", doc'[p] = doc[p]
    PROVE  ~TellsVerdict(p)'
BY DEF LedgerInv, TellsVerdict

\* A step that writes no journal and no projection and after which p shows nothing.
LEMMA QuietStep ==
    ASSUME TypeOK, TypeOK', LedgerInv, RecordedInv, NEW p \in Proc,
           Step(p) \/ Interrupt(p), UNCHANGED <<journal, status, gate, report>>,
           pc[p] # "done", doc'[p] = doc[p], pc'[p] \notin {"status", "gate", "report", "answer"}
    PROVE  RecordedInv'
<1>1. Events' = Events /\ Shown' = Shown /\ Shown \in Nat
  BY ShownType DEF Events, Shown
<1>2. RecordedOf(p)'
  BY NothingToldBefore DEF RecordedOf, Shows
<1>3. \A q \in Proc : q # p =>
         pc'[q] = pc[q] /\ call'[q] = call[q] /\ mem'[q] = mem[q] /\ doc'[q] = doc[q]
  BY OthersKept
<1>4. Torn \in Lines /\ Shown <= Shown'
  BY <1>1, GarbageIsNoEvent
<1>. QED
  BY <1>1, <1>2, <1>3, <1>4, RecordedKept

LEMMA StepTypes ==
    ASSUME IInv, NEW p \in Proc, Step(p) \/ Interrupt(p)
    PROVE  TypeOK' /\ pc[p] # "done" /\ (At(p, "answer") \/ doc'[p] = doc[p])
<1>1. TypeOK'
  BY StepType, InterruptType
<1>2. pc[p] # "done"
  BY DEF Step, Interrupt, At, Ended, Lock, AdmitEvaluation, RefuseEvaluation, CreateRun,
         NumberEvent, AppendEvent, WriteStatus, WriteGate, WriteReport, ReplayJournal,
         ReadProjection, Answer
<1>3. At(p, "answer") \/ doc'[p] = doc[p]
  BY DEF Step, Interrupt, Fail, Lock, AdmitEvaluation, RefuseEvaluation, CreateRun,
         NumberEvent, AppendEvent, WriteStatus, WriteGate, WriteReport, ReplayJournal,
         ReadProjection, Answer
<1>. QED
  BY <1>1, <1>2, <1>3

\* The event that is appended is the last one, and it carries the report that
\* the process holds.
LEMMA AppendRecords ==
    ASSUME IInv, LedgerInv, RecordedInv, NEW p \in Proc, AppendEvent(p), ~Broken'
    PROVE  RecordedInv'
<1>. DEFINE line == Event(mem[p])
<1>0. /\ TypeOK /\ PhaseInv(p) /\ pc[p] = "append" /\ pc \in [Proc -> PCs]
      /\ UNCHANGED <<status, gate, report, mem, doc, call>> /\ TypeOK'
  BY StepTypes DEF IInv, TypeOK, PCs, AppendEvent, At, projections, Step
<1>1. /\ line \in Lines /\ line \notin Garbage
      /\ mem[p].sequence = Len(journal) + 1 /\ call[p].cmd = "evaluate"
      /\ mem[p].report # NoReport => line.type = "gate.evaluated" /\ line.data = mem[p].report
  <2>1. call[p].cmd = "evaluate" /\ pc[p] \in OnRun /\ mem[p].sequence = Len(journal) + 1
    BY <1>0 DEF PhaseInv, OnRun
  <2>2. /\ mem[p] \in Mems /\ mem[p].run \in Runs /\ mem[p].type \in EventTypes
        /\ mem[p].type = "gate.evaluated" => mem[p].report \in Reports
    BY <1>0, <2>1, OnRunType
  <2>3. line \in Lines /\ line.type \in EventTypes /\ line.type = mem[p].type
    BY <2>2, EventType DEF Event
  <2>4. line \notin Garbage
    BY <2>3, GarbageIsNoEvent
  <2>5. mem[p].report # NoReport => mem[p].type = "gate.evaluated"
    BY <1>0, <2>1, <2>2 DEF PhaseInv, EventTypes
  <2>. QED
    BY <2>1, <2>3, <2>4, <2>5 DEF Event
<1>2. journal' = Extended(line)
  BY DEF AppendEvent
<1>3. /\ ~Sealed /\ Events = journal
      /\ terminated => Events' = Append(Events, line)
      /\ ~terminated => Broken'
  BY <1>0, <1>1, <1>2, EventsAfterAppend
<1>4. terminated /\ Events' = Append(Events, line)
  BY <1>3
<1>5. /\ Events \in Seq(Lines) /\ Len(Events) \in Nat
      /\ Len(Events') = Len(Events) + 1 /\ Events'[Len(Events')] = line
      /\ Len(Events') \in DOMAIN Events'
  BY <1>0, <1>1, <1>4, EventsType, AppendProperties, LenProperties
<1>6. pc'[p] = "status" /\ Shown' = Shown /\ Shown \in Nat
  BY <1>0, ShownType DEF AppendEvent, Goto, Shown
<1>7. /\ mem'[p].sequence \in 1..Len(Events')
      /\ mem'[p].report # NoReport => RecordedIn(Events', mem'[p].report, mem'[p].sequence)
  BY <1>0, <1>1, <1>3, <1>5 DEF RecordedIn
<1>8. RecordedOf(p)'
  BY <1>0, <1>6, <1>7, NothingToldBefore DEF RecordedOf, Shows
<1>9. \A q \in Proc : q # p =>
         pc'[q] = pc[q] /\ call'[q] = call[q] /\ mem'[q] = mem[q] /\ doc'[q] = doc[q]
  BY <1>0, OthersKept DEF Step
<1>. QED
  BY <1>0, <1>1, <1>4, <1>6, <1>8, <1>9, RecordedKept

\* The status moves on to the event that p has appended or replayed last.
LEMMA StatusRecords ==
    ASSUME IInv, StatusInv, LedgerInv, RecordedInv, NEW p \in Proc, WriteStatus(p)
    PROVE  /\ RecordedInv'
           /\ Shown' = mem[p].sequence /\ Shown <= Shown' /\ Shown' <= Len(Events)
<1>0. /\ TypeOK /\ PhaseInv(p) /\ pc[p] = "status" /\ TypeOK' /\ mem \in [Proc -> Mems]
      /\ pc \in [Proc -> PCs] /\ UNCHANGED <<journal, gate, report, doc, call>>
      /\ Torn \in Lines
  BY StepTypes, GarbageIsNoEvent DEF IInv, TypeOK, PCs, WriteStatus, At, Step
<1>1. mem[p] \in Mems /\ mem[p].run \in Runs /\ mem[p].type \in EventTypes
  BY <1>0, OnRunType DEF OnRun
<1>2. Shown' = mem[p].sequence /\ mem[p].sequence \in Nat
  <2>1. StatusOf(mem[p]) # NoStatus
    BY <1>1, StatusType, AbsentStatus
  <2>. QED
    BY <1>1, <2>1 DEF WriteStatus, Shown, StatusOf, Mems
<1>3. Shown <= Shown'
  BY <1>0, <1>2 DEF StatusInv, Shown
<1>4. Events' = Events /\ Len(Events) \in Nat
  BY <1>0, EventsType DEF Events
<1>5. /\ mem[p].sequence \in 1..Len(Events)
      /\ mem[p].report # NoReport => RecordedIn(Events, mem[p].report, mem[p].sequence)
  BY <1>0 DEF RecordedInv, RecordedOf
<1>6. \/ pc'[p] = "number"
      \/ pc'[p] = "gate" /\ mem'[p] = mem[p]
  BY <1>0 DEF WriteStatus, Goto
<1>7. RecordedOf(p)'
  BY <1>0, <1>2, <1>4, <1>5, <1>6, NothingToldBefore DEF RecordedOf, Shows
<1>8. \A q \in Proc : q # p =>
         pc'[q] = pc[q] /\ call'[q] = call[q] /\ mem'[q] = mem[q] /\ doc'[q] = doc[q]
  BY <1>0, OthersKept DEF Step
<1>9. RecordedInv'
  BY <1>0, <1>3, <1>4, <1>7, <1>8, RecordedKept
<1>. QED
  BY <1>2, <1>3, <1>4, <1>5, <1>9

LEMMA GateAndReportRecord ==
    ASSUME IInv, LedgerInv, RecordedInv, NEW p \in Proc, WriteGate(p) \/ WriteReport(p)
    PROVE  RecordedInv'
<1>0. /\ TypeOK /\ TypeOK' /\ pc \in [Proc -> PCs] /\ pc[p] \in {"gate", "report"}
      /\ UNCHANGED <<journal, status, mem, doc, call>> /\ Torn \in Lines
  BY StepTypes, GarbageIsNoEvent
  DEF IInv, TypeOK, PCs, WriteGate, WriteReport, At, Step
<1>1. Events' = Events /\ Shown' = Shown /\ Shown \in Nat
  BY <1>0, ShownType DEF Events, Shown
<1>2. mem[p].report # NoReport => RecordedIn(Events, mem[p].report, Shown)
  BY <1>0 DEF RecordedInv, RecordedOf, Shows
<1>3. gate' \in {gate, mem[p].report} /\ report' \in {report, mem[p].report}
  BY DEF WriteGate, WriteReport
<1>4. pc'[p] \in {"report", "answer"}
  BY <1>0 DEF WriteGate, WriteReport, Goto
<1>5. RecordedOf(p)'
  BY <1>0, <1>1, <1>2, <1>4, NothingToldBefore DEF RecordedOf
<1>6. \A q \in Proc : q # p =>
         pc'[q] = pc[q] /\ call'[q] = call[q] /\ mem'[q] = mem[q] /\ doc'[q] = doc[q]
  BY <1>0, OthersKept DEF Step
<1>7. Shown <= Shown'
  BY <1>1
<1>. QED
  BY <1>0, <1>1, <1>2, <1>3, <1>5, <1>6, <1>7, RecordedKept

\* The latest report of a replay is that of an event of the journal.
LEMMA ReplayRecords ==
    ASSUME IInv, LedgerInv, RecordedInv, NEW p \in Proc, ReplayJournal(p)
    PROVE  RecordedInv'
<1>0. /\ TypeOK /\ TypeOK' /\ pc \in [Proc -> PCs] /\ mem \in [Proc -> Mems]
      /\ pc[p] = "load" /\ Torn \in Lines /\ UNCHANGED <<directory, doc, call>>
  BY StepTypes, GarbageIsNoEvent DEF IInv, TypeOK, PCs, ReplayJournal, At, Step, Fail
<1>1. CASE Reconcilable
  <2>1. /\ mem'[p] = Replay(journal, runFile) /\ pc'[p] = "status"
        /\ journal # <<>> /\ Numbered(journal)
    BY <1>0, <1>1 DEF ReplayJournal, Reconcilable, Replayable, Goto
  <2>2. /\ Events = journal /\ Events' = journal /\ Shown' = Shown /\ Shown \in Nat
        /\ journal \in Seq(Lines) /\ Len(journal) \in Nat /\ Len(journal) # 0
    BY <1>0, <2>1, NumberedEvents, ShownType, LenProperties, EmptySeq
    DEF directory, projections, Events, Shown, TypeOK
  <2>3. mem'[p].sequence = Len(journal) /\ mem'[p].report = LatestReport(journal)
    BY <2>1 DEF Replay
  <2>4. LatestReport(journal) # NoReport =>
           RecordedIn(journal, LatestReport(journal), Len(journal))
    <3>1. ASSUME NEW i \in GateEvents(journal), LatestReport(journal) = journal[i].data
          PROVE  RecordedIn(journal, LatestReport(journal), Len(journal))
      <4>1. i \in DOMAIN journal /\ journal[i].type = "gate.evaluated" /\ i \in 1..Len(journal)
        BY <2>2, LenProperties DEF GateEvents
      <4>. QED
        BY <2>2, <3>1, <4>1 DEF RecordedIn
    <3>. QED
      BY <2>2, <3>1, LatestReportIsRecorded
  <2>5. RecordedOf(p)'
    BY <1>0, <2>1, <2>2, <2>3, <2>4, NothingToldBefore DEF RecordedOf, Shows
  <2>6. \A q \in Proc : q # p =>
           pc'[q] = pc[q] /\ call'[q] = call[q] /\ mem'[q] = mem[q] /\ doc'[q] = doc[q]
    BY <1>0, OthersKept DEF Step
  <2>7. Shown <= Shown' /\ gate' = gate /\ report' = report
    BY <1>0, <2>2 DEF directory, projections
  <2>. QED
    BY <1>0, <2>2, <2>5, <2>6, <2>7, RecordedKept
<1>2. CASE ~Reconcilable
  <2>1. pc'[p] = "done" /\ UNCHANGED <<journal, status, gate, report>>
    BY <1>0, <1>2 DEF ReplayJournal, Fail, Goto, directory, projections
  <2>. QED
    BY <1>0, <2>1, QuietStep DEF Step
<1>. QED
  BY <1>1, <1>2

LEMMA ReadRecords ==
    ASSUME IInv, LedgerInv, RecordedInv, NEW p \in Proc, ReadProjection(p)
    PROVE  RecordedInv'
<1>0. /\ TypeOK /\ TypeOK' /\ pc \in [Proc -> PCs] /\ mem \in [Proc -> Mems]
      /\ pc[p] = "load" /\ Torn \in Lines
      /\ UNCHANGED <<journal, status, gate, report, doc, call>>
  BY StepTypes, GarbageIsNoEvent
  DEF IInv, TypeOK, PCs, ReadProjection, At, Step, Fail, directory, projections
<1>1. Events' = Events /\ Shown' = Shown /\ Shown \in Nat
  BY <1>0, ShownType DEF Events, Shown
<1>2. CASE Found(p)
  <2>1. pc'[p] = "answer" /\ (call[p].cmd = "report" => mem'[p].report = report)
        /\ call[p].cmd # "evaluate"
    <3>1. pc'[p] = "answer" /\ call[p].cmd \in {"status", "report"}
      BY <1>0, <1>2 DEF ReadProjection, Goto
    <3>2. call[p].cmd = "report" => mem'[p] = [mem[p] EXCEPT !.report = report]
      BY <1>0, <1>2 DEF ReadProjection
    <3>3. mem[p] \in Mems
      BY <1>0
    <3>. QED
      BY <3>1, <3>2, <3>3 DEF Mems
  <2>2. report # NoReport => RecordedIn(Events, report, Shown)
    BY DEF RecordedInv
  <2>3. RecordedOf(p)'
    BY <1>0, <1>1, <2>1, <2>2, NothingToldBefore DEF RecordedOf, Shows
  <2>4. \A q \in Proc : q # p =>
           pc'[q] = pc[q] /\ call'[q] = call[q] /\ mem'[q] = mem[q] /\ doc'[q] = doc[q]
    BY <1>0, OthersKept DEF Step
  <2>5. Shown <= Shown'
    BY <1>1
  <2>. QED
    BY <1>0, <1>1, <2>3, <2>4, <2>5, RecordedKept
<1>3. CASE ~Found(p)
  <2>1. pc'[p] = "done"
    BY <1>0, <1>3 DEF ReadProjection, Fail, Goto
  <2>. QED
    BY <1>0, <2>1, QuietStep DEF Step
<1>. QED
  BY <1>2, <1>3

LEMMA AnswerRecords ==
    ASSUME IInv, LedgerInv, RecordedInv, NEW p \in Proc, Answer(p)
    PROVE  RecordedInv'
<1>0. /\ TypeOK /\ TypeOK' /\ pc \in [Proc -> PCs] /\ PhaseInv(p) /\ pc[p] = "answer"
      /\ UNCHANGED <<journal, status, gate, report, mem, call>> /\ Torn \in Lines
      /\ doc'[p] = Document(p) /\ pc'[p] = "done"
  BY StepTypes, GarbageIsNoEvent
  DEF IInv, TypeOK, PCs, Answer, At, Step, Goto, directory, projections
<1>1. Events' = Events /\ Shown' = Shown /\ Shown \in Nat /\ Shown <= Shown'
  BY <1>0, ShownType DEF Events, Shown
<1>2. TellsVerdict(p)' => RecordedIn(Events', doc'[p], Shown')
  <2>. SUFFICES ASSUME call[p].cmd \in {"evaluate", "report"}
                PROVE  RecordedIn(Events, doc'[p], Shown)
    BY <1>0, <1>1 DEF TellsVerdict
  <2>1. doc'[p] = mem[p].report /\ mem[p].report # NoReport
    BY <1>0 DEF Document, PhaseInv
  <2>. QED
    BY <1>0, <2>1 DEF RecordedInv, RecordedOf, Shows
<1>3. RecordedOf(p)'
  BY <1>0, <1>2 DEF RecordedOf, Shows
<1>4. \A q \in Proc : q # p =>
         pc'[q] = pc[q] /\ call'[q] = call[q] /\ mem'[q] = mem[q] /\ doc'[q] = doc[q]
  BY <1>0, OthersKept DEF Step
<1>. QED
  BY <1>0, <1>1, <1>3, <1>4, RecordedKept

LEMMA StepRecorded ==
    ASSUME IInv, StatusInv, LedgerInv, RecordedInv, NEW p \in Proc, Step(p), ~Broken'
    PROVE  RecordedInv'
<1>0. TypeOK /\ TypeOK' /\ pc \in [Proc -> PCs] /\ pc[p] # "done"
  BY StepTypes DEF IInv, TypeOK, PCs
<1>1. CASE Lock(p) \/ AdmitEvaluation(p) \/ RefuseEvaluation(p) \/ CreateRun(p) \/ NumberEvent(p)
  <2>1. UNCHANGED <<journal, status, gate, report>> /\ doc'[p] = doc[p]
    BY <1>1 DEF Lock, AdmitEvaluation, RefuseEvaluation, CreateRun, NumberEvent, Fail,
                directory, projections
  <2>2. pc'[p] \notin {"status", "gate", "report", "answer"}
    BY <1>0, <1>1 DEF Lock, AdmitEvaluation, RefuseEvaluation, CreateRun, NumberEvent, Fail, Goto
  <2>. QED
    BY <1>0, <2>1, <2>2, QuietStep
<1>. QED
  BY <1>1, AppendRecords, StatusRecords, GateAndReportRecord, ReplayRecords, ReadRecords,
     AnswerRecords DEF Step

\* A line is merged only where a newline was lost, and nothing mends it.
LEMMA StepLedger ==
    ASSUME IInv, StatusInv, LedgerInv, NEW p \in Proc, Step(p)
    PROVE  LedgerInv'
<1>0. /\ TypeOK /\ TypeOK' /\ pc \in [Proc -> PCs] /\ pc[p] # "done"
      /\ At(p, "answer") \/ doc'[p] = doc[p]
  BY StepTypes DEF IInv, TypeOK, PCs
<1>1. \/ UNCHANGED <<journal, terminated>>
      \/ pc[p] = "append" /\ terminated' = TRUE /\ journal' = Extended(Event(mem[p]))
  BY DEF Step, At, Fail, Lock, AdmitEvaluation, RefuseEvaluation, CreateRun, NumberEvent,
         AppendEvent, WriteStatus, WriteGate, WriteReport, ReplayJournal, ReadProjection,
         Answer, directory, projections
<1>2. ~NothingMerged' \/ (~terminated' /\ ~Sealed') => "unterminated" \in Cuts
  <2>1. CASE UNCHANGED <<journal, terminated>>
    BY <2>1 DEF LedgerInv, Sealed, NothingMerged
  <2>2. CASE pc[p] = "append" /\ terminated' = TRUE /\ journal' = Extended(Event(mem[p]))
    <3>1. Event(mem[p]) \in Lines /\ Event(mem[p]) # Merged
      BY <1>0, <2>2, AppendedEvent DEF IInv
    <3>2. ~Sealed /\ (terminated => NothingMerged')
      BY <2>2, <3>1, EventsAfterAppend, NothingMergedByAppend
    <3>. QED
      BY <2>2, <3>2 DEF LedgerInv
  <2>. QED
    BY <1>1, <2>1, <2>2
<1>3. ASSUME NEW q \in Proc, pc'[q] # "done" PROVE doc'[q] = NoDoc
  <2>1. CASE q # p
    BY <1>0, <1>3, <2>1, OthersKept DEF LedgerInv
  <2>2. CASE q = p
    <3>1. ~Answer(p)
      BY <1>0, <1>3, <2>2 DEF Answer, Goto
    <3>2. doc'[p] = doc[p]
      BY <1>0, <3>1 DEF Step, Fail, At, Lock, AdmitEvaluation, RefuseEvaluation, CreateRun,
             NumberEvent, AppendEvent, WriteStatus, WriteGate, WriteReport, ReplayJournal,
             ReadProjection
    <3>. QED
      BY <1>0, <2>2, <3>2 DEF LedgerInv
  <2>. QED
    BY <2>1, <2>2
<1>4. Broken => Broken'
  <2>1. pc[p] = "append" => ~Broken
    BY NumberedEvents DEF IInv, PhaseInv
  <2>. QED
    BY <1>1, <2>1 DEF Broken, NothingMerged
<1>5. Broken' \/ RecordedInv'
  BY <1>4, StepRecorded DEF LedgerInv, Broken
<1>. QED
  BY <1>2, <1>3, <1>5 DEF LedgerInv, Broken

LEMMA InterruptLedger ==
    ASSUME IInv, LedgerInv, NEW p \in Proc, Interrupt(p)
    PROVE  LedgerInv'
<1>0. /\ TypeOK /\ TypeOK' /\ pc \in [Proc -> PCs] /\ pc[p] # "done" /\ doc' = doc
      /\ pc'[p] = "aborted" /\ UNCHANGED <<status, gate, report, call, mem>>
  BY StepTypes DEF IInv, TypeOK, PCs, Interrupt, CutAppend, Goto, directory, projections
<1>1. \A q \in Proc : pc'[q] # "done" => doc'[q] = NoDoc
  BY <1>0 DEF LedgerInv, Interrupt, Goto
<1>2. CASE UNCHANGED directory
  <2>1. UNCHANGED <<journal, terminated>>
    BY <1>2 DEF directory
  <2>2. RecordedInv => RecordedInv'
    BY <1>0, <2>1, QuietStep
  <2>. QED
    BY <1>1, <2>1, <2>2 DEF LedgerInv, Sealed, NothingMerged
<1>3. CASE CutAppend(p)
  <2>1. PICK line \in {Torn, Event(mem[p])} :
           /\ journal' = Extended(line)
           /\ line \notin Garbage => "unterminated" \in Cuts
    BY <1>3, GarbageIsNoEvent DEF CutAppend
  <2>2. pc[p] = "append" /\ PhaseInv(p)
    BY <1>3 DEF CutAppend, At, IInv
  <2>3. line \in Lines /\ line # Merged
    BY <1>0, <2>2, AppendedEvent, GarbageIsNoEvent
  <2>4. /\ ~Sealed /\ ~Broken /\ (terminated => NothingMerged')
        /\ terminated /\ line \notin Garbage => ~Sealed' /\ Events' = Append(Events, line)
        /\ terminated /\ line \in Garbage => Sealed' /\ Events' = Events
        /\ ~terminated => Sealed' /\ Broken'
    BY <2>1, <2>2, <2>3, EventsAfterAppend, NothingMergedByAppend
  <2>5. ~NothingMerged' \/ (~terminated' /\ ~Sealed') => "unterminated" \in Cuts
    BY <2>1, <2>4, GarbageIsNoEvent DEF LedgerInv
  <2>6. RecordedInv /\ ~Broken' => RecordedInv'
    <3>. SUFFICES ASSUME RecordedInv, ~Broken' PROVE RecordedInv'
      OBVIOUS
    <3>1. Events' = Events \/ Events' = Append(Events, line)
      BY <2>4
    <3>2. Shown' = Shown /\ Shown \in Nat /\ Shown <= Shown'
      BY <1>0, ShownType DEF Shown
    <3>3. RecordedOf(p)'
      BY <1>0, NothingToldBefore DEF RecordedOf, Shows
    <3>4. \A q \in Proc : q # p =>
             pc'[q] = pc[q] /\ call'[q] = call[q] /\ mem'[q] = mem[q] /\ doc'[q] = doc[q]
      BY <1>0, OthersKept
    <3>. QED
      BY <1>0, <2>3, <3>1, <3>2, <3>3, <3>4, RecordedKept
  <2>. QED
    BY <1>1, <2>4, <2>5, <2>6 DEF LedgerInv, Broken
<1>. QED
  BY <1>2, <1>3 DEF Interrupt

LEMMA NextLedger == IInv /\ StatusInv /\ LedgerInv /\ [Next]_vars => LedgerInv'
<1>. SUFFICES ASSUME IInv, StatusInv, LedgerInv, [Next]_vars PROVE LedgerInv'
  OBVIOUS
<1>0. TypeOK /\ pc \in [Proc -> PCs] /\ call \in [Proc -> Calls \cup {NoCall}]
  BY DEF IInv, TypeOK, PCs
<1>1. ASSUME NEW p \in Proc, NEW c \in Calls, Invoke(p, c) PROVE LedgerInv'
  <2>1. UNCHANGED <<journal, terminated, status, gate, report, mem, doc>>
    BY <1>1 DEF Invoke, Fail, directory, projections
  <2>2. pc[p] = "idle" /\ pc'[p] \in {"lock", "done"} /\ doc[p] = NoDoc
    BY <1>0, <1>1 DEF Invoke, At, Fail, Goto, LedgerInv
  <2>3. \A q \in Proc : q # p => pc'[q] = pc[q] /\ call'[q] = call[q]
    BY <1>0, <1>1 DEF Invoke, Fail, Goto
  <2>4. Events' = Events /\ Shown' = Shown /\ Sealed' = Sealed
    BY <2>1 DEF Events, Shown, Sealed
  <2>5. RecordedInv => RecordedInv'
    <3>. SUFFICES ASSUME RecordedInv, NEW q \in Proc PROVE RecordedOf(q)'
      BY <2>1, <2>4 DEF RecordedInv
    <3>1. CASE q = p
      BY <2>1, <2>2, <3>1 DEF RecordedOf, Shows, TellsVerdict
    <3>2. CASE q # p
      BY <2>1, <2>3, <2>4, <3>2 DEF RecordedInv, RecordedOf, Shows, TellsVerdict
    <3>. QED
      BY <3>1, <3>2
  <2>. QED
    BY <2>1, <2>2, <2>3, <2>4, <2>5 DEF LedgerInv, NothingMerged
<1>2. CASE UNCHANGED vars
  BY <1>2 DEF LedgerInv, RecordedInv, RecordedOf, RecordedIn, Shows, TellsVerdict, Sealed,
              Shown, Events, NothingMerged, vars, directory, projections
<1>. QED
  BY <1>1, <1>2, StepLedger, InterruptLedger DEF Next, Terminating

\* What a projection shows and a process prints is recorded, in every
\* reachable state in which no unterminated line was destroyed.
THEOREM VerdictsAreRecorded == Spec => [](IInv /\ StatusInv /\ LedgerInv)
<1>1. Init => StatusInv /\ LedgerInv
  <2>. SUFFICES ASSUME Init PROVE StatusInv /\ LedgerInv
    OBVIOUS
  <2>1. StatusInv
    BY DEF Init, StatusInv
  <2>2. RecordedInv
    BY DEF Init, RecordedInv, RecordedOf, Shows, TellsVerdict
  <2>3. NothingMerged
    BY DEF Init, NothingMerged
  <2>. QED
    BY <2>1, <2>2, <2>3 DEF Init, LedgerInv
<1>2. IInv /\ StatusInv /\ [Next]_vars => StatusInv'
  BY NextStatus
<1>3. IInv /\ StatusInv /\ LedgerInv /\ [Next]_vars => LedgerInv'
  BY NextLedger
<1>. QED
  BY <1>1, <1>2, <1>3, Invariance, PTL DEF Spec

-----------------------------------------------------------------------------
(***************************************************************************)
(* The refinement.                                                         *)
(***************************************************************************)
ledgerVars == <<runFile, Events, Sealed, Shown, Told>>

\* An append is Record, one that is cut Seal, one on an unterminated line
\* a Seal that loses the entry of that line.
LEMMA AppendRefines ==
    ASSUME IInv, LedgerInv, NEW p \in Proc, pc[p] = "append",
           NEW line \in {Torn, Event(mem[p])}, journal' = Extended(line),
           UNCHANGED <<runFile, status>>, Told' = Told
    PROVE  Ledger!Record \/ Ledger!Seal
<1>0. /\ TypeOK /\ PhaseInv(p) /\ Shown' = Shown
      /\ runFile # NoRun /\ mem[p].run = runFile /\ runFile \in Runs
  BY DEF IInv, TypeOK, PhaseInv, OnRun, Shown
<1>1. call[p].cmd = "evaluate" /\ mem[p].sequence = Len(journal) + 1
  BY <1>0 DEF PhaseInv
<1>2. /\ mem[p] \in Mems /\ mem[p].type \in EventTypes
      /\ mem[p].type = "gate.evaluated" => mem[p].report \in Reports
  BY <1>0, <1>1, OnRunType DEF OnRun
<1>3. Event(mem[p]) \in Lines
  BY <1>0, <1>2, EventType
<1>4. /\ ~Sealed /\ Events = journal
      /\ terminated /\ line \notin Garbage => ~Sealed' /\ Events' = Append(Events, line)
      /\ terminated /\ line \in Garbage => Sealed' /\ Events' = Events
      /\ ~terminated => Sealed' /\ Events # <<>> /\ Events' = SubSeq(Events, 1, Len(Events) - 1)
  BY <1>3, GarbageIsNoEvent, EventsAfterAppend
<1>5. CASE terminated /\ line \notin Garbage
  <2>1. line = Event(mem[p])
    BY <1>5, GarbageIsNoEvent
  <2>2. mem[p].type = "run.created" => Events = <<>>
    BY <1>0, <1>4 DEF PhaseInv
  <2>3. line \in Ledger!Entries
    <3>1. CASE mem[p].type = "run.created"
      <4>1. line = [sequence |-> Len(Events) + 1, runID |-> runFile.runID,
                    type |-> "run.created", data |-> Creation(runFile)]
        BY <1>0, <1>1, <1>4, <2>1, <3>1 DEF Event
      <4>2. Creation(runFile) \in {c \in {Creation(r) : r \in Runs} : Events = <<>>}
        BY <1>0, <2>2, <3>1
      <4>. QED
        BY <4>1, <4>2 DEF Ledger!Entries
    <3>2. CASE mem[p].type = "gate.evaluated"
      <4>1. line = [sequence |-> Len(Events) + 1, runID |-> runFile.runID,
                    type |-> "gate.evaluated", data |-> mem[p].report]
        BY <1>0, <1>1, <1>4, <2>1, <3>2 DEF Event
      <4>. QED
        BY <1>2, <3>2, <4>1 DEF Ledger!Entries
    <3>. QED
      BY <1>2, <3>1, <3>2 DEF EventTypes
  <2>4. Events' = Append(Events, line) /\ Sealed' = Sealed
    BY <1>4, <1>5 DEF Sealed
  <2>5. Ledger!Record
    BY <1>0, <1>4, <2>3, <2>4 DEF Ledger!Record
  <2>. QED
    BY <2>5
<1>6. CASE terminated /\ line \in Garbage
  <2>1. Sealed' = TRUE
    BY <1>4, <1>6 DEF Sealed
  <2>. QED
    BY <1>0, <1>4, <1>6, <2>1 DEF Ledger!Seal
<1>7. CASE ~terminated
  <2>1. Sealed' = TRUE
    BY <1>4, <1>7 DEF Sealed
  <2>2. "unterminated" \in Cuts
    BY <1>4, <1>7 DEF LedgerInv
  <2>. QED
    BY <1>0, <1>4, <1>7, <2>1, <2>2 DEF Ledger!Seal
<1>. QED
  BY <1>5, <1>6, <1>7

\* Steps that leave the journal, the run and the status alone.
LEMMA SilentStep ==
    ASSUME UNCHANGED <<runFile, journal, status>>, Told' = Told
    PROVE  UNCHANGED ledgerVars
BY DEF ledgerVars, Events, Sealed, Shown

LEMMA StepRefines ==
    ASSUME IInv, StatusInv, LedgerInv, NEW p \in Proc, Step(p)
    PROVE  [Ledger!Next]_ledgerVars
<1>0. /\ TypeOK /\ PhaseInv(p) /\ pc \in [Proc -> PCs]
      /\ JournalInv /\ pc[p] # "done" /\ (At(p, "answer") \/ doc'[p] = doc[p])
  BY StepTypes DEF IInv, TypeOK, PCs
<1>1. ~Answer(p) => Told' = Told
  <2>. SUFFICES ASSUME ~Answer(p) PROVE Told' = Told
    OBVIOUS
  <2>1. doc' = doc /\ call' = call
    BY DEF Step, Fail, Lock, AdmitEvaluation, RefuseEvaluation, CreateRun, NumberEvent,
           AppendEvent, WriteStatus, WriteGate, WriteReport, ReplayJournal, ReadProjection
  <2>. QED
    BY <2>1 DEF Told, TellsVerdict
<1>2. CASE \/ Lock(p) \/ AdmitEvaluation(p) \/ RefuseEvaluation(p) \/ NumberEvent(p)
           \/ WriteGate(p) \/ WriteReport(p) \/ ReplayJournal(p) \/ ReadProjection(p)
  <2>1. UNCHANGED <<runFile, journal, status>> /\ ~Answer(p)
    BY <1>2 DEF Fail, Lock, AdmitEvaluation, RefuseEvaluation, NumberEvent, WriteGate,
           WriteReport, ReplayJournal, ReadProjection, directory, projections, Answer, At
  <2>. QED
    BY <1>1, <2>1, SilentStep
<1>3. CASE CreateRun(p)
  <2>1. Told' = Told /\ UNCHANGED <<journal, status>> /\ pc[p] = "create"
    BY <1>1, <1>3 DEF CreateRun, Fail, directory, projections, At, Answer
  <2>2. UNCHANGED <<Events, Sealed, Shown>>
    BY <2>1 DEF Events, Sealed, Shown
  <2>3. CASE Creatable(p)
    <3>1. runFile = NoRun /\ runFile' \in Runs
      BY <1>0, <1>3, <2>1, <2>3, RunTypes DEF Creatable, CreateRun, PhaseInv
    <3>2. Ledger!Open
      BY <2>1, <2>2, <3>1 DEF Ledger!Open
    <3>. QED
      BY <3>2 DEF Ledger!Next
  <2>4. CASE ~Creatable(p)
    <3>1. runFile' = runFile
      BY <1>3, <2>4 DEF CreateRun, Fail, directory
    <3>. QED
      BY <2>1, <3>1, SilentStep
  <2>. QED
    BY <2>3, <2>4
<1>4. CASE AppendEvent(p)
  <2>1. /\ pc[p] = "append" /\ journal' = Extended(Event(mem[p]))
        /\ UNCHANGED <<runFile, status>> /\ Told' = Told
    BY <1>1, <1>4 DEF AppendEvent, At, projections, Answer
  <2>2. Ledger!Record \/ Ledger!Seal
    BY <2>1, AppendRefines
  <2>. QED
    BY <2>2 DEF Ledger!Next
<1>5. CASE WriteStatus(p)
  <2>1. /\ pc[p] = "status" /\ UNCHANGED <<runFile, journal>> /\ Told' = Told
        /\ status' = StatusOf(mem[p])
    BY <1>1, <1>5 DEF WriteStatus, At, Answer
  <2>2. UNCHANGED <<Events, Sealed>>
    BY <2>1 DEF Events, Sealed
  <2>3. Shown \in Nat /\ Shown' \in Nat /\ Shown <= Shown'
    <3>1. mem[p] \in Mems /\ mem[p].run \in Runs /\ mem[p].type \in EventTypes
      BY <1>0, <2>1, OnRunType DEF OnRun
    <3>2. Shown' = mem[p].sequence /\ mem[p].sequence \in Nat
      BY <2>1, <3>1, StatusType, AbsentStatus DEF Shown, StatusOf, Mems
    <3>. QED
      BY <1>0, <2>1, <3>2, ShownType DEF StatusInv, Shown
  <2>4. Shown' <= Len(Events) \/ Ledger!Broken
    BY <1>0, <1>5, StatusRecords, BrokenIsSealed DEF LedgerInv, Broken
  <2>5. Shown' = Shown \/ Ledger!Publish
    BY <2>1, <2>2, <2>3, <2>4 DEF Ledger!Publish
  <2>. QED
    BY <2>1, <2>2, <2>5 DEF Ledger!Next, ledgerVars
<1>6. CASE Answer(p)
  <2>1. /\ pc[p] = "answer" /\ UNCHANGED <<runFile, journal, status, call>>
        /\ doc'[p] = Document(p)
    BY <1>0, <1>6 DEF Answer, At, directory, projections, IInv, TypeOK
  <2>2. UNCHANGED <<Events, Sealed, Shown>>
    BY <2>1 DEF Events, Sealed, Shown
  <2>3. CASE Told' = Told
    BY <2>1, <2>3, SilentStep
  <2>4. CASE TellsVerdict(p)' /\ Told' = Told \cup {doc'[p]}
    <3>1. call[p].cmd \in {"evaluate", "report"}
      BY <2>1, <2>4 DEF TellsVerdict
    <3>2. doc'[p] = mem[p].report /\ mem[p].report # NoReport /\ mem[p].report \in Reports
      BY <1>0, <2>1, <3>1 DEF Document, PhaseInv, TypeOK, Mems
    <3>3. RecordedIn(Events, doc'[p], Shown) \/ Ledger!Broken
      BY <1>0, <2>1, <3>1, <3>2, BrokenIsSealed DEF LedgerInv, Broken, RecordedInv, RecordedOf, Shows
    <3>4. Ledger!Recorded(doc'[p]) \/ Ledger!Broken
      BY <3>3 DEF RecordedIn, Ledger!Recorded
    <3>5. Ledger!Tell
      BY <2>1, <2>2, <2>4, <3>2, <3>4 DEF Ledger!Tell
    <3>. QED
      BY <3>5 DEF Ledger!Next
  <2>5. Told' = Told \/ (TellsVerdict(p)' /\ Told' = Told \cup {doc'[p]})
    <3>1. doc[p] = NoDoc
      BY <1>0 DEF LedgerInv
    <3>2. \A q \in Proc : q # p => doc'[q] = doc[q]
      BY <1>0, OthersKept
    <3>. QED
      BY <2>1, <3>1, <3>2 DEF Told, TellsVerdict
  <2>. QED
    BY <2>3, <2>4, <2>5
<1>. QED
  BY <1>2, <1>3, <1>4, <1>5, <1>6 DEF Step

LEMMA InterruptRefines ==
    ASSUME IInv, LedgerInv, NEW p \in Proc, Interrupt(p)
    PROVE  [Ledger!Next]_ledgerVars
<1>1. Told' = Told
  BY DEF Interrupt, Told, TellsVerdict
<1>2. CASE UNCHANGED directory
  BY <1>1, <1>2, SilentStep DEF directory, projections
<1>3. CASE CutAppend(p)
  <2>1. PICK line \in {Torn, Event(mem[p])} : journal' = Extended(line)
    BY <1>3 DEF CutAppend
  <2>2. pc[p] = "append" /\ UNCHANGED <<runFile, status>>
    BY <1>3 DEF CutAppend, At, projections
  <2>3. Ledger!Record \/ Ledger!Seal
    BY <1>1, <2>1, <2>2, AppendRefines
  <2>. QED
    BY <2>3 DEF Ledger!Next
<1>. QED
  BY <1>2, <1>3 DEF Interrupt

\* Processes that interleave file by file and are interrupted anywhere act as
\* one ledger with atomic entries, for every number of processes.
THEOREM RunDirectoryImplementsLedger == Spec => ImplementsLedger
<1>1. Init => Ledger!Init
  <2>. SUFFICES ASSUME Init PROVE Ledger!Init
    OBVIOUS
  <2>1. Events = <<>> /\ Sealed = FALSE /\ Shown = 0
    BY DEF Init, Events, Sealed, Shown
  <2>2. Told = {}
    BY DEF Init, Told, TellsVerdict
  <2>. QED
    BY <2>1, <2>2 DEF Init, Ledger!Init
<1>2. IInv /\ StatusInv /\ LedgerInv /\ [Next]_vars =>
         [Ledger!Next]_<<runFile, Events, Sealed, Shown, Told>>
  <2>. SUFFICES ASSUME IInv, StatusInv, LedgerInv, [Next]_vars
                PROVE  [Ledger!Next]_ledgerVars
    BY DEF ledgerVars
  <2>1. ASSUME NEW p \in Proc, NEW c \in Calls, Invoke(p, c)
        PROVE  [Ledger!Next]_ledgerVars
    <3>1. UNCHANGED <<runFile, journal, status>> /\ doc' = doc /\ doc[p] = NoDoc
      BY <2>1 DEF Invoke, Fail, At, LedgerInv, directory, projections
    <3>2. \A q \in Proc : q # p => call'[q] = call[q]
      BY <2>1 DEF Invoke, IInv, TypeOK
    <3>3. Told' = Told
      BY <3>1, <3>2 DEF Told, TellsVerdict
    <3>. QED
      BY <3>1, <3>3, SilentStep
  <2>2. CASE UNCHANGED vars
    <3>1. Told' = Told
      BY <2>2 DEF Told, TellsVerdict, vars
    <3>. QED
      BY <2>2, <3>1, SilentStep DEF vars, directory, projections
  <2>. QED
    BY <2>1, <2>2, StepRefines, InterruptRefines DEF Next, Terminating
<1>. QED
  BY <1>1, <1>2, VerdictsAreRecorded, PTL DEF Spec, ImplementsLedger, Ledger!Spec
===============================================================================
