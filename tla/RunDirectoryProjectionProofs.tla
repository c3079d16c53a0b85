--------------------- MODULE RunDirectoryProjectionProofs ---------------------
(***************************************************************************)
(* For every set of processes and of calls: the projections are replays of *)
(* prefixes of the journal, and so is what the commands print.  Beside     *)
(* IInv, StatusInv and LedgerInv the argument needs ReplayInv: a writer    *)
(* that is past its append holds the replay of the whole journal.          *)
(***************************************************************************)
EXTENDS RunDirectoryLedgerProofs

-----------------------------------------------------------------------------
(***************************************************************************)
(* Replays.                                                                *)
(***************************************************************************)
\* The latest report after a gate event is that event's, and there is none
\* when the first event creates the run.
LEMMA LatestReportAppended ==
    ASSUME NEW events \in Seq(Lines), NEW line \in Lines
    PROVE  /\ line.type = "gate.evaluated" =>
                 LatestReport(Append(events, line)) = line.data
           /\ events = <<>> /\ line.type # "gate.evaluated" =>
                 LatestReport(Append(events, line)) = NoReport
<1>. DEFINE later == Append(events, line)
            n == Len(events) + 1
<1>1. /\ Len(events) \in Nat /\ Len(later) = n /\ DOMAIN later = 1..n
      /\ later[n] = line
  BY AppendProperties, LenProperties
<1>2. ASSUME line.type = "gate.evaluated" PROVE LatestReport(later) = line.data
  <2>1. n \in GateEvents(later) /\ GateEvents(later) \subseteq 1..n
    BY <1>1, <1>2 DEF GateEvents
  <2>2. \A i \in GateEvents(later) : (\A j \in GateEvents(later) : j <= i) <=> i = n
    <3>. HIDE DEF later
    <3>. QED BY <1>1, <2>1
  <2>3. (CHOOSE i \in GateEvents(later) : \A j \in GateEvents(later) : j <= i) = n
    <3>. HIDE DEF later, n
    <3>. QED BY <2>1, <2>2
  <2>. QED
    BY <1>1, <2>1, <2>3 DEF LatestReport
<1>3. ASSUME events = <<>>, line.type # "gate.evaluated" PROVE LatestReport(later) = NoReport
  <2>1. GateEvents(later) = {}
    BY <1>1, <1>3 DEF GateEvents
  <2>. QED
    BY <2>1 DEF LatestReport
<1>. QED
  BY <1>2, <1>3

\* The latest report is that of a gate event which none follows.
LEMMA LatestReportIsLast ==
    ASSUME NEW events \in Seq(Lines), NEW k \in GateEvents(events)
    PROVE  \E i \in GateEvents(events) : i >= k /\ LatestReport(events) = events[i].data
<1>1. GateEvents(events) \subseteq 1..Len(events) /\ Len(events) \in Nat
  BY LenProperties DEF GateEvents
<1>2. \E i \in GateEvents(events) : \A j \in GateEvents(events) : j <= i
  BY <1>1, LastPosition
<1>. DEFINE last == CHOOSE i \in GateEvents(events) : \A j \in GateEvents(events) : j <= i
<1>3. last \in GateEvents(events) /\ k <= last
  BY <1>2
<1>4. LatestReport(events) = events[last].data
  BY DEF LatestReport
<1>5. last >= k
  BY <1>1, <1>3
<1>. QED
  BY <1>3, <1>4, <1>5

LEMMA PrefixType ==
    ASSUME TypeOK, NEW n \in 0..Len(Events)
    PROVE  /\ Prefix(n) \in Seq(Lines) /\ Len(Prefix(n)) = n
           /\ \A i \in 1..n : Prefix(n)[i] = Events[i]
           /\ n = Len(Events) => Prefix(n) = Events
<1>1. Events \in Seq(Lines) /\ Len(Events) \in Nat /\ DOMAIN Events = 1..Len(Events)
  BY EventsType
<1>2. n \in Nat /\ n <= Len(Events) /\ \A i \in 1..n : Events[i] \in Lines
  BY <1>1, ElementOfSeq
<1>3. /\ Prefix(n) \in Seq(Lines) /\ Len(Prefix(n)) = n
      /\ \A i \in 1..n : Prefix(n)[i] = Events[i]
  BY <1>1, <1>2, SubSeqProperties DEF Prefix
<1>4. SubSeq(Events, 1, Len(Events)) = Events
  BY <1>1, SubSeqFull
<1>. QED
  BY <1>3, <1>4 DEF Prefix

\* One event more, or none, keeps the events that are there.
LEMMA EventsStay ==
    ASSUME NEW events \in Seq(Lines), NEW line \in Lines,
           NEW later \in {events, Append(events, line)}
    PROVE  /\ later \in Seq(Lines)
           /\ Len(events) \in Nat /\ Len(later) \in Nat /\ Len(events) <= Len(later)
           /\ \A i \in 1..Len(events) : later[i] = events[i]
           /\ \A n \in 0..Len(events) : SubSeq(later, 1, n) = SubSeq(events, 1, n)
           /\ events # <<>> => later # <<>>
           /\ GateEvents(events) \subseteq GateEvents(later)
<1>1. Len(events) \in Nat /\ DOMAIN events = 1..Len(events)
  BY LenProperties
<1>2. /\ later \in Seq(Lines) /\ Len(later) \in Nat /\ Len(events) <= Len(later)
      /\ \A i \in 1..Len(events) : later[i] = events[i]
  <2>1. CASE later = events
    BY <1>1, <2>1
  <2>2. CASE later = Append(events, line)
    BY <1>1, <2>2, AppendProperties
  <2>. QED
    BY <2>1, <2>2
<1>3. DOMAIN later = 1..Len(later)
  BY <1>2, LenProperties
<1>4. ASSUME NEW n \in 0..Len(events) PROVE SubSeq(later, 1, n) = SubSeq(events, 1, n)
  <2>1. n \in Nat /\ n <= Len(events)
    BY <1>1
  <2>2. n <= Len(later)
    BY <1>1, <1>2, <2>1
  <2>3. \A i \in 1..n : later[i] = events[i]
    BY <1>1, <1>2, <2>1
  <2>. QED
    BY <1>2, <2>1, <2>2, <2>3, SamePrefix
<1>5. events # <<>> => later # <<>>
  <2>1. events # <<>> => Len(events) # 0
    BY EmptySeq
  <2>. QED
    BY <1>1, <1>2, <2>1
<1>6. GateEvents(events) \subseteq GateEvents(later)
  <2>. SUFFICES ASSUME NEW i \in GateEvents(events) PROVE i \in GateEvents(later)
    OBVIOUS
  <2>1. i \in 1..Len(events) /\ events[i].type = "gate.evaluated"
    BY <1>1 DEF GateEvents
  <2>2. i \in 1..Len(later)
    BY <1>1, <1>2, <2>1
  <2>. QED
    BY <1>2, <1>3, <2>1, <2>2 DEF GateEvents
<1>. QED
  BY <1>1, <1>2, <1>4, <1>5, <1>6

\* Replays of what was there do not change when an event is added.
LEMMA ReplaysStay ==
    ASSUME TypeOK, NEW line \in Lines,
           Events' \in {Events, Append(Events, line)}, runFile' = runFile \/ Events = <<>>
    PROVE  \A n \in 0..Len(Events) :
              StatusAfter(n)' = StatusAfter(n) /\ ReportAfter(n)' = ReportAfter(n)
<1>. SUFFICES ASSUME NEW n \in 0..Len(Events)
              PROVE  StatusAfter(n)' = StatusAfter(n) /\ ReportAfter(n)' = ReportAfter(n)
  OBVIOUS
<1>1. Events \in Seq(Lines)
  BY EventsType
<1>2. Prefix(n)' = Prefix(n)
  BY <1>1, EventsStay DEF Prefix
<1>3. Events = <<>> => n = 0
  OBVIOUS
<1>. QED
  BY <1>2, <1>3 DEF StatusAfter, ReportAfter

\* A writer that holds the replay of the whole journal publishes its status.
LEMMA StatusOfReplay ==
    ASSUME TypeOK, NEW m \in Mems, m.run = runFile, Len(Events) > 0,
           m.type = Events[Len(Events)].type, m.sequence = Len(Events),
           m.report = ReportAfter(Len(Events))
    PROVE  StatusOf(m) = StatusAfter(Len(Events))
<1>1. Len(Events) \in 0..Len(Events) /\ Len(Events) # 0
  BY EventsType
<1>2. Prefix(Len(Events)) = Events
  BY <1>1, PrefixType
<1>. QED
  BY <1>1, <1>2 DEF StatusOf, StatusAfter, ReportAfter, Replay

-----------------------------------------------------------------------------
(***************************************************************************)
(* ReplayInv.                                                              *)
(***************************************************************************)
\* Another process's replays outlive a step that adds an event or none, unless
\* that process is the writer.
LEMMA ReplayOfOthers ==
    ASSUME TypeOK, NEW line \in Lines,
           Events' \in {Events, Append(Events, line)}, runFile' = runFile \/ Events = <<>>,
           NEW q \in Proc, HoldsReplay(q), TellsReplay(q),
           pc'[q] = pc[q], call'[q] = call[q], mem'[q] = mem[q], doc'[q] = doc[q],
           \/ Events' = Events /\ UNCHANGED <<status, gate>>
           \/ pc[q] \notin {"status", "gate", "report"}
    PROVE  HoldsReplay(q)' /\ TellsReplay(q)'
<1>1. /\ Len(Events) \in Nat /\ Len(Events') \in Nat /\ Len(Events) <= Len(Events')
      /\ Events # <<>> => Events' # <<>>
      /\ GateEvents(Events) \subseteq GateEvents(Events')
  BY EventsType, EventsStay
<1>2. \A n \in 0..Len(Events) :
         StatusAfter(n)' = StatusAfter(n) /\ ReportAfter(n)' = ReportAfter(n)
  BY ReplaysStay
<1>3. HoldsReplay(q)'
  <2>1. CASE pc[q] \notin {"status", "gate", "report"}
    BY <2>1 DEF HoldsReplay
  <2>2. CASE pc[q] \in {"status", "gate", "report"}
    <3>1. Events' = Events /\ UNCHANGED <<status, gate>>
      BY <2>2
    <3>2. Len(Events) \in 0..Len(Events)
      BY <1>1
    <3>. QED
      BY <1>2, <3>1, <3>2 DEF HoldsReplay
  <2>. QED
    BY <2>1, <2>2
<1>4. TellsReplay(q)'
  <2>1. \A document : (\E n \in 1..Len(Events) : document = StatusAfter(n))
                   => (\E n \in 1..Len(Events') : document = StatusAfter(n)')
    BY <1>1, <1>2
  <2>. QED
    BY <1>1, <2>1 DEF TellsReplay, Answered
<1>. QED
  BY <1>3, <1>4

\* A step that writes no projection.
LEMMA ReplaysKept ==
    ASSUME TypeOK, Replayed, NEW line \in Lines,
           Events' \in {Events, Append(Events, line)}, runFile' = runFile \/ Events = <<>>,
           UNCHANGED projections, NEW p \in Proc,
           \A q \in Proc : q # p =>
              pc'[q] = pc[q] /\ call'[q] = call[q] /\ mem'[q] = mem[q] /\ doc'[q] = doc[q],
           \/ Events' = Events
           \/ \A q \in Proc : q # p => pc[q] \notin {"status", "gate", "report"},
           HoldsReplay(p)', TellsReplay(p)',
           Answered(p)' => Answered(p) /\ mem'[p] = mem[p]
    PROVE  Replayed'
<1>1. /\ Len(Events) \in Nat /\ Len(Events') \in Nat /\ Len(Events) <= Len(Events')
      /\ \A n \in 0..Len(Events) :
            StatusAfter(n)' = StatusAfter(n) /\ ReportAfter(n)' = ReportAfter(n)
  BY EventsType, EventsStay, ReplaysStay
<1>2. UNCHANGED <<status, gate, report>>
  BY DEF projections
<1>3. PICK s, g, r : ReplaysOf(s, g, r)
  BY DEF Replayed
<1>4. ReplaysOf(s, g, r)'
  <2>1. /\ s \in 0..Len(Events) /\ g \in 0..Len(Events) /\ r \in 0..Len(Events)
        /\ s \in 0..Len(Events') /\ g \in 0..s /\ r \in 0..g
    BY <1>1, <1>3 DEF ReplaysOf
  <2>2. /\ status' = StatusAfter(s)' /\ gate' = ReportAfter(g)'
        /\ report' = ReportAfter(r)'
    BY <1>1, <1>2, <1>3, <2>1 DEF ReplaysOf
  <2>3. \A q \in Proc : Answered(q)' => mem'[q].sequence <= r
    BY <1>3 DEF ReplaysOf, Answered
  <2>. QED
    BY <2>1, <2>2, <2>3 DEF ReplaysOf
<1>5. ASSUME NEW q \in Proc PROVE HoldsReplay(q)' /\ TellsReplay(q)'
  BY <1>2, ReplayOfOthers DEF Replayed
<1>6. s \in 0..Len(Events') /\ g \in 0..s /\ r \in 0..g
  BY <1>1, <1>3 DEF ReplaysOf
<1>. QED
  BY <1>4, <1>5, <1>6 DEF Replayed

\* A step after which its process neither holds nor tells a replay.
LEMMA QuietReplays ==
    ASSUME IInv, LedgerInv, Replayed, NEW line \in Lines,
           Events' \in {Events, Append(Events, line)}, runFile' = runFile \/ Events = <<>>,
           UNCHANGED projections, NEW p \in Proc, Step(p) \/ Interrupt(p),
           Events' = Events \/ pc[p] \in OnRun,
           pc[p] # "answer" \/ doc'[p] = doc[p],
           pc'[p] \notin {"status", "gate", "report", "answer"}
    PROVE  Replayed'
<1>1. TypeOK /\ TypeOK' /\ doc'[p] = NoDoc
  BY StepTypes DEF IInv, LedgerInv, At
<1>2. \A q \in Proc : q # p =>
         pc'[q] = pc[q] /\ call'[q] = call[q] /\ mem'[q] = mem[q] /\ doc'[q] = doc[q]
  BY <1>1, OthersKept
<1>3. \/ Events' = Events
      \/ \A q \in Proc : q # p => pc[q] \notin {"status", "gate", "report"}
  BY WriterIsAlone DEF IInv, PhaseInv, OnRun, Working
<1>4. HoldsReplay(p)' /\ TellsReplay(p)' /\ ~Answered(p)'
  BY <1>1 DEF HoldsReplay, TellsReplay, Answered
<1>. QED
  BY <1>1, <1>2, <1>3, <1>4, ReplaysKept

\* The line that is appended completes the replay that the process holds.
LEMMA AppendReplays ==
    ASSUME IInv, LedgerInv, Replayed, NEW p \in Proc, AppendEvent(p), ~Broken'
    PROVE  Replayed'
<1>. DEFINE line == Event(mem[p])
<1>0. /\ TypeOK /\ TypeOK' /\ PhaseInv(p) /\ pc[p] = "append" /\ pc \in [Proc -> PCs]
      /\ UNCHANGED <<runFile, projections, mem, doc, call>> /\ doc[p] = NoDoc
      /\ pc'[p] = "status"
  BY StepTypes DEF IInv, TypeOK, PCs, AppendEvent, At, Step, Goto, LedgerInv
<1>1. /\ line \in Lines /\ line \notin Garbage /\ line.type = mem[p].type
      /\ mem[p].sequence = Len(journal) + 1 /\ pc[p] \in OnRun
      /\ mem[p].type = "gate.evaluated" => line.data = mem[p].report
      /\ mem[p].type # "gate.evaluated" => journal = <<>> /\ mem[p].report = NoReport
  <2>1. call[p].cmd = "evaluate" /\ pc[p] \in OnRun /\ mem[p].sequence = Len(journal) + 1
    BY <1>0 DEF PhaseInv, OnRun
  <2>2. /\ mem[p] \in Mems /\ mem[p].run \in Runs /\ mem[p].type \in EventTypes
        /\ mem[p].type = "gate.evaluated" => mem[p].report \in Reports
    BY <1>0, <2>1, OnRunType
  <2>3. line \in Lines /\ line.type \in EventTypes /\ line.type = mem[p].type
    BY <2>2, EventType DEF Event
  <2>4. line \notin Garbage
    BY <2>3, GarbageIsNoEvent
  <2>5. mem[p].type # "gate.evaluated" => journal = <<>> /\ mem[p].report = NoReport
    BY <1>0, <2>1, <2>2 DEF PhaseInv, EventTypes
  <2>. QED
    BY <2>1, <2>3, <2>4, <2>5 DEF Event, EventTypes
<1>2. /\ Events = journal /\ Events' = Append(Events, line)
  BY <1>0, <1>1, EventsAfterAppend DEF AppendEvent
<1>3. /\ Events \in Seq(Lines) /\ Len(Events) \in Nat
      /\ Len(Events') = Len(Events) + 1 /\ Events'[Len(Events')] = line
      /\ Len(Events') \in 0..Len(Events')
  BY <1>0, <1>1, <1>2, EventsType, AppendProperties
<1>4. LatestReport(Events') = mem[p].report
  BY <1>1, <1>2, <1>3, LatestReportAppended
<1>5. Prefix(Len(Events))' = Events'
  <2>1. Events' \in Seq(Lines)
    BY <1>1, <1>2, <1>3, AppendProperties
  <2>. QED
    BY <2>1, SubSeqFull DEF Prefix
<1>6. ReportAfter(Len(Events))' = mem[p].report
  BY <1>4, <1>5 DEF ReportAfter
<1>7. HoldsReplay(p)'
  BY <1>0, <1>1, <1>2, <1>3, <1>6 DEF HoldsReplay
<1>8. TellsReplay(p)' /\ ~Answered(p)'
  BY <1>0 DEF TellsReplay, Answered
<1>9. \A q \in Proc : q # p =>
         /\ pc'[q] = pc[q] /\ call'[q] = call[q] /\ mem'[q] = mem[q] /\ doc'[q] = doc[q]
         /\ pc[q] \notin {"status", "gate", "report"}
  BY <1>0, <1>1, OthersKept, WriterIsAlone DEF Step, IInv, PhaseInv, OnRun, Working
<1>. QED
  BY <1>0, <1>1, <1>2, <1>7, <1>8, <1>9, ReplaysKept

\* What the process that writes a projection finds.
LEMMA WriterFinds ==
    ASSUME IInv, LedgerInv, Replayed, NEW p \in Proc, pc[p] \in {"status", "gate", "report"},
           Step(p), UNCHANGED <<runFile, journal, doc, call>>
    PROVE  /\ TypeOK /\ TypeOK' /\ pc \in [Proc -> PCs] /\ mem \in [Proc -> Mems]
           /\ PhaseInv(p) /\ doc'[p] = NoDoc
           /\ Events' = Events /\ Len(Events) \in Nat /\ Torn \in Lines
           /\ \A n : StatusAfter(n)' = StatusAfter(n) /\ ReportAfter(n)' = ReportAfter(n)
           /\ StatusOf(mem[p]) = StatusAfter(Len(Events))
           /\ \A q \in Proc : q # p => HoldsReplay(q)' /\ TellsReplay(q)'
           /\ \A q \in Proc : q # p /\ Answered(q)' => Answered(q) /\ mem'[q] = mem[q]
<1>1. /\ TypeOK /\ TypeOK' /\ pc \in [Proc -> PCs] /\ mem \in [Proc -> Mems]
      /\ PhaseInv(p) /\ doc'[p] = NoDoc /\ Len(Events) \in Nat /\ Torn \in Lines
  BY StepTypes, EventsType, GarbageIsNoEvent DEF IInv, TypeOK, PCs, LedgerInv
<1>2. /\ Events' = Events
      /\ \A n : StatusAfter(n)' = StatusAfter(n) /\ ReportAfter(n)' = ReportAfter(n)
  BY DEF Events, StatusAfter, ReportAfter, Prefix
<1>3. StatusOf(mem[p]) = StatusAfter(Len(Events))
  <2>1. mem[p] \in Mems /\ mem[p].run = runFile
    BY <1>1, OnRunType DEF OnRun
  <2>. QED
    BY <1>1, <2>1, StatusOfReplay DEF Replayed, HoldsReplay
<1>4. ASSUME NEW q \in Proc, q # p
      PROVE  /\ HoldsReplay(q)' /\ TellsReplay(q)'
             /\ Answered(q)' => Answered(q) /\ mem'[q] = mem[q]
  <2>1. pc'[q] = pc[q] /\ call'[q] = call[q] /\ mem'[q] = mem[q] /\ doc'[q] = doc[q]
    BY <1>1, <1>4, OthersKept
  <2>2. pc[q] \notin {"status", "gate", "report"}
    BY <1>1, <1>4, WriterIsAlone DEF IInv, PhaseInv, OnRun, Working
  <2>3. HoldsReplay(q)' /\ TellsReplay(q)'
    BY <1>1, <1>2, <2>1, <2>2, ReplayOfOthers DEF Replayed
  <2>. QED
    BY <2>1, <2>3 DEF Answered
<1>. QED
  BY <1>1, <1>2, <1>3, <1>4

LEMMA StatusReplays ==
    ASSUME IInv, LedgerInv, Replayed, NEW p \in Proc, WriteStatus(p)
    PROVE  Replayed'
<1>. DEFINE n == Len(Events)
<1>0. /\ pc[p] = "status" /\ Step(p) /\ UNCHANGED <<runFile, journal, doc, call, gate, report>>
      /\ status' = StatusOf(mem[p])
  BY DEF WriteStatus, At, Step
<1>1. /\ TypeOK /\ pc \in [Proc -> PCs] /\ PhaseInv(p) /\ doc'[p] = NoDoc /\ Events' = Events
      /\ n \in Nat
      /\ \A k : StatusAfter(k)' = StatusAfter(k) /\ ReportAfter(k)' = ReportAfter(k)
      /\ StatusOf(mem[p]) = StatusAfter(n)
      /\ \A q \in Proc : q # p => HoldsReplay(q)' /\ TellsReplay(q)'
      /\ \A q \in Proc : q # p /\ Answered(q)' => Answered(q) /\ mem'[q] = mem[q]
  BY <1>0, WriterFinds
<1>2. pc'[p] = "number" \/ (pc'[p] = "gate" /\ mem' = mem)
  BY <1>0, <1>1 DEF WriteStatus, Goto
<1>3. HoldsReplay(p) /\ HoldsReplay(p)' /\ TellsReplay(p)' /\ ~Answered(p)'
  <2>1. HoldsReplay(p)
    BY DEF Replayed
  <2>2. status' = StatusAfter(n)'
    BY <1>0, <1>1
  <2>3. HoldsReplay(p)'
    <3>1. CASE pc'[p] = "number"
      BY <3>1 DEF HoldsReplay
    <3>2. CASE pc'[p] = "gate" /\ mem' = mem
      BY <1>0, <1>1, <2>1, <2>2, <3>2 DEF HoldsReplay
    <3>. QED
      BY <1>2, <3>1, <3>2
  <2>. QED
    BY <1>1, <1>2, <2>1, <2>3 DEF TellsReplay, Answered
<1>4. PICK s, g, r : ReplaysOf(s, g, r)
  BY DEF Replayed
<1>5. n \in 0..n /\ g \in 0..n /\ r \in 0..g
  BY <1>1, <1>4 DEF ReplaysOf
<1>6. ReplaysOf(n, g, r)'
  <2>1. /\ status' = StatusAfter(n)' /\ gate' = ReportAfter(g)' /\ report' = ReportAfter(r)'
        /\ \A q \in Proc : Answered(q)' => mem'[q].sequence <= r
    BY <1>0, <1>1, <1>3, <1>4 DEF ReplaysOf
  <2>. QED
    BY <1>1, <1>5, <2>1 DEF ReplaysOf
<1>7. \A q \in Proc : HoldsReplay(q)' /\ TellsReplay(q)'
  BY <1>1, <1>3
<1>. QED
  BY <1>1, <1>5, <1>6, <1>7 DEF Replayed

LEMMA GateReplays ==
    ASSUME IInv, LedgerInv, Replayed, NEW p \in Proc, WriteGate(p)
    PROVE  Replayed'
<1>. DEFINE n == Len(Events)
<1>0. /\ pc[p] = "gate" /\ Step(p)
      /\ UNCHANGED <<runFile, journal, doc, call, mem, status, report>>
      /\ gate' = mem[p].report
  BY DEF WriteGate, At, Step
<1>1. /\ TypeOK /\ pc \in [Proc -> PCs] /\ doc'[p] = NoDoc /\ Events' = Events
      /\ n \in Nat
      /\ \A k : StatusAfter(k)' = StatusAfter(k) /\ ReportAfter(k)' = ReportAfter(k)
      /\ \A q \in Proc : q # p => HoldsReplay(q)' /\ TellsReplay(q)'
      /\ \A q \in Proc : q # p /\ Answered(q)' => Answered(q) /\ mem'[q] = mem[q]
  BY <1>0, WriterFinds
<1>2. pc'[p] = "report"
  BY <1>0, <1>1 DEF WriteGate, Goto
<1>3. HoldsReplay(p)
  BY DEF Replayed
<1>4. status = StatusAfter(n) /\ gate' = ReportAfter(n)'
  BY <1>0, <1>1, <1>3 DEF HoldsReplay
<1>5. HoldsReplay(p)' /\ TellsReplay(p)' /\ ~Answered(p)'
  BY <1>0, <1>1, <1>2, <1>3, <1>4 DEF HoldsReplay, TellsReplay, Answered
<1>6. PICK s, g, r : ReplaysOf(s, g, r)
  BY DEF Replayed
<1>7. n \in 0..n /\ r \in 0..n
  BY <1>1, <1>6 DEF ReplaysOf
<1>8. ReplaysOf(n, n, r)'
  <2>1. /\ status' = StatusAfter(n)' /\ report' = ReportAfter(r)'
        /\ \A q \in Proc : Answered(q)' => mem'[q].sequence <= r
    BY <1>0, <1>1, <1>4, <1>5, <1>6 DEF ReplaysOf
  <2>. QED
    BY <1>1, <1>4, <1>7, <2>1 DEF ReplaysOf
<1>9. \A q \in Proc : HoldsReplay(q)' /\ TellsReplay(q)'
  BY <1>1, <1>5
<1>. QED
  BY <1>1, <1>7, <1>8, <1>9 DEF Replayed

\* The last projection of an evaluation or a repair completes the replay.
LEMMA ReportReplays ==
    ASSUME IInv, LedgerInv, Replayed, NEW p \in Proc, WriteReport(p)
    PROVE  Replayed' /\ Settled'
<1>. DEFINE n == Len(Events)
<1>0. /\ pc[p] = "report" /\ Step(p)
      /\ UNCHANGED <<runFile, journal, doc, call, mem, status, gate>>
      /\ report' = mem[p].report
  BY DEF WriteReport, At, Step
<1>1. /\ TypeOK /\ pc \in [Proc -> PCs] /\ doc'[p] = NoDoc /\ Events' = Events
      /\ PhaseInv(p) /\ n \in Nat
      /\ \A k : StatusAfter(k)' = StatusAfter(k) /\ ReportAfter(k)' = ReportAfter(k)
      /\ \A q \in Proc : q # p => HoldsReplay(q)' /\ TellsReplay(q)'
      /\ \A q \in Proc : q # p /\ Answered(q)' => Answered(q) /\ mem'[q] = mem[q]
  BY <1>0, WriterFinds
<1>2. pc'[p] = "answer"
  BY <1>0, <1>1 DEF WriteReport, Goto
<1>3. HoldsReplay(p)
  BY DEF Replayed
<1>4. /\ n > 0 /\ mem[p].sequence = n /\ mem[p].type = Events[n].type
      /\ status' = StatusAfter(n)' /\ gate' = ReportAfter(n)' /\ report' = ReportAfter(n)'
  BY <1>0, <1>1, <1>3 DEF HoldsReplay
<1>5. Settled'
  BY <1>4 DEF Settled
<1>6. TellsReplay(p)' /\ HoldsReplay(p)'
  <2>1. Events # <<>> /\ DOMAIN Events = 1..n
    BY <1>1, <1>4, EventsType
  <2>2. IsWriter(p) /\ (call[p].cmd = "evaluate" => mem[p].type = "gate.evaluated")
    BY <1>0, <1>1 DEF PhaseInv, OnRun
  <2>3. call[p].cmd = "evaluate" => mem[p].sequence \in GateEvents(Events)
    BY <1>1, <1>4, <2>1, <2>2 DEF GateEvents
  <2>4. call'[p].cmd # "status"
    BY <1>0, <2>2 DEF IsWriter
  <2>. QED
    BY <1>0, <1>1, <1>2, <2>1, <2>3, <2>4 DEF HoldsReplay, TellsReplay, Answered
<1>7. PICK s, g, r : ReplaysOf(s, g, r)
  BY DEF Replayed
<1>8. ReplaysOf(n, n, n)'
  <2>1. n \in 0..n /\ r \in 0..n
    BY <1>1, <1>7 DEF ReplaysOf
  <2>2. ASSUME NEW q \in Proc, Answered(q)' PROVE mem'[q].sequence <= n
    <3>1. CASE q = p
      BY <1>0, <1>1, <1>4, <3>1
    <3>2. CASE q # p
      <4>1. mem[q].sequence <= r /\ mem'[q] = mem[q]
        BY <1>1, <1>7, <2>2, <3>2 DEF ReplaysOf
      <4>2. mem[q].sequence \in Nat
        BY <1>1 DEF TypeOK, Mems
      <4>. QED
        BY <1>1, <2>1, <4>1, <4>2
    <3>. QED
      BY <3>1, <3>2
  <2>. QED
    BY <1>1, <1>4, <2>1, <2>2 DEF ReplaysOf
<1>9. \A q \in Proc : HoldsReplay(q)' /\ TellsReplay(q)'
  BY <1>1, <1>6
<1>10. n \in 0..n
  BY <1>1
<1>. QED
  BY <1>1, <1>5, <1>8, <1>9, <1>10 DEF Replayed

\* A repair holds the replay of the journal it has scanned.
LEMMA RepairReplays ==
    ASSUME IInv, LedgerInv, Replayed, NEW p \in Proc, ReplayJournal(p), Reconcilable
    PROVE  Replayed'
<1>0. /\ TypeOK /\ TypeOK' /\ pc \in [Proc -> PCs] /\ mem \in [Proc -> Mems]
      /\ Torn \in Lines /\ doc[p] = NoDoc
      /\ UNCHANGED <<runFile, journal, projections, doc, call>>
      /\ mem'[p] = Replay(journal, runFile) /\ pc'[p] = "status"
  BY StepTypes, GarbageIsNoEvent
  DEF IInv, TypeOK, PCs, ReplayJournal, At, Step, Goto, directory, LedgerInv
<1>1. Events = journal /\ Events # <<>>
  BY <1>0, NumberedEvents DEF Reconcilable, Replayable
<1>2. Events' = Events /\ Len(Events) \in Nat /\ Len(Events) > 0
  BY <1>0, <1>1, EventsType, EmptySeq DEF Events
<1>3. ReportAfter(Len(Events))' = LatestReport(journal)
  <2>1. Len(Events) \in 0..Len(Events)
    BY <1>2
  <2>2. Prefix(Len(Events)) = journal
    BY <1>0, <1>1, <2>1, PrefixType
  <2>3. Prefix(Len(Events))' = Prefix(Len(Events))
    BY <1>2 DEF Prefix
  <2>. QED
    BY <2>2, <2>3 DEF ReportAfter
<1>4. HoldsReplay(p)'
  BY <1>0, <1>1, <1>2, <1>3 DEF HoldsReplay, Replay
<1>5. TellsReplay(p)' /\ ~Answered(p)'
  BY <1>0 DEF TellsReplay, Answered
<1>6. \A q \in Proc : q # p =>
         pc'[q] = pc[q] /\ call'[q] = call[q] /\ mem'[q] = mem[q] /\ doc'[q] = doc[q]
  BY <1>0, OthersKept DEF Step
<1>. QED
  BY <1>0, <1>2, <1>4, <1>5, <1>6, ReplaysKept

\* What a reader finds is the replay of a prefix.
LEMMA ReadReplays ==
    ASSUME IInv, LedgerInv, Replayed, NEW p \in Proc, ReadProjection(p), Found(p)
    PROVE  Replayed'
<1>0. /\ TypeOK /\ TypeOK' /\ pc \in [Proc -> PCs] /\ mem \in [Proc -> Mems]
      /\ Torn \in Lines /\ doc[p] = NoDoc /\ call[p].cmd \in {"status", "report"}
      /\ UNCHANGED <<runFile, journal, projections, doc, call>>
      /\ pc'[p] = "answer"
  BY StepTypes, GarbageIsNoEvent
  DEF IInv, TypeOK, PCs, ReadProjection, At, Step, Goto, directory, LedgerInv
<1>1. call[p].cmd = "status" => mem'[p].status = status /\ status # NoStatus
  <2>1. mem[p] \in Mems
    BY <1>0
  <2>2. call[p].cmd = "status" => mem'[p] = [mem[p] EXCEPT !.status = status]
    BY <1>0 DEF ReadProjection
  <2>. QED
    BY <2>1, <2>2 DEF Mems, Found
<1>2. /\ Events' = Events /\ Len(Events) \in Nat
      /\ \A n : StatusAfter(n)' = StatusAfter(n)
  BY <1>0, EventsType DEF Events, StatusAfter, Prefix
<1>3. PICK s, g, r : ReplaysOf(s, g, r)
  BY DEF Replayed
<1>4. call[p].cmd = "status" => s \in 1..Len(Events) /\ mem'[p].status = StatusAfter(s)
  <2>1. s \in 0..Len(Events) /\ status = StatusAfter(s)
    BY <1>3 DEF ReplaysOf
  <2>2. s = 0 => status = NoStatus
    BY <2>1 DEF StatusAfter
  <2>. QED
    BY <1>1, <1>2, <2>1, <2>2
<1>5. HoldsReplay(p)' /\ TellsReplay(p)' /\ ~Answered(p)'
  BY <1>0, <1>2, <1>4 DEF HoldsReplay, TellsReplay, Answered
<1>6. \A q \in Proc : q # p =>
         pc'[q] = pc[q] /\ call'[q] = call[q] /\ mem'[q] = mem[q] /\ doc'[q] = doc[q]
  BY <1>0, OthersKept DEF Step
<1>. QED
  BY <1>0, <1>2, <1>5, <1>6, ReplaysKept

\* What is printed is what was to be printed.
LEMMA AnswerReplays ==
    ASSUME IInv, LedgerInv, Replayed, NEW p \in Proc, Answer(p)
    PROVE  Replayed'
<1>0. /\ TypeOK /\ TypeOK' /\ pc \in [Proc -> PCs] /\ pc[p] = "answer"
      /\ Torn \in Lines /\ UNCHANGED <<runFile, journal, projections, mem, call>>
      /\ doc'[p] = Document(p) /\ pc'[p] = "done"
  BY StepTypes, GarbageIsNoEvent DEF IInv, TypeOK, PCs, Answer, At, Step, Goto, directory
<1>1. /\ Events' = Events
      /\ \A n : StatusAfter(n)' = StatusAfter(n)
  BY <1>0 DEF Events, StatusAfter, Prefix
<1>2. TellsReplay(p)
  BY DEF Replayed
<1>3. call[p].cmd = "status" => doc'[p] = mem[p].status
  BY <1>0 DEF Document
<1>4. HoldsReplay(p)' /\ TellsReplay(p)'
  BY <1>0, <1>1, <1>2, <1>3 DEF HoldsReplay, TellsReplay, Answered
<1>5. Answered(p)' => Answered(p) /\ mem'[p] = mem[p]
  BY <1>0 DEF Answered
<1>6. \A q \in Proc : q # p =>
         pc'[q] = pc[q] /\ call'[q] = call[q] /\ mem'[q] = mem[q] /\ doc'[q] = doc[q]
  BY <1>0, OthersKept DEF Step
<1>. QED
  BY <1>0, <1>1, <1>4, <1>5, <1>6, ReplaysKept

LEMMA StepReplays ==
    ASSUME IInv, LedgerInv, Replayed, NEW p \in Proc, Step(p), ~Broken'
    PROVE  Replayed'
<1>0. TypeOK /\ pc \in [Proc -> PCs] /\ Torn \in Lines
  BY GarbageIsNoEvent DEF IInv, TypeOK, PCs
<1>1. ASSUME UNCHANGED <<journal, projections>>, runFile' = runFile \/ Events = <<>>,
             doc'[p] = doc[p], pc'[p] \notin {"status", "gate", "report", "answer"}
      PROVE  Replayed'
  <2>1. Events' = Events
    BY <1>1 DEF Events
  <2>. QED
    BY <1>0, <1>1, <2>1, QuietReplays
<1>2. CASE Lock(p) \/ AdmitEvaluation(p) \/ RefuseEvaluation(p) \/ NumberEvent(p)
  BY <1>0, <1>1, <1>2 DEF Lock, AdmitEvaluation, RefuseEvaluation, NumberEvent, Fail, Goto,
                          directory
<1>3. CASE CreateRun(p)
  <2>1. runFile' = runFile \/ Events = <<>>
    BY <1>3 DEF CreateRun, Creatable, Fail, directory, IInv, JournalInv, Events
  <2>. QED
    BY <1>0, <1>1, <1>3, <2>1 DEF CreateRun, Fail, Goto, directory
<1>4. CASE ReplayJournal(p)
  <2>1. CASE ~Reconcilable
    BY <1>0, <1>1, <1>4, <2>1 DEF ReplayJournal, Fail, Goto, directory
  <2>. QED
    BY <1>4, <2>1, RepairReplays
<1>5. CASE ReadProjection(p)
  <2>1. CASE ~Found(p)
    BY <1>0, <1>1, <1>5, <2>1 DEF ReadProjection, Fail, Goto, directory
  <2>. QED
    BY <1>5, <2>1, ReadReplays
<1>. QED
  BY <1>2, <1>3, <1>4, <1>5, AppendReplays, StatusReplays, GateReplays, ReportReplays,
     AnswerReplays DEF Step

LEMMA InterruptReplays ==
    ASSUME IInv, LedgerInv, Replayed, NEW p \in Proc, Interrupt(p), ~Broken'
    PROVE  Replayed'
<1>0. /\ TypeOK /\ pc \in [Proc -> PCs] /\ Torn \in Lines /\ doc' = doc
      /\ pc'[p] = "aborted" /\ UNCHANGED <<runFile, projections>>
  BY GarbageIsNoEvent DEF IInv, TypeOK, PCs, Interrupt, CutAppend, Goto, directory
<1>1. CASE UNCHANGED directory
  <2>1. Events' = Events
    BY <1>1 DEF Events, directory
  <2>. QED
    BY <1>0, <2>1, QuietReplays
<1>2. CASE CutAppend(p)
  <2>1. PICK line \in {Torn, Event(mem[p])} : journal' = Extended(line)
    BY <1>2 DEF CutAppend
  <2>2. pc[p] = "append" /\ PhaseInv(p) /\ pc[p] \in OnRun
    BY <1>2 DEF CutAppend, At, IInv, OnRun
  <2>3. line \in Lines
    <3>1. call[p].cmd = "evaluate"
      BY <2>2 DEF PhaseInv
    <3>2. Event(mem[p]) \in Lines
      BY <1>0, <2>2, <3>1, OnRunType, EventType
    <3>. QED
      BY <1>0, <3>2
  <2>4. Events' \in {Events, Append(Events, line)}
    BY <2>1, <2>2, <2>3, EventsAfterAppend
  <2>. QED
    BY <1>0, <2>2, <2>3, <2>4, QuietReplays
<1>. QED
  BY <1>1, <1>2 DEF Interrupt

\* Nothing is appended after a merged line.
LEMMA BrokenStays ==
    ASSUME IInv, [Next]_vars, Broken
    PROVE  Broken'
<1>1. ASSUME NEW p \in Proc, pc[p] = "append" PROVE ~Broken
  BY <1>1, NumberedEvents DEF IInv, PhaseInv
<1>2. ASSUME NEW p \in Proc, Step(p) PROVE journal' = journal \/ pc[p] = "append"
  BY <1>2 DEF Step, At, Fail, Lock, AdmitEvaluation, RefuseEvaluation, CreateRun, NumberEvent,
         AppendEvent, WriteStatus, WriteGate, WriteReport, ReplayJournal, ReadProjection,
         Answer, directory
<1>3. ASSUME NEW p \in Proc, Interrupt(p) PROVE journal' = journal \/ pc[p] = "append"
  BY <1>3 DEF Interrupt, CutAppend, At, directory
<1>4. ASSUME NEW p \in Proc, NEW c \in Calls, Invoke(p, c) PROVE journal' = journal
  BY <1>4 DEF Invoke, Fail, directory
<1>5. journal' = journal
  BY <1>1, <1>2, <1>3, <1>4 DEF Next, Terminating, vars, directory
<1>. QED
  BY <1>5 DEF Broken, NothingMerged

LEMMA NextReplay == IInv /\ LedgerInv /\ ReplayInv /\ [Next]_vars => ReplayInv'
<1>. SUFFICES ASSUME IInv, LedgerInv, ReplayInv, [Next]_vars, NothingMerged'
              PROVE  Replayed'
  BY DEF ReplayInv
<1>0. TypeOK /\ JournalInv /\ TypeOK' /\ JournalInv'
  BY NextInv DEF IInv
<1>1. ~Broken'
  BY DEF Broken
<1>2. Replayed
  BY <1>1, BrokenStays DEF ReplayInv, Broken
<1>3. ASSUME NEW p \in Proc, NEW c \in Calls, Invoke(p, c) PROVE Replayed'
  <2>1. UNCHANGED <<runFile, journal, projections, mem, doc>> /\ Torn \in Lines
    BY <1>3, GarbageIsNoEvent DEF Invoke, Fail, directory
  <2>2. pc[p] = "idle" /\ pc'[p] \in {"lock", "done"} /\ doc[p] = NoDoc
    BY <1>0, <1>3 DEF Invoke, At, Fail, Goto, LedgerInv, TypeOK
  <2>3. \A q \in Proc : q # p => pc'[q] = pc[q] /\ call'[q] = call[q]
    BY <1>0, <1>3 DEF Invoke, Fail, Goto, TypeOK
  <2>4. Events' = Events
    BY <2>1 DEF Events
  <2>5. HoldsReplay(p)' /\ TellsReplay(p)' /\ ~Answered(p)'
    BY <2>1, <2>2 DEF HoldsReplay, TellsReplay, Answered
  <2>. QED
    BY <1>0, <1>2, <2>1, <2>3, <2>4, <2>5, ReplaysKept
<1>4. CASE UNCHANGED vars
  BY <1>2, <1>4 DEF Replayed, ReplaysOf, HoldsReplay, TellsReplay, Answered, StatusAfter,
        ReportAfter, Prefix, Events, vars, directory, projections
<1>. QED
  BY <1>1, <1>2, <1>3, <1>4, StepReplays, InterruptReplays DEF Next, Terminating

LEMMA InitReplay == Init => ReplayInv
<1>. SUFFICES ASSUME Init PROVE Replayed
  BY DEF ReplayInv
<1>1. Events = <<>> /\ Len(Events) = 0
  BY DEF Init, Events
<1>2. StatusAfter(0) = NoStatus /\ ReportAfter(0) = NoReport
  <2>1. Prefix(0) = <<>>
    BY <1>1, EmptySeq DEF Prefix
  <2>. QED
    BY <2>1 DEF StatusAfter, ReportAfter, LatestReport, GateEvents
<1>3. \A p \in Proc : pc[p] = "idle" /\ doc[p] = NoDoc
  BY DEF Init
<1>4. ReplaysOf(0, 0, 0)
  BY <1>1, <1>2, <1>3 DEF Init, ReplaysOf, Answered
<1>5. \A p \in Proc : HoldsReplay(p) /\ TellsReplay(p)
  BY <1>3 DEF HoldsReplay, TellsReplay, Answered
<1>. QED
  BY <1>1, <1>4, <1>5 DEF Replayed

-----------------------------------------------------------------------------
(***************************************************************************)
(* ReachedInv.                                                             *)
(***************************************************************************)
LEMMA StepReached ==
    ASSUME IInv, StatusInv, LedgerInv, ReachedInv, NEW p \in Proc, Step(p) \/ Interrupt(p),
           status # NoStatus => status' # NoStatus /\ status'.lastSequence >= status.lastSequence
    PROVE  ReachedInv'
<1>. DEFINE Visible(q) == (pc[q] \in {"gate", "report", "answer"} \/ doc[q] # NoDoc)
                        /\ call[q].cmd = "evaluate"
            Reached(q) == status # NoStatus /\ status.lastSequence >= mem[q].sequence
<1>0. /\ TypeOK /\ TypeOK' /\ PhaseInv(p) /\ pc \in [Proc -> PCs] /\ mem \in [Proc -> Mems]
      /\ At(p, "answer") \/ doc'[p] = doc[p]
      /\ pc[p] # "done" /\ doc[p] = NoDoc
      /\ \A q \in Proc : Visible(q) => Reached(q)
  BY StepTypes DEF IInv, TypeOK, PCs, LedgerInv, ReachedInv
<1>1. ASSUME NEW q \in Proc, Visible(q), mem'[q] = mem[q] PROVE Reached(q)'
  <2>1. Reached(q)
    BY <1>0, <1>1
  <2>2. status.lastSequence \in Nat /\ mem[q].sequence \in Nat /\ status' # NoStatus
    BY <1>0, <2>1 DEF TypeOK, StatusDocuments, Mems
  <2>3. status'.lastSequence \in Nat
    BY <1>0, <2>2 DEF TypeOK, StatusDocuments
  <2>. QED
    BY <1>1, <2>1, <2>2, <2>3
<1>2. ASSUME NEW q \in Proc, q # p, Visible(q)' PROVE Reached(q)'
  <2>1. pc'[q] = pc[q] /\ call'[q] = call[q] /\ mem'[q] = mem[q] /\ doc'[q] = doc[q]
    BY <1>0, <1>2, OthersKept
  <2>. QED
    BY <1>1, <1>2, <2>1
<1>3. Visible(p)' => Reached(p)'
  <2>1. CASE \/ Lock(p) \/ AdmitEvaluation(p) \/ RefuseEvaluation(p) \/ CreateRun(p)
             \/ NumberEvent(p) \/ AppendEvent(p) \/ ReplayJournal(p) \/ Interrupt(p)
    <3>1. pc'[p] \notin {"gate", "report", "answer"} /\ doc'[p] = NoDoc
      BY <1>0, <2>1 DEF Lock, AdmitEvaluation, RefuseEvaluation, CreateRun, NumberEvent,
            AppendEvent, ReplayJournal, Interrupt, Fail, Goto
    <3>. QED
      BY <3>1
  <2>2. CASE ReadProjection(p)
    BY <2>2 DEF ReadProjection, Fail
  <2>3. CASE WriteGate(p) \/ WriteReport(p) \/ Answer(p)
    <3>1. pc[p] \in {"gate", "report", "answer"} /\ call' = call /\ mem' = mem
      BY <2>3 DEF WriteGate, WriteReport, Answer, At
    <3>. QED
      BY <1>1, <3>1
  <2>4. CASE WriteStatus(p)
    <3>1. pc[p] = "status" /\ status' = StatusOf(mem[p]) /\ doc'[p] = NoDoc
      BY <1>0, <2>4 DEF WriteStatus, At
    <3>2. mem[p] \in Mems /\ mem[p].run \in Runs /\ mem[p].type \in EventTypes
      BY <1>0, <3>1, OnRunType DEF OnRun
    <3>3. /\ status' # NoStatus /\ status'.lastSequence = mem[p].sequence
          /\ mem[p].sequence \in Nat
      BY <3>1, <3>2, StatusType, AbsentStatus DEF StatusOf, Mems
    <3>4. pc'[p] = "number" \/ mem' = mem
      BY <1>0, <2>4 DEF WriteStatus, Goto
    <3>. QED
      BY <3>1, <3>3, <3>4
  <2>. QED
    BY <2>1, <2>2, <2>3, <2>4 DEF Step
<1>4. \A q \in Proc : Visible(q)' => Reached(q)'
  BY <1>2, <1>3
<1>. QED
  BY <1>4 DEF ReachedInv

LEMMA NextReached ==
    IInv /\ StatusInv /\ LedgerInv /\ ReachedInv /\ [Next]_vars => ReachedInv'
<1>. SUFFICES ASSUME IInv, StatusInv, LedgerInv, ReachedInv, [Next]_vars PROVE ReachedInv'
  OBVIOUS
<1>1. status # NoStatus => status' # NoStatus /\ status'.lastSequence >= status.lastSequence
  BY StatusMovesOn
<1>2. ASSUME NEW p \in Proc, NEW c \in Calls, Invoke(p, c) PROVE ReachedInv'
  <2>1. UNCHANGED <<status, mem, doc>>
    BY <1>2 DEF Invoke, Fail, directory, projections
  <2>2. doc[p] = NoDoc /\ pc'[p] \in {"lock", "done"}
    BY <1>2 DEF Invoke, At, Fail, Goto, LedgerInv, IInv, TypeOK
  <2>3. \A q \in Proc : q # p => pc'[q] = pc[q] /\ call'[q] = call[q]
    BY <1>2 DEF Invoke, Fail, Goto, IInv, TypeOK
  <2>. QED
    BY <2>1, <2>2, <2>3 DEF ReachedInv
<1>3. CASE UNCHANGED vars
  BY <1>3 DEF ReachedInv, vars, directory, projections
<1>. QED
  BY <1>1, <1>2, <1>3, StepReached DEF Next, Terminating

-----------------------------------------------------------------------------
(***************************************************************************)
(* The properties.                                                         *)
(***************************************************************************)
ReplayInvariant == IInv /\ StatusInv /\ LedgerInv /\ ReplayInv /\ ReachedInv

\* A writer past its append holds the replay of the whole journal, and what is
\* shown or printed is the replay of a prefix, in every reachable state.
THEOREM ReplaysInvariance == Spec => []ReplayInvariant
<1>1. Init => ReplayInv /\ ReachedInv
  BY InitReplay DEF Init, ReachedInv
<1>2. IInv /\ LedgerInv /\ ReplayInv /\ [Next]_vars => ReplayInv'
  BY NextReplay
<1>3. IInv /\ StatusInv /\ LedgerInv /\ ReachedInv /\ [Next]_vars => ReachedInv'
  BY NextReached
<1>. QED
  BY <1>1, <1>2, <1>3, VerdictsAreRecorded, PTL DEF Spec, ReplayInvariant

\* Each projection is the replay of a prefix of the journal, and a projection
\* written later is never ahead of one written earlier.
THEOREM ProjectionsFollow == Spec => []ProjectionsFollowJournal
<1>1. ReplayInvariant => ProjectionsFollowJournal
  BY DEF ReplayInvariant, ReplayInv, Replayed, ReplaysOf, ProjectionsFollowJournal
<1>. QED
  BY <1>1, ReplaysInvariance, PTL

\* What every command prints was recorded in the journal before.
THEOREM AnswersAreJournaled == Spec => []AnswersComeFromJournal
<1>1. ReplayInvariant => AnswersComeFromJournal
  <2>. SUFFICES ASSUME ReplayInvariant, NothingMerged, NEW p \in Proc, doc[p] # NoDoc
                PROVE  CASE call[p].cmd = "status" ->
                               \E n \in 1..Len(Events) : doc[p] = StatusAfter(n)
                         [] call[p].cmd = "reconcile" -> Events # <<>>
                         [] OTHER -> Journaled(doc[p])
    BY DEF AnswersComeFromJournal
  <2>1. IInv /\ LedgerInv /\ TellsReplay(p)
    BY DEF ReplayInvariant, ReplayInv, Replayed, IInv
  <2>2. call[p].cmd \in {"evaluate", "reconcile", "status", "report"}
    BY <2>1, CallsAssumption DEF IInv, PhaseInv
  <2>3. CASE call[p].cmd \in {"evaluate", "report"}
    <3>1. RecordedIn(Events, doc[p], Shown)
      BY <2>1, <2>3 DEF LedgerInv, RecordedInv, RecordedOf, TellsVerdict
    <3>2. Journaled(doc[p])
      BY <3>1 DEF RecordedIn, Journaled, GateEvents
    <3>. QED
      BY <2>3, <3>2
  <2>4. CASE call[p].cmd \in {"status", "reconcile"}
    BY <2>1, <2>4 DEF TellsReplay
  <2>. QED
    BY <2>2, <2>3, <2>4
<1>. QED
  BY <1>1, ReplaysInvariance, PTL

\* A verdict that gate evaluate printed stays behind the projections, whatever
\* interrupts the commands that come after.
THEOREM PrintedVerdictsStay == Spec => []VerdictStaysVisible
<1>1. ReplayInvariant => VerdictStaysVisible
  <2>. SUFFICES ASSUME ReplayInvariant, NEW p \in Proc, IsEvaluation(p), doc[p] # NoDoc
                PROVE  /\ status # NoStatus /\ status.lastSequence >= mem[p].sequence
                       /\ NothingMerged =>
                            \E i \in GateEvents(Events) :
                               i >= mem[p].sequence /\ report = Events[i].data
    BY DEF VerdictStaysVisible
  <2>1. TypeOK /\ call[p].cmd = "evaluate" /\ Answered(p)
    BY DEF ReplayInvariant, IInv, IsEvaluation, Evaluations, Answered
  <2>2. status # NoStatus /\ status.lastSequence >= mem[p].sequence
    BY <2>1 DEF ReplayInvariant, ReachedInv
  <2>3. ASSUME NothingMerged
        PROVE  \E i \in GateEvents(Events) :
                  i >= mem[p].sequence /\ report = Events[i].data
    <3>1. TellsReplay(p) /\ \E s, g, r : ReplaysOf(s, g, r)
      BY <2>3 DEF ReplayInvariant, ReplayInv, Replayed
    <3>2. PICK s, g, r : ReplaysOf(s, g, r)
      BY <3>1
    <3>3. /\ mem[p].sequence \in GateEvents(Events) /\ mem[p].sequence <= r
          /\ report = LatestReport(Prefix(r))
      BY <2>1, <3>1, <3>2 DEF TellsReplay, ReplaysOf, ReportAfter
    <3>4. Events \in Seq(Lines) /\ Len(Events) \in Nat /\ DOMAIN Events = 1..Len(Events)
      BY <2>1, EventsType
    <3>5. r \in 0..Len(Events)
      BY <3>2, <3>4 DEF ReplaysOf
    <3>6. /\ Prefix(r) \in Seq(Lines) /\ DOMAIN Prefix(r) = 1..r
          /\ \A i \in 1..r : Prefix(r)[i] = Events[i]
      BY <2>1, <3>5, PrefixType, LenProperties
    <3>7. /\ GateEvents(Prefix(r)) \subseteq GateEvents(Events)
          /\ mem[p].sequence \in GateEvents(Prefix(r))
      BY <3>3, <3>4, <3>5, <3>6 DEF GateEvents
    <3>8. PICK i \in GateEvents(Prefix(r)) :
             i >= mem[p].sequence /\ LatestReport(Prefix(r)) = Prefix(r)[i].data
      BY <3>6, <3>7, LatestReportIsLast
    <3>9. i \in 1..r
      BY <3>6 DEF GateEvents
    <3>. QED
      BY <3>3, <3>6, <3>7, <3>8, <3>9
  <2>. QED
    BY <2>2, <2>3
<1>. QED
  BY <1>1, ReplaysInvariance, PTL

\* An evaluation or a repair that gets past its last projection leaves all
\* three equal to the replay of the whole journal.
THEOREM CompletionSettles == Spec => SuccessSettles
<1>1. ReplayInvariant /\ [Next]_vars =>
         [\A p \in Proc :
             At(p, "report") /\ pc'[p] = "answer" => (NothingMerged => Settled)']_vars
  <2>. SUFFICES ASSUME ReplayInvariant, [Next]_vars, NEW p \in Proc, pc[p] = "report",
                       pc'[p] = "answer", NothingMerged'
                PROVE  Settled'
    BY DEF At
  <2>0. IInv /\ StatusInv /\ LedgerInv /\ ReplayInv /\ TypeOK
    BY DEF ReplayInvariant, IInv
  <2>1. ASSUME NEW q \in Proc, Step(q) \/ Interrupt(q) PROVE WriteReport(p)
    <3>1. q = p
      BY <2>0, <2>1, OthersKept
    <3>2. ~Interrupt(p)
      BY <2>0 DEF Interrupt, Goto, TypeOK
    <3>. QED
      BY <2>1, <3>1, <3>2 DEF Step, At, Lock, AdmitEvaluation, RefuseEvaluation, CreateRun,
            NumberEvent, AppendEvent, WriteStatus, WriteGate, WriteReport, ReplayJournal,
            ReadProjection, Answer
  <2>2. ASSUME NEW q \in Proc, NEW c \in Calls, Invoke(q, c) PROVE FALSE
    BY <2>0, <2>2 DEF Invoke, At, Fail, Goto, TypeOK
  <2>3. WriteReport(p)
    BY <2>1, <2>2 DEF Next, Terminating, vars
  <2>4. NothingMerged
    BY <2>3 DEF WriteReport, NothingMerged
  <2>5. Replayed
    BY <2>0, <2>4 DEF ReplayInv
  <2>. QED
    BY <2>0, <2>3, <2>5, ReportReplays
<1>. QED
  BY <1>1, ReplaysInvariance, PTL DEF Spec, SuccessSettles
===============================================================================
