SPECIFICATION Spec
CONSTANTS
    Proc = {p1, p2, p3}
    Calls <- AllCalls
    Cuts = {"torn", "unterminated"}
    Text <- MCText
    SafeText <- MCSafeText
    ScanLimit = 2
    Safe = Safe
    Safe2 = Safe2
    Secret = Secret
    Site = Site
    RunA = RunA
    RunB = RunB
    Commit = Commit
    CheckpointA = CheckpointA
    CheckpointB = CheckpointB
    Plan = Plan
    Blank = Blank
    Malformed = Malformed
    NoNote = NoNote
    NoAuthorization = NoAuthorization
    Unreadable = Unreadable
    NoProc = NoProc
    NoRun = NoRun
    NoReport = NoReport
    NoStatus = NoStatus
    NoCall = NoCall
    NoDoc = NoDoc
    NoExit = NoExit
    Reconciled = Reconciled
SYMMETRY Processes
INVARIANTS
    TypeOK
    SingleWriter
    LockIsHeldForWork
    JournalSound
    GoIsJustified
    AnswersComeFromJournal
    RunCreatedByAcceptedEvaluation
PROPERTIES
    ReconcileRefusesOnlyDamage
