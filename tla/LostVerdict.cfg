SPECIFICATION Spec
CONSTANTS
    Proc = {p1, p2}
    Calls <- RepairCalls
    Cuts = {"unterminated"}
    Text <- MCText
    SafeText <- MCSafeText
    ScanLimit = 2
    Safe = Safe
    Safe2 = Safe2
    Secret = Secret
    Site = Site
    RunA = RunA
    RunB = RunB
    Commit = Commit
    CheckpointA = CheckpointA
    CheckpointB = CheckpointB
    Plan = Plan
    Blank = Blank
    Malformed = Malformed
    NoNote = NoNote
    NoAuthorization = NoAuthorization
    Unreadable = Unreadable
    NoProc = NoProc
    NoRun = NoRun
    NoReport = NoReport
    NoStatus = NoStatus
    NoCall = NoCall
    NoDoc = NoDoc
    NoExit = NoExit
    Reconciled = Reconciled
INVARIANTS
    NoVerdictIsLost
