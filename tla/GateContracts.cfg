SPECIFICATION Spec
CONSTANTS
    Text <- MCText
    SafeText <- MCSafeText
    Profiles <- MCProfiles
    Predicates <- MCPredicates
    SchemaVersions <- MCSchemaVersions
    ScanLimit = 2
    Safe = Safe
    Secret = Secret
    Site = Site
    RunID = RunID
    RunCommit = RunCommit
    RunCheckpoint = RunCheckpoint
    RunPlan = RunPlan
    NoVerdict = NoVerdict
    Blank = Blank
    Malformed = Malformed
    NoNote = NoNote
    NoAuthorization = NoAuthorization
INVARIANTS
    VerdictIsJournalable
    GoExactlyWhenAuthorized
    NoGoIsExplained
CHECK_DEADLOCK FALSE
