SPECIFICATION Spec
CONSTANTS
    MaxEvaluations = 3
    Missing = Missing
    Partial = Partial
    Torn = Torn
    Made = Made
INVARIANTS
    ReconcileReplaysDurableJournal
