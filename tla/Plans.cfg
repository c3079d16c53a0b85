SPECIFICATION Spec
CONSTANTS
    Drafts <- MCDrafts
    Bindings <- MCBindings
    Site = Site
    Profile = Profile
    Commit = Commit
    Point = Point
    Prompt = Prompt
    Text = Text
    OtherText = OtherText
    Blank = Blank
    Malformed = Malformed
    NoConfirmation = NoConfirmation
    NoJob = NoJob
    NoSheet = NoSheet
    NoRecord = NoRecord
INVARIANTS
    CycleIsReal
    NoCycleMissed
    SheetIsComplete
    CommandsInv
PROPERTIES
    SearchAdvances
    ConfirmedAsPrinted
    EveryBannerAcknowledged
    ImplementsReview
    EveryCommandAnswers
