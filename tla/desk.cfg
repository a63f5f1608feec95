\* One small instance of each part of the offline work.
SPECIFICATION DeskSpec
CONSTANTS
    BookPages = {1, 2}
    PageSlots = {w1, w2}
    Rounds = 1
    Killable = TRUE
    Seeds <- MCSeeds
    ReadingFaults = 1
    ReadingRuns = 2
    NoJob = NoJob
    PageSamples = 3
    PageTexts <- MCPageTexts
    Crops = 2
    CropReadings <- MCCropReadings
    Unread = Unread
    Alike <- MCAlike
    ScanCandidates <- MCScanCandidates
    LedgerRows <- MCLedgerRows
    LedgerLength = 2
    NewLine = NewLine
    FailedCode = "failed"
    NoSection = NoSection
    Selections <- MCSelections
    FormatsOf <- MCFormats
    SourceOf <- MCSourceOf
    OcrPagesOf <- MCOcrPages
    LowText = {2}
    Recognitions <- MCRecognitions
    Verdicts = {"correct"}
    Engines = {1, 2}
    CacheChangeBound = 2
    JudgementBound = 2
    EditBound = 1
    NoBuild = NoBuild
    NoResult = NoResult
    NoDecision = NoDecision
    BookOf <- MCBookOf
    ReadTargets <- MCReadTargets
    ByteBudgets = {4, 6}
    NodeBudgets = {1, 2, 9}
    Overhead = 1
    EntityCost = 2
    CiteCost = 1
    NodeCost = 1
    SourceChanges = 1
    NoCall = NoCall
    BookUses <- MCBookUses
    ChoicesOf <- MCChoicesOf
    Asked = 1
    Depths = {1, 2, 3}
    WorkLimits = {2, 9}
    WorkRoom = 9
    NoTarget = 0
    Blocks <- MCBlocks
    Supported <- MCSupported
    Profiles <- MCProfiles
    WindowBlocks = 5
    WindowChars = 8
    Interpretations = 2
    NoPart = NoPart
    NoNode = 0
    Documents <- MCDocumentTrees
    SearchKinds = {"paragraph"}
    ProfileKinds = {"paragraph", "styled"}
    Shelves <- MCShelves
    Evidence <- MCEvidence
    BuildBound = 4
    NoModel = NoModel
    SavedScans <- MCSavedScans
    NoBlock = NoBlock
    Scans <- MCScans
    Files <- MCFilePairs
    FileChanges = 1
    NoFragment = NoFragment
    NoHref = NoHref
    External = External
    Here = Here
    Sheets <- MCSheets
    Proposals <- MCProposals
    Reviewers = {w1, w2}
    ChainBound = 2
    Whole = Whole
    Null = Null
INVARIANTS ReviewedByMajority ServedReviewed BookReads AnswersWhole
    InterpretationHolds TextOnce NativeModelStands EvidenceKept ProposalsHold CapturesSource
PROPERTIES  RefusalsKept RevisionsHold
CHECK_DEADLOCK FALSE
