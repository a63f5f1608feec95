\* One small instance of each part that shares nothing with the others.
SPECIFICATION PartsSpec
CONSTANTS
    indexA = indexA  indexB = indexB  indexC = indexC
    editionP = editionP  editionQ = editionQ
    Operations <- MCOperations
    Resumable = {"q"}
    Requests = {r1, r2}
    PersonalTries = 2
    MaxOperations = 3
    MaxBookmarks = 1
    PersonalFaults = 1
    Absent = Absent
    Submissions = {n1, n2}
    Payloads = {x, y}
    Intakes = {t1, t2}
    PerHour = 1
    AdmitTries = 2
    LastHour = 1
    IntakeFaults = 1
    Nothing = Nothing
    Indexed = {indexA, indexB, indexC}
    Units <- MCUnits
    ReuseOf <- MCReuse
    Importers = {t1, t2}
    BatchUnits = 1
    EngineStops = 2
    NoIndex = NoIndex
    Walked = {editionP, editionQ}
    WalkHits <- MCWalkHits
    Limits = {1, 2, 3}
    LastOffset <- MCLastOffset
    LastPage = 3
    Viewers = {t1, t2}
    Views <- MCViews
    SizeOf <- MCSizeOf
    PixelsOf <- MCPixelsOf
    CacheBytes = 2
    RasterBytes = 2
    RasterEntries = 2
    Restarts = 1
    Decays = 1
    NoView = NoView
    Grace = 2
    Failures = 2
    Publications = {"p", "q"}
    ManifestCapacity = 1
    Changes = 2
    Collectors = {"a"}
    Metrics = {"search", "read"}
    FoundEditions = {1, 2}
    LogRoom = 2
    Batch = 1
    Retention = 1
    LastDay = 2
    LastCall = 3
    NoPacket = 0
    Packets = {1, 2, 3}
    IdentityOf <- MCIdentity
    CostOf <- MCCost
    ScopesOf <- MCPacketScopes
    CapOf <- MCCap
    Ceiling = 5
    PriorObligations = 1
    LargestCharge = 3
    Senders = {w1, w2}
    Sources = {"index"}
    Saying <- MCSaying
    Deadline <- MCOnce
    FreshFor <- MCOnce
    Every <- MCOnce
    LastTick = 4
    Changed = 1
    Reopenings = 1
INVARIANTS RecordIsReplay ReceiptsHold SearchesWhole WalkWhole
    CachesHold ManifestOfTheCall TotalsAreCalls
    ObligationsHold ShownAsRead
PROPERTIES Supervised
CHECK_DEADLOCK FALSE
