SPECIFICATION MCSpec
CONSTANTS
    MaxNode = 3
    MaxListener = 1
    MaxDepth = 2
    Delays = {0, 1, 2}
    MaxTimer = 2
    MaxFrame = 2
    MaxNow = 4
    Urls = {"a", "b"}
    MaxCalls = 5
    MaxNested = 2
    Capacity = 2
    MaxSent = 3
    MaxCommands = 3
    FormControls <- MCControls
    FormValues <- MCFormValues
    MaxControl = 4
    BoxStyles <- MCBoxStyles
    PageWidth = 6
    MaxZ = 2
    MaxBox = 5
    PageUrls <- MCPageUrls
    Inputs <- MCInputs
    InitOptions = {"absent", "object", "text"}
    Replies <- MCReplies
    Clients = {"c1", "c2"}
    MaxFetches = 2
    EntryNames = {"m", "n"}
    EntryValues = {"1", "2"}
    MaxObjects = 2
    MaxEntries = 2
    Width = 3
    Height = 2
    Unit = 2
    Colors <- MCColors
    Blends = {"xor", "destination-out"}
    Boxes <- MCBoxes
    Corners <- MCCorners
    Turns <- MCTurns
    Matrices <- MCMatrices
    LineWidths = {3}
    Blurs = {1}
    Falloff <- MCFalloff
    Glyphs <- MCGlyphs
    Finest = 5
    MaxDrawn = 3
CONSTRAINT Focus
CHECK_DEADLOCK FALSE
INVARIANTS
    TreeConsistent
    CleanIsRendered
    OnceRemoved
    TimersAgree
    MessagesKept
    AnswerIsOfUrl
    SubmittedIsRight
    PageIsLaidOut
    ObjectsAgree
    PaintAgrees
