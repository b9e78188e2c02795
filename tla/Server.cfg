SPECIFICATION Spec
CONSTANTS
    create = create
    import = import
    Handlers = {create, import}
    Imports = {import}
    Cards <- ThreeAndTwo
    Limit <- TwoSlotsAndOne
    ContextTime <- OneEach
    CacheTime = 1
    DrainTime = 2
    PostTime = 1
INVARIANTS
    AnswerIsFinal
    InTime
    NoneCutShort
    ExitsInTime
CHECK_DEADLOCK FALSE
