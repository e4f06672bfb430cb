CONSTANTS
    Addrs = {a1, a2, a3, a4}
    Sizes = {1, 2}
    Storages = {s1, s2}
    PageSize = 3
    NULL = NULL
    ListHead = ListHead
    NoNode = NoNode
    Keys = {1, 2, 3}
    Tags = {1, 2}
    MaxLevel = 3
    Names = {nameF, nameG, nameS}
    Modules = {main, lib}
    main = main
    builtin = builtin
    BuiltinNames = {nameS}
    Functions <- MCFunctions
    Bound = {nameF}
    NOTHING = NOTHING
    MaxVariables = 3
    MaxFrames = 2
    MaxCalls = 2
    ListValues = {1, 2}
    MaxListLen = 4
    head = head
    NoLink = NoLink
    HeapValues = {1, 2, 3}
    HeapMax = 7
    EMPTY_VALUE = EMPTY_VALUE
    NL = NL
    BAD = BAD
    NO_TEXT = NO_TEXT
    Characters = {chr1, chr2, NL, BAD, FOLD}
    Builtin <- MCBuiltin
    Files <- MCFiles
    Typed <- MCTyped
    MaxLines = 3
    BufferSizes = {1, 2, 3}
    FOLD = FOLD
    chr1 = chr1
    chr2 = chr2
    lib = lib
    nameF = nameF
    nameG = nameG
    nameS = nameS
    obj1 = obj1
    obj2 = obj2
    obj3 = obj3
    SCALAR = SCALAR
    MODULE_VALUE = MODULE_VALUE
    Labels = {nameF}
    UNLABELED = UNLABELED
    MaxDepth = 7
    Strings = {nameF, nameG}
    Blocks = {obj1, obj2, obj3}
    Words <- MCWords
    TempLength = 2
    NOWHERE = NOWHERE
    LITERAL = LITERAL
    UNKNOWN = UNKNOWN
    SortKeys = {1, 2, 3}
    MaxSize = 6
    Threshold = 3
    LongMax = 3
    MaxNodes = 5
    Literals <- MCLiterals
    Candidates <- MCCandidates
SPECIFICATION Spec
INVARIANTS BlockListExact CellsDisjoint LevelsNested RangeOmitsOnlyEqual PopsTheLeast WalksSeeThePushed SortsStably EachCharacterOnce RunsOnce LookupsAgree FoldingKeepsMeaning WrittenOutOnce TextsKept
PROPERTIES SkipListSpec FinalsKept JumpsLand
CHECK_DEADLOCK FALSE
