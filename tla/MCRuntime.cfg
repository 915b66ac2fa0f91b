SPECIFICATION Spec
CONSTANTS
    t1 = t1
    t2 = t2
    Threads = {t1, t2}
    Main = t1
    States = {s1, s2, s3}
    Null = Null
    Data = Data
    MaxDepth = 2
    MaxErrors = 1
    Names <- MCModules
    Parent <- MCParent
    Leaf <- MCLeaf
    Attrs <- MCAttrs
    Private = {"_y", "__all__"}
    Mods = {m1, m2, m3, m4, m5, m6, m7, m8, m9}
    Programs <- MCPrograms
    MaxFrames = 5
    Types = {"object", "c1", "c2", "u1", "u2", "u3"}
    Object = "object"
    TypeAttrs = {"f"}
    Slots = {"tp_init", "tp_repr", "tp_iter"}
    InitSlot = "tp_init"
    CopiedSlots = {"tp_init"}
    Specs <- MCSpecs
    VmInit = VmInit
    MaxStores = 1
    Declarations <- MCDeclarations
    Width = 5
    Shift = 2
    SmallMin <- MCSmallMin
    SmallMax = 5
    Larges <- MCLarges
    Texts <- MCTexts
    Bases = {0, 2, 8, 10, 16, 36}
    MaxValue = 128
    Identifiers = {"a", "b", "c", "r", "x"}
    Codes = {"main", "f", "g", "h"}
    MainCode = "main"
    Sources <- MCSources
    DepthLimit = 3
INVARIANTS TypeOK ModuleRefsExact ImportsBind ListExact StatesPrivate ErrorsStayHome SlotsInherited LookupsAgree LayoutsNest IntegersExact CallsAsPython
PROPERTIES ImplementsModuleTable ImportsEnd
CHECK_DEADLOCK FALSE
