\* The page's copy of the topology, and each of the screens by itself.
CONSTANTS
    MaxVersion = 2
    Budgets <- MCBudgets
    LoadIds = {1, 2}
    LoadsFail = TRUE
    Nodes = {"a", "b"}
    External = {"b"}
    Lanes = {1, 2}
    MaxCalls = 2
    NoteTexts = {"old", "new"}
    MaxSteps = 2
    MoreSteps = 3
    MostSteps = 4
    Confs = {"p", "q"}
    Builtin = {"p"}
    ItemType <- TemplateType
    ItemParts <- PolicyParts
    MaxEdits = 1
    SettingFields = {"t1", "t2"}
    SettingForm = "t1"
    SettingValues = {"v"}
    MaxSettings = 2
    Pasted = {}
    Preset = "p"
    Presets = {"s"}
    Valid = {"p"}
    MaxEntries = 2
    LinkEnds = {"a", "b", "x"}
    ExternalEnds = {"x"}
    LinksOfEnds <- TwoLinks
    MaxTyped = 1
    Old = "old"
    New = "new"
    Apps = {"a"}
    AppType <- SystemdApp
    AppSelector <- MixedSelector
    Ranges = {"1h", "24h"}
    Interfaces = {"eth0"}
    ExternalPages = {}
    Links = {"a", "b"}
    ExternalLinks = {"a"}
    Pair <- PairOfLink
    MaxNotes = 2
    KeyCalls = {"key"}
    Tags = {"eu"}
    Blocks = {"core"}
    Words = {"a"}
    Runs = {1, 2}
    Tagged = {"b"}
    BuiltinChecks = {"ping"}
    CustomChecks = {"c"}
    Tasks = {"t"}
    AllEvents = {"b"}
    Offline = {"b"}
    Found = {"b"}
SPECIFICATION SpecSmall
INVARIANTS NoChangeMissed PendingIsServed ScreensTypeOK NoDeadButton NoLeftovers FieldsAgree
INVARIANTS DraftsKept OneSync AnswersOfTarget ListsAreCurrent RotatedStaysAway AgentsCurrent SelectionAgrees
PROPERTIES OverwrittenOnlyByOverlap
CHECK_DEADLOCK FALSE
