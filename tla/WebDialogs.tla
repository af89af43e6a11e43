----------------------------- MODULE WebDialogs -----------------------------
(* The dialogs and forms of the web client, one instance each.             *)
EXTENDS WebScreens

Configs == INSTANCE ConfigDialogs WITH
    Items <- Confs, Type <- ItemType, Parts <- ItemParts, None <- "none",
    tab <- x1, onServer <- x2, list <- x3, filter <- x4, listCalls <- x5,
    listLoading <- x6, dialog <- x7, draft <- x8, typed <- x9, save <- x10,
    saving <- x11, toDelete <- x12, deleteCall <- x13, deleting <- x14,
    edits <- x15
Settings == INSTANCE SettingsTabs WITH
    Fields <- SettingFields, Form <- SettingForm, Values <- SettingValues,
    Calls <- Lanes, MaxEdits <- MaxSettings, MaxSteps <- MoreSteps,
    tab <- x1, shown <- x2, known <- x3, saved <- x4, draft <- x5, edits <- x6
Sync == INSTANCE SyncDialog WITH
    Calls <- Lanes,
    open <- x1, target <- x2, server <- x3, shown <- x4, crossed <- x5,
    mounted <- x6
Apply == INSTANCE ApplyDialog WITH
    Calls <- Lanes, Texts <- Pasted, Names <- Presets, MaxSteps <- MoreSteps,
    open <- x1, initial <- x2, content <- x3, timer <- x4, server <- x5,
    shown <- x6, chosen <- x7, raced <- x8
Node == INSTANCE NodeForm WITH
    open <- x1, edit <- x2, isExternal <- x3, draft <- x4, entrypoints <- x5,
    server <- x6, crossed <- x7, touched <- x8
Link == INSTANCE LinkForm WITH
    Nodes <- LinkEnds, External <- ExternalEnds, Links <- LinksOfEnds,
    open <- x1, edit <- x2, initial <- x3, pair <- x4, kind <- x5,
    settings <- x6, draft <- x7, derivedFor <- x8, due <- x9, crossed <- x10,
    touched <- x11
App == INSTANCE AppDialog WITH
    Type <- AppType, Selector <- AppSelector,
    open <- x1, edit <- x2, tab <- x3, kind <- x4, draft <- x5, mode <- x6,
    selector <- x7, text <- x8, bad <- x9, touched <- x10
Tokens == INSTANCE McpTokens WITH
    Calls <- Lanes, MaxSteps <- MoreSteps,
    server <- x1, newest <- x2, shown <- x3, selected <- x4, dialog <- x5,
    target <- x6, crossed <- x7
=============================================================================
