------------------------------ MODULE WebPages ------------------------------
(* The pages, lists and drawers of the web client, one instance each.      *)
EXTENDS WebScreens

AppList == INSTANCE AppsList WITH
    MaxSteps <- MoreSteps,
    tab <- x1, server <- x2, shown <- x3, dialog <- x4, served <- x5,
    seen <- x6, crossed <- x7
OnPage == INSTANCE NodePage WITH
    External <- ExternalPages,
    target <- x1, tab <- x2, tokens <- x3, shown <- x4, dialog <- x5,
    editing <- x6, typed <- x7, range <- x8, newest <- x9, inOrder <- x10,
    crossed <- x11, iface <- x12
OfLink == INSTANCE LinkDrawer WITH
    External <- ExternalLinks, Texts <- NoteTexts, MaxSteps <- MoreSteps,
    target <- x1, server <- x2, list <- x3, held <- x4, editing <- x5,
    typed <- x6, dialog <- x7, mode <- x8, form <- x9, shown <- x10,
    loading <- x11, crossed <- x12
OfNode == INSTANCE NodeDrawer WITH
    Texts <- NoteTexts, MaxSteps <- MostSteps,
    target <- x1, server <- x2, list <- x3, held <- x4, editing <- x5,
    typed <- x6, dialog <- x7, shown <- x8, loading <- x9, crossed <- x10
List == INSTANCE NodesView WITH
    server <- x1, url <- x2, typed <- x3, timer <- x4, selected <- x5
Ping == INSTANCE PingTableView WITH
    server <- x1, list <- x2, held <- x3, shown <- x4, tab <- x5, open <- x6,
    crossed <- x7
Glass == INSTANCE LookingGlass WITH
    Builtin <- BuiltinChecks, Custom <- CustomChecks,
    server <- x1, list <- x2, url <- x3, asked <- x4, selected <- x5,
    target <- x6, form <- x7, tag <- x8, shown <- x9, open <- x10,
    editing <- x11, draft <- x12, changed <- x13, wanted <- x14, bounces <- x15
Cron == INSTANCE CronTasks WITH
    server <- x1, held <- x2, loaded <- x3, list <- x4, open <- x5,
    editing <- x6, draft <- x7, typed <- x8, crossed <- x9, silent <- x10, missed <- x11
Events == INSTANCE EventsView WITH
    Events <- AllEvents,
    server <- x1, list <- x2, mode <- x3, typed <- x4, open <- x5,
    newest <- x6, crossed <- x7
=============================================================================
