------------------------------ MODULE Fleet ---------------------------------
(* The agents' connections, and the monitor that reports on them.  What the *)
(* monitor sees of the hub is which nodes are connected, which may change   *)
(* at any time: a behaviour is one of the hub, or one of the monitor with   *)
(* connections that come and go.                                            *)
EXTENDS AgentHub

CONSTANTS
    DebounceCount,  \* see NodeMonitor
    Watched         \* a node whose outages are followed; the nodes are alike

ASSUME DebounceAssumption == DebounceCount \in Nat \ {0}

VARIABLES service, exists, connected, monitorRunning, monitorInitDone, grace, nodeStates, step,
          seen, events, update, settings, managerMu, botMu, told, news
NM == INSTANCE NodeMonitor
ASSUME NoStateAssumption == None \notin BOOLEAN /\ None \notin NM!States
monitorVars == <<exists, connected, monitorRunning, monitorInitDone, grace, nodeStates, step,
                 seen, events, update, settings, managerMu, botMu, told, news>>
allVars == <<service, vars, monitorVars>>

(* Where each of the two starts matters only when it is the one to run.    *)
InitFleet ==
    /\ service \in {"hub", "monitor"}
    /\ Init /\ NM!Init
    /\ service = "hub" => exists = {} /\ settings = NM!NoSettings
    /\ service = "monitor" => \A n \in Names : mode[n] = "ssh"

OnlyHub(A) == service = "hub" /\ A /\ UNCHANGED <<service, monitorVars>>
OnlyMonitor(A) == service = "monitor" /\ A /\ UNCHANGED <<service, vars>>

NextFleet == OnlyHub(Next) \/ OnlyMonitor(NM!Next)

(* The fairness of AgentHub and of NodeMonitor, each for its behaviours.   *)
FairFleet ==
    /\ \A conn \in Conns :
        /\ WF_allVars(OnlyHub(Register(conn) \/ StartReading(conn)))
        /\ WF_allVars(OnlyHub(UpdateTelemetry(conn)))
        /\ WF_allVars(OnlyHub(closing[conn] \in {"shut", "closed"} /\ ReadFails(conn)))
        /\ WF_allVars(OnlyHub(ShutSocket(conn) \/ Unregister(conn)))
    /\ WF_allVars(OnlyMonitor(NM!Tick))
    /\ SF_allVars(OnlyMonitor(NM!Loop))
    /\ WF_allVars(OnlyMonitor(NM!Updater))

SpecFleet == InitFleet /\ [][NextFleet]_allVars /\ FairFleet

(* The properties of the two, stated in AgentHub and NodeMonitor.           *)
HubReplacedEnds == service = "hub" => ReplacedEnds
MonitorTypeOK == NM!TypeOK
OnlyStableChanges == NM!OnlyStableChanges
NoSelfDeadlock == NM!NoSelfDeadlock
OutageIsReported == service = "monitor" => NM!OutageIsReported(Watched)
=============================================================================
