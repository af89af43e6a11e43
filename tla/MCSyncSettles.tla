--------------------------- MODULE MCSyncSettles ---------------------------
(* Small instances of the two ways to sync, each until things settle.  A   *)
(* behaviour is in one of three settings from its first state on: "agent", *)
(* forced runs of a node that has an agent; "single", runs over SSH one at *)
(* a time, after arbitrary failures and beside UpdateState; and "overlap", *)
(* what two SSH runs at once leave behind.  The variables of the two       *)
(* modules that have the same name are one variable here.                  *)
EXTENDS AgentSync

-----------------------------------------------------------------------------
(* What an operator who keeps forcing a sync obtains on an agent node once *)
(* the connection is stable and nothing fails any more ("calm"), with      *)
(* tasks of earlier commands still running on the agent when calm begins.  *)
VARIABLE calm

liveVars == <<vars, calm>>

LiveInit == Init /\ calm = FALSE

Settle == up /\ ~calm /\ calm' = TRUE /\ UNCHANGED vars

(* Is anything left that could still answer the command of r?              *)
Underway(r) ==
    \/ \E c \in sent : c.id = act[r].id
    \/ \E k \in tasks : k.heard /\ k.cmd.id = act[r].id
    \/ \E a \in answers : a.cmd.id = act[r].id

(* In calm only a command that has nothing left to answer it times out.    *)
CalmGiveUp(r) == Waiting(r) /\ ~Underway(r) /\ GiveUp(r)

CalmTask(k) ==
    /\ TaskStep(k)
    /\ UNCHANGED vetoed
    /\ k.step = "write" => file' = k.cmd.content
    /\ k.step = "delete" => file' = Absent /\ live' = Absent
    /\ k.step = "reload" => live' = file /\ k.cmd.origin \in performed'
    /\ \A a \in answers' \ answers : a.ok = k.good
    /\ \A j \in tasks' \ tasks : j.good = k.good

CalmStep ==
    \/ \E r \in Runs : CalmGiveUp(r) \/ \E a \in answers : Receive(r, a)
    \/ \E a \in answers : DropAnswer(a)
    \/ \E c \in sent : Deliver(c)
    \/ \E k \in tasks : CalmTask(k)

ForceStart == \E r \in Runs : Start(r, TRUE)

LiveNext ==
    \/ ~calm /\ Next /\ UNCHANGED calm
    \/ Settle
    \/ calm /\ (CalmStep \/ ForceStart) /\ UNCHANGED calm

(* In calm, commands, tasks and answers go on to their ends: the agent's   *)
(* runtime runs every task, and every external command has a timeout.      *)
LiveSpec ==
    /\ LiveInit /\ [][LiveNext]_liveVars
    /\ WF_liveVars(calm /\ CalmStep /\ UNCHANGED calm)
    /\ \A i \in Ids :
        WF_liveVars(calm /\ UNCHANGED calm /\ \E k \in tasks : k.cmd.id = i /\ CalmTask(k))
    /\ WF_liveVars(calm /\ ForceStart /\ UNCHANGED calm)

-----------------------------------------------------------------------------
(* Forced runs eventually bring file and service to the desired content    *)
(* and keep them there, also when tasks of commands the controller gave up *)
(* on write older contents in between.                                     *)
InPlace == file = desired /\ live = desired /\ recorded = desired
ForceWins == calm ~> []InPlace

-----------------------------------------------------------------------------
(* The settings.                                                           *)
CONSTANTS v1, v2, r1, i1, i2, n1, wg, s1, s2, Emptied

OneVersion == {v1}
OneRun == {r1}
TwoIds == {i1, i2}

VARIABLES setting, unlocked, tmp, layout, todo, cur, forced, found, outcome, collected

agentOnly == <<up, act, sent, tasks, answers, vetoed, performed>>
sshOnly == <<unlocked, tmp, layout, todo, cur, forced, found, outcome, collected>>
common == <<desired, recorded, pc, file, live, calm>>
allVars == <<setting, common, agentOnly, sshOnly>>

OfWg(x) == [t \in {wg} |-> x]
SameAddress == [v \in {v1, v2} |-> 1]
OwnMtu == [v \in {v1, v2} |-> IF v = v1 THEN 1 ELSE 2]

Single == INSTANCE SshSyncLive WITH
    Nodes <- {n1}, Targets <- {wg}, Home <- OfWg(n1), Kind <- OfWg("wg"), Rank <- OfWg(1),
    Versions <- {v1, v2}, Texts <- OfWg({v1, v2}), Address <- SameAddress, Mtu <- OwnMtu,
    Syncs <- {s1}, Collecting <- TRUE
Overlap == INSTANCE SshSyncLive WITH
    Nodes <- {n1}, Targets <- {wg}, Home <- OfWg(n1), Kind <- OfWg("wg"), Rank <- OfWg(1),
    Versions <- {v1}, Texts <- OfWg({v1}), Address <- SameAddress, Mtu <- SameAddress,
    Syncs <- {s1, s2}, Collecting <- FALSE

NoAgent ==
    /\ up = Absent /\ act = Absent /\ sent = Absent /\ tasks = Absent /\ answers = Absent
    /\ vetoed = Absent /\ performed = Absent
NoSsh ==
    /\ unlocked = Absent /\ tmp = Absent /\ layout = Absent /\ todo = Absent /\ cur = Absent
    /\ forced = Absent /\ found = Absent /\ outcome = Absent /\ collected = Absent

InitSync ==
    \/ setting = "agent" /\ LiveInit /\ NoSsh
    \/ setting = "single" /\ Single!LiveInit /\ NoAgent
    \/ setting = "overlap" /\ Overlap!LiveInit /\ NoAgent

ByAgent(A) == setting = "agent" /\ A /\ UNCHANGED <<setting, sshOnly>>
Alone(A) == setting = "single" /\ A /\ UNCHANGED <<setting, agentOnly>>
Overlapping(A) == setting = "overlap" /\ A /\ UNCHANGED <<setting, agentOnly>>

NextSync ==
    \/ ByAgent(LiveNext)
    \/ Alone(Single!LiveNext)
    \/ Overlapping(Overlap!LiveNext)

(* The fairness of LiveSpec and of SshSyncLive.                            *)
FairSync ==
    /\ WF_allVars(ByAgent(calm /\ CalmStep /\ UNCHANGED calm))
    /\ \A i \in Ids :
           WF_allVars(ByAgent(calm /\ UNCHANGED calm /\ \E k \in tasks : k.cmd.id = i /\ CalmTask(k)))
    /\ WF_allVars(ByAgent(calm /\ ForceStart /\ UNCHANGED calm))
    /\ WF_allVars(Alone(calm /\ Single!CalmExecute(s1) /\ UNCHANGED calm))
    /\ WF_allVars(Alone(Single!Merge /\ UNCHANGED calm))
    /\ WF_allVars(Alone(calm /\ Single!StartScheduled(s1) /\ UNCHANGED calm))
    /\ \A s \in {s1, s2} :
           WF_allVars(Overlapping(calm /\ Overlap!CalmExecute(s) /\ UNCHANGED calm))
    /\ WF_allVars(Overlapping(calm /\ (\E s \in {s1, s2} : Overlap!StartScheduled(s)) /\ UNCHANGED calm))

SpecSync == InitSync /\ [][NextSync]_allVars /\ FairSync

(* The properties of runs over an agent.                                   *)
AgentRecordsAreEarned == [][setting = "agent" => EarnsRecord]_allVars
AgentForceWins == setting = "agent" => ForceWins

(* The properties of SshSyncLive, of single and of overlapping runs; each  *)
(* of its formulas is looked at in the setting it is about only.           *)
InSsh(single, overlap) == (setting = "single" /\ single) \/ (setting = "overlap" /\ overlap)
ForceSsh == InSsh(Single!StartForced(s1), \E s \in {s1, s2} : Overlap!StartForced(s))
KeepsForcing == []<><<ForceSsh>>_allVars

(* Once things are calm scheduled runs record what the topology asks for   *)
(* and take down what it no longer has, for good, unless the operator      *)
(* forces runs again and again.                                            *)
Converges ==
    KeepsForcing \/ ((setting # "agent" /\ calm) ~> []InSsh(Single!Converged, Overlap!Converged))

(* An operator who forces runs again and again gets everything deployed,   *)
(* whatever failed before and whatever the records say.                    *)
ForceRepairs ==
    KeepsForcing => ((setting # "agent" /\ calm) ~> InSsh(Single!Deployed, Overlap!Deployed))
=============================================================================
