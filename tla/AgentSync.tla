----------------------------- MODULE AgentSync -----------------------------
(***************************************************************************)
(* Syncing one managed file of a node in agent mode.  The controller sends *)
(* a SyncAction command and waits 30 seconds for the answer                *)
(* (executeAgentSyncAction); the agent runs every command it receives in a *)
(* task of its own, which outlives the connection the command came by      *)
(* (client.rs, executor.rs).  The controller falls back to the commands of *)
(* older agents, which know no hooks, when it gets no usable answer.       *)
(***************************************************************************)
EXTENDS Naturals, FiniteSets

CONSTANTS
    Versions,   \* contents the file can be compiled to
    Absent,     \* no file, no running service, no record
    Runs,       \* sync runs of the controller that may overlap
    Ids         \* bounds the commands that exist at a time; the code draws 16 random bytes

ASSUME AbsentAssumption == Absent \notin Versions

VARIABLES
    desired,    \* what the topology asks for
    recorded,   \* the content whose hash the state store holds
    up,         \* is an agent connection registered in the hub
    pc,         \* the command each run waits for, or "idle"
    act,        \* the action of each run: its content, its first command, the one waited for
    sent,       \* commands on their way to the agent
    tasks,      \* tasks the agent runs
    answers,    \* responses on their way to the controller
    file, live, \* what the file holds, and what the running service was loaded with
    vetoed,     \* first commands of the actions whose pre_sync hook failed
    performed   \* first commands of the actions carried out to their end

controller == <<desired, recorded, pc, act>>
agent == <<tasks, file, live, vetoed, performed>>
network == <<up, sent, answers>>
vars == <<controller, agent, network>>

Contents == Versions \cup {Absent}      \* Absent asks for a removal
Idle == [content |-> Absent]

(* "sync" is SyncActionCmd; an older agent takes ApplyConfigFile, then     *)
(* ReloadBirdCmd or ApplyNftablesCmd or ManageInterface, and removes by    *)
(* ManageInterface DELETE.  "origin" ties the commands of one action.      *)
Kinds == {"sync", "write", "reload", "delete"}
Acts == [content : Contents, origin : Ids, id : Ids]
Commands == [kind : Kinds, id : Ids, origin : Ids, content : Contents]
Tasks == [cmd : Commands, step : {"pre", "write", "delete", "reload", "post"},
          good : BOOLEAN,       \* has the work succeeded so far
          heard : BOOLEAN]      \* is the connection that brought the command still open
Answers == [cmd : Commands, ok : BOOLEAN, unknown : BOOLEAN]

TypeOK ==
    /\ desired \in Contents
    /\ recorded \in Contents
    /\ up \in BOOLEAN
    /\ pc \in [Runs -> Kinds \cup {"idle"}]
    /\ act \in [Runs -> Acts \cup {Idle}]
    /\ \A r \in Runs : pc[r] # "idle" => act[r] \in Acts
    /\ sent \subseteq Commands
    /\ tasks \subseteq Tasks
    /\ answers \subseteq Answers
    /\ file \in Contents
    /\ live \in Contents
    /\ vetoed \subseteq Ids
    /\ performed \subseteq Ids

Init ==
    /\ desired \in Contents
    /\ recorded = Absent
    /\ up = FALSE
    /\ pc = [r \in Runs |-> "idle"]
    /\ act = [r \in Runs |-> Idle]
    /\ sent = {}
    /\ tasks = {}
    /\ answers = {}
    /\ file = Absent
    /\ live = Absent
    /\ vetoed = {}
    /\ performed = {}

Edit(v) ==
    /\ v # desired
    /\ desired' = v
    /\ UNCHANGED <<recorded, pc, act, agent, network>>

(***************************************************************************)
(* The controller.                                                         *)
(***************************************************************************)
Waiting(r) == pc[r] # "idle"
WaitedFor ==        \* a mutant of InUse: ids are free as soon as nobody waits for them
    UNION {{act[r].id, act[r].origin} : r \in {q \in Runs : Waiting(q)}}
InUse ==
    UNION ({{act[r].id, act[r].origin} : r \in {q \in Runs : Waiting(q)}}
           \cup {{c.id, c.origin} : c \in sent \cup {k.cmd : k \in tasks} \cup {a.cmd : a \in answers}})

(* SendCommand registers a fresh id and writes the message.                *)
SendCommand(r, kind, id, origin, content) ==
    /\ pc' = [pc EXCEPT ![r] = kind]
    /\ act' = [act EXCEPT ![r] = [content |-> content, origin |-> origin, id |-> id]]
    /\ sent' = sent \cup {[kind |-> kind, id |-> id, origin |-> origin, content |-> content]}

EndRun(r) ==
    /\ pc' = [pc EXCEPT ![r] = "idle"]
    /\ act' = [act EXCEPT ![r] = Idle]
    /\ UNCHANGED sent

(* PlanSyncWithScope, of which only the probe of the agent may fail.       *)
NeedsApply(probed) ==
    IF desired = Absent
    THEN recorded # Absent \/ (probed /\ (file # Absent \/ live # Absent))
    ELSE recorded # desired

(* A mutant: a forced run trusts the records, too.                         *)
StartPending(r, force) ==
    /\ pc[r] = "idle"
    /\ up
    /\ \E probed \in BOOLEAN : NeedsApply(probed)
    /\ \E id \in Ids \ InUse :
        /\ SendCommand(r, "sync", id, id, desired)
        /\ vetoed' = vetoed \ {id}
        /\ performed' = performed \ {id}
    /\ UNCHANGED <<desired, recorded, up, answers, tasks, file, live>>

Start(r, force) ==
    /\ pc[r] = "idle"
    /\ up
    /\ \E probed \in BOOLEAN : NeedsApply(probed) \/ (force /\ desired # Absent)
    /\ \E id \in Ids \ InUse :
        /\ SendCommand(r, "sync", id, id, desired)
        /\ vetoed' = vetoed \ {id}
        /\ performed' = performed \ {id}
    /\ UNCHANGED <<desired, recorded, up, answers, tasks, file, live>>

(* The commands of an older agent: after no answer at all, or after an     *)
(* answer that mentions "unknown command".                                 *)
Fallback(r) ==
    IF up
    THEN \E id \in Ids \ InUse :
            SendCommand(r, IF act[r].content = Absent THEN "delete" ELSE "write",
                        id, act[r].origin, act[r].content)
    ELSE EndRun(r)

(* The context expires or the connection closes: SendCommand gives up, and *)
(* so, except for the first command, does the run.                         *)
GiveUp(r) ==
    /\ Waiting(r)
    /\ IF pc[r] = "sync" THEN Fallback(r) ELSE EndRun(r)
    /\ UNCHANGED <<desired, recorded, up, answers, agent>>

(* handleIncomingMessage hands an answer to the run that waits for its id. *)
Receive(r, a) ==
    /\ Waiting(r)
    /\ a \in answers
    /\ a.cmd.id = act[r].id
    /\ answers' = answers \ {a}
    /\ \/ /\ a.ok /\ pc[r] \in {"sync", "reload", "delete"}
          /\ recorded' = act[r].content
          /\ EndRun(r)
       \/ /\ a.ok /\ pc[r] = "write"
          /\ IF up
             THEN \E id \in (Ids \ InUse) \cup {a.cmd.id} :     \* an answered id is free
                    SendCommand(r, "reload", id, act[r].origin, act[r].content)
             ELSE EndRun(r)
          /\ UNCHANGED recorded
       \/ /\ ~a.ok
          /\ IF pc[r] = "sync" /\ a.unknown THEN Fallback(r) ELSE EndRun(r)
          /\ UNCHANGED recorded
    /\ UNCHANGED <<desired, up, agent>>

(* Nobody waits for the answer any more.                                   *)
DropAnswer(a) ==
    /\ a \in answers
    /\ \A r \in Runs : Waiting(r) => act[r].id # a.cmd.id
    /\ answers' = answers \ {a}
    /\ UNCHANGED <<up, sent, controller, agent>>

(***************************************************************************)
(* The agent.                                                              *)
(***************************************************************************)
FirstStep(c) == CASE c.kind = "sync" -> "pre" [] c.kind = "write" -> "write"
                  [] c.kind = "reload" -> "reload" [] c.kind = "delete" -> "delete"

Spawned(c, heard) == [cmd |-> c, step |-> FirstStep(c), good |-> TRUE, heard |-> heard]

Deliver(c) ==
    /\ c \in sent
    /\ sent' = sent \ {c}
    /\ tasks' = tasks \cup {Spawned(c, TRUE)}
    /\ UNCHANGED <<controller, up, answers, file, live, vetoed, performed>>

Advance(k, step, good) ==
    /\ tasks' = (tasks \ {k}) \cup {[k EXCEPT !.step = step, !.good = good]}
    /\ UNCHANGED answers

(* The answer goes to the connection that brought the command.  Any error  *)
(* text, a hook's own output included, may mention "unknown command".      *)
Answer(k, ok) ==
    /\ tasks' = tasks \ {k}
    /\ \E unknown \in BOOLEAN :
        /\ ok => ~unknown
        /\ answers' = IF k.heard
                      THEN answers \cup {[cmd |-> k.cmd, ok |-> ok, unknown |-> unknown]}
                      ELSE answers

(* Of a SyncActionCmd the post_sync hook comes next, of any other the end. *)
Conclude(k, good) ==
    IF k.cmd.kind = "sync" THEN Advance(k, "post", good) ELSE Answer(k, good)

PreSync(k) ==
    /\ k \in tasks /\ k.step = "pre"
    /\ \/ /\ Advance(k, IF k.cmd.content = Absent THEN "delete" ELSE "write", TRUE)
          /\ UNCHANGED vetoed
       \/ /\ Answer(k, FALSE)
          /\ vetoed' = vetoed \cup {k.cmd.origin}
    /\ UNCHANGED <<controller, up, sent, file, live, performed>>

(* apply_config_file.                                                      *)
WriteFile(k) ==
    /\ k \in tasks /\ k.step = "write"
    /\ \/ /\ file' = k.cmd.content
          /\ IF k.cmd.kind = "sync" THEN Advance(k, "reload", TRUE) ELSE Answer(k, TRUE)
       \/ /\ Conclude(k, FALSE)
          /\ UNCHANGED file
    /\ UNCHANGED <<controller, up, sent, live, vetoed, performed>>

(* reload_bird, apply_nftables or manage_interface SyncWg.                 *)
Reload(k) ==
    /\ k \in tasks /\ k.step = "reload"
    /\ \/ /\ live' = file
          /\ performed' = performed \cup {k.cmd.origin}
          /\ Conclude(k, TRUE)
       \/ /\ Conclude(k, FALSE)
          /\ UNCHANGED <<live, performed>>
    /\ UNCHANGED <<controller, up, sent, file, vetoed>>

(* Taking the interface down ignores errors; SyncActionCmd reports a file  *)
(* it cannot remove, ManageInterface DELETE does not.                      *)
DeleteInterface(k) ==
    /\ k \in tasks /\ k.step = "delete"
    /\ live' \in {live, Absent}
    /\ file' \in {file, Absent}
    /\ LET good == file' = Absent \/ k.cmd.kind = "delete" IN
        /\ Conclude(k, good)
        /\ performed' = IF good THEN performed \cup {k.cmd.origin} ELSE performed
    /\ UNCHANGED <<controller, up, sent, vetoed>>

PostSync(k) ==
    /\ k \in tasks /\ k.step = "post"
    /\ \/ Answer(k, k.good)
       \/ Answer(k, FALSE)          \* the hook failed
    /\ UNCHANGED <<controller, up, sent, file, live, vetoed, performed>>

(***************************************************************************)
(* The connection.  Commands already written when it breaks may still      *)
(* reach the agent; answers to them, and to commands under way, are lost.  *)
(***************************************************************************)
Connect ==
    /\ ~up
    /\ up' = TRUE
    /\ UNCHANGED <<sent, answers, controller, agent>>

Disconnect ==
    /\ up
    /\ up' = FALSE
    /\ \E through \in SUBSET sent :
        tasks' = {[k EXCEPT !.heard = FALSE] : k \in tasks} \cup {Spawned(c, FALSE) : c \in through}
    /\ sent' = {}
    /\ answers' = {}
    /\ UNCHANGED <<controller, file, live, vetoed, performed>>

AgentRestart ==
    /\ up' = FALSE
    /\ tasks' = {}
    /\ sent' = {}
    /\ answers' = {}
    /\ UNCHANGED <<controller, file, live, vetoed, performed>>

TaskStep(k) == PreSync(k) \/ WriteFile(k) \/ Reload(k) \/ DeleteInterface(k) \/ PostSync(k)

Next ==
    \/ \E v \in Contents : Edit(v)
    \/ \E r \in Runs, force \in BOOLEAN : Start(r, force)
    \/ \E r \in Runs : GiveUp(r)
    \/ \E r \in Runs, a \in answers : Receive(r, a)
    \/ \E a \in answers : DropAnswer(a)
    \/ \E c \in sent : Deliver(c)
    \/ \E k \in tasks : TaskStep(k)
    \/ Connect
    \/ Disconnect
    \/ AgentRestart

Spec == Init /\ [][Next]_vars

-----------------------------------------------------------------------------
(* A content is recorded as synced only after the agent has carried that   *)
(* very action out to its end, whatever answers were late, were lost with  *)
(* their connection, or belong to commands given up long ago.              *)
EarnsRecord ==
    \A r \in Runs :
        (\E a \in answers : Receive(r, a)) /\ recorded' # recorded
        => act[r].origin \in performed
RecordsAreEarned == [][EarnsRecord]_vars

(* "If the pre_sync hook exits with a non-zero exit code, the sync action  *)
(* is immediately aborted.  No configuration files are written, no         *)
(* services are reloaded": no command of an action whose hook failed gets  *)
(* to work on the node.                                                    *)
VetoIsFinal == \A k \in tasks : k.step \in {"write", "reload", "delete"} => k.cmd.origin \notin vetoed
=============================================================================
