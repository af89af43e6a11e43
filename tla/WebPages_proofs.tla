-------------------------- MODULE WebPages_proofs --------------------------
(* Proofs about the pages and lists of the web client, whatever the server *)
(* has and however requests overlap.  Each has an invariant of its own;    *)
(* Web_proofs puts them together.                                          *)
EXTENDS WebPages, FiniteSetTheorems, WellFoundedInduction, TLAPS

USE BoundsAssumption

-----------------------------------------------------------------------------
(***************************************************************************)
(* CronTasks.  x1 is the server, x2 what the agents hold, x3 whether it is *)
(* loaded, x4 the list, x5 whether the form is open, x6 the task edited,   *)
(* x7 the draft, x8 what was typed, x9 whether two changes crossed, x10    *)
(* the agents that are silent, x11 those the last list did not reach.      *)
(***************************************************************************)
(* What each request carries.                                              *)
CronShapes ==
    \A c \in calls :
        /\ c.kind = "load" => c.at = "sent"
        /\ c.kind \in Cron!Changing => c.node = Nodes
        /\ c.kind = "save" => c.sent # Cron!NoTask
        /\ c.kind \in {"delete", "toggle"} => c.task \in Tasks

(* The requests the server sends the agents something for.                 *)
CronPending == {c \in calls : c.at \in {"applied", "read"}}

CronAgents ==
    ~x9 =>
        /\ \A c, d \in CronPending : c = d
        /\ \A c \in CronPending : c.at = "read" => c.specs = x1
        /\ \A n \in x3 \ x11 : x2[n] = Cron!Due(n) \/ \E c \in CronPending : n \in c.node

CronInv == Cron!TypeOK /\ CronShapes /\ Cron!NoDeadButton /\ CronAgents

LEMMA CronTyped ==
    ASSUME Cron!TypeOK
    PROVE  /\ x1 \in Cron!Configs /\ x2 \in [Nodes -> SUBSET (Tasks \X {"old", "typed"})]
           /\ x3 \subseteq Nodes /\ x4 \in Cron!Configs /\ x5 \in BOOLEAN
           /\ x6 \in [id : Tasks \cup {Cron!None}, enabled : BOOLEAN]
           /\ x7 \in [text : {"", "old", "typed"}, nodes : SUBSET Nodes] /\ x8 \subseteq Nodes
           /\ busy \subseteq {"load", "save"} /\ calls \subseteq Cron!Calls /\ x9 \in BOOLEAN
           /\ steps \in 0..MaxSteps /\ x10 \subseteq x3 /\ x11 \subseteq x3
BY DEF Cron!TypeOK

LEMMA CronCall ==
    ASSUME NEW kind \in {"load", "save", "delete", "toggle", "register"},
           NEW t \in Tasks \cup {Cron!None}, NEW sent \in Cron!TaskRecords
    PROVE  /\ Cron!Call(kind, t, sent) \in Cron!Calls
           /\ Cron!Call(kind, t, sent).kind = kind /\ Cron!Call(kind, t, sent).task = t
           /\ Cron!Call(kind, t, sent).sent = sent /\ Cron!Call(kind, t, sent).node = Nodes
           /\ Cron!Call(kind, t, sent).at = "sent"
<1>1. Cron!NoTask \in Cron!TaskRecords
    BY DEF Cron!TaskRecords
<1>2. QED
    BY <1>1 DEF Cron!Call, Cron!Calls, Cron!Configs

LEMMA CronFetch == Cron!Fetch \in Cron!Calls /\ Cron!Fetch.kind = "load" /\ Cron!Fetch.at = "sent"
BY CronCall DEF Cron!Fetch, Cron!TaskRecords

(* What is due, and what is sent, can be held.                             *)
LEMMA CronSpecs ==
    ASSUME NEW config \in Cron!Configs, NEW n
    PROVE  Cron!Specs(config, n) \subseteq Tasks \X {"old", "typed"}
<1> SUFFICES ASSUME NEW t \in Tasks, config[t].enabled PROVE config[t].text \in {"old", "typed"}
    BY DEF Cron!Specs
<1>1. config[t] \in Cron!TaskRecords
    BY DEF Cron!Configs
<1>2. config[t] # Cron!NoTask
    BY DEF Cron!NoTask
<1>3. QED
    BY <1>1, <1>2 DEF Cron!TaskRecords

LEMMA CronDue == ASSUME NEW n PROVE Cron!Due(n) = Cron!Specs(x1, n)
BY DEF Cron!Due, Cron!Specs

(* It holds when the screen is opened.                                      *)
LEMMA CronInit == ASSUME Cron!Init PROVE CronInv
<1>1. x1 \in Cron!Configs /\ x3 \subseteq Nodes /\ x10 \subseteq x3 /\ x11 \subseteq x3
    BY DEF Cron!Init
<1>2. x2 \in [Nodes -> SUBSET (Tasks \X {"old", "typed"})]
    BY <1>1, CronSpecs, CronDue DEF Cron!Init
<1>3. x4 \in Cron!Configs
    BY DEF Cron!Init, Cron!Configs, Cron!TaskRecords
<1>4. x6 \in [id : Tasks \cup {Cron!None}, enabled : BOOLEAN] /\ x5 \in BOOLEAN
      /\ x7 \in [text : {"", "old", "typed"}, nodes : SUBSET Nodes] /\ x8 \subseteq Nodes
    BY DEF Cron!Init, Cron!None
<1>5. busy \subseteq {"load", "save"} /\ calls \subseteq Cron!Calls /\ x9 \in BOOLEAN
    BY CronFetch DEF Cron!Init
<1>6. steps \in 0..MaxSteps
    <2>1. steps = 0
        BY DEF Cron!Init
    <2>2. QED
        BY <2>1
<1>7. Cron!TypeOK
    BY <1>1, <1>2, <1>3, <1>4, <1>5, <1>6 DEF Cron!TypeOK
<1>8. calls = {Cron!Fetch}
    BY DEF Cron!Init
<1>9. CronShapes
    BY <1>8, CronFetch DEF CronShapes, Cron!Changing
<1>10. Cron!NoDeadButton
    BY <1>8, CronFetch DEF Cron!Init, Cron!NoDeadButton
<1>11. CronAgents
    BY <1>1, <1>8, CronFetch DEF Cron!Init, CronAgents, CronPending
<1>12. QED
    BY <1>7, <1>9, <1>10, <1>11 DEF CronInv

(* Requests the agents have no part in come and go.                        *)
LEMMA CronAside ==
    ASSUME CronInv, UNCHANGED <<x1, x2, x3, x9, x11>>, CronPending' = CronPending
    PROVE  CronAgents'
<1>1. \A n : Cron!Due(n)' = Cron!Due(n)
    BY DEF Cron!Due
<1>2. QED
    BY <1>1 DEF CronInv, CronAgents

(* One is added that has just been sent.                                   *)
LEMMA CronSends ==
    ASSUME CronInv, NEW c \in Cron!Calls, calls' = calls \cup {c}, c.at = "sent",
           c.kind \in Cron!Changing => c.node = Nodes,
           c.kind = "save" => c.sent # Cron!NoTask,
           c.kind \in {"delete", "toggle"} => c.task \in Tasks,
           UNCHANGED <<x1, x2, x3, x9, x11>>
    PROVE  calls' \subseteq Cron!Calls /\ CronShapes' /\ CronAgents'
<1>1. calls' \subseteq Cron!Calls
    BY CronTyped DEF CronInv
<1>2. CronShapes'
    BY DEF CronInv, CronShapes
<1>3. CronPending' = CronPending
    BY DEF CronPending
<1>4. QED
    BY <1>1, <1>2, <1>3, CronAside

(* One goes a step further.                                                *)
LEMMA CronGoesOn ==
    ASSUME CronInv, NEW c \in calls, c.kind # "load", NEW next \in Cron!Calls,
           calls' = (calls \ {c}) \cup {next},
           next.kind = c.kind, next.task = c.task, next.sent = c.sent, next.node = c.node
    PROVE  calls' \subseteq Cron!Calls /\ CronShapes'
<1>1. calls' \subseteq Cron!Calls
    BY CronTyped DEF CronInv
<1>2. CronShapes'
    <2> SUFFICES ASSUME NEW d \in calls'
                 PROVE  /\ d.kind = "load" => d.at = "sent"
                        /\ d.kind \in Cron!Changing => d.node = Nodes
                        /\ d.kind = "save" => d.sent # Cron!NoTask
                        /\ d.kind \in {"delete", "toggle"} => d.task \in Tasks
        BY DEF CronShapes
    <2>1. CASE d = next
        BY <2>1 DEF CronInv, CronShapes
    <2>2. CASE d \in calls
        BY <2>2 DEF CronInv, CronShapes
    <2>3. QED
        BY <2>1, <2>2
<1>3. QED
    BY <1>1, <1>2

(* The form, the filter and the buttons.                                   *)
LEMMA CronPage ==
    ASSUME CronInv, UNCHANGED <<x1, x2, x3, x4, busy, calls, x9, x10, x11>>,
           x5' \in BOOLEAN, x6' \in [id : Tasks \cup {Cron!None}, enabled : BOOLEAN],
           x7' \in [text : {"", "old", "typed"}, nodes : SUBSET Nodes], x8' \subseteq Nodes,
           steps' \in 0..MaxSteps
    PROVE  CronInv'
<1>1. CronAgents'
    <2>1. CronPending' = CronPending
        BY DEF CronPending
    <2>2. QED
        BY <2>1, CronAside
<1>2. CronShapes'
    BY DEF CronInv, CronShapes
<1>3. QED
    BY <1>1, <1>2 DEF CronInv, Cron!TypeOK, Cron!NoDeadButton

(* A change of the configuration.                                          *)
LEMMA CronChange ==
    ASSUME CronInv, NEW c \in calls, Cron!Change(c)
    PROVE  /\ c.at = "sent" /\ c.kind \in Cron!Changing
           /\ x1' \in Cron!Configs /\ x9' = (x9 \/ Cron!Sending(c))
<1>0. c.sent \in Cron!TaskRecords
    BY CronTyped DEF CronInv, Cron!Calls
<1>. x1 \in [Tasks -> Cron!TaskRecords]
    BY CronTyped DEF CronInv, Cron!Configs
<1>1. ASSUME c.kind = "save" PROVE x1' \in Cron!Configs
    <2>1. PICK t \in Tasks : x1' = [x1 EXCEPT ![t] =
                    [c.sent EXCEPT !.enabled = c.task = Cron!None \/ c.sent.enabled]]
        BY <1>1 DEF Cron!Change, Cron!SaveCronTask
    <2>2. c.sent \in Cron!TaskRecords /\ c.sent # Cron!NoTask
        BY <1>0, <1>1 DEF CronInv, CronShapes
    <2>3. [c.sent EXCEPT !.enabled = c.task = Cron!None \/ c.sent.enabled] \in Cron!TaskRecords
        BY <2>2 DEF Cron!TaskRecords
    <2>4. QED
        BY <2>1, <2>3 DEF Cron!Configs
<1>2. ASSUME c.kind = "delete" PROVE x1' \in Cron!Configs
    <2>1. x1' = [x1 EXCEPT ![c.task] = Cron!NoTask]
        BY <1>2 DEF Cron!Change, Cron!DeleteCronTask
    <2>2. Cron!NoTask \in Cron!TaskRecords
        BY DEF Cron!TaskRecords
    <2>3. QED
        BY <2>1, <2>2 DEF Cron!Configs
<1>3. ASSUME c.kind = "toggle" PROVE x1' \in Cron!Configs
    <2>1. c.task \in Tasks
        BY <1>3 DEF CronInv, CronShapes
    <2>2. /\ x1[c.task] # Cron!NoTask
          /\ x1' = [x1 EXCEPT ![c.task] = [x1[c.task] EXCEPT !.enabled = ~@]]
        BY <1>3, <2>1 DEF Cron!Change, Cron!ToggleCronTask
    <2>3. [x1[c.task] EXCEPT !.enabled = ~@] \in Cron!TaskRecords
        BY <2>1, <2>2 DEF Cron!TaskRecords
    <2>4. QED
        BY <2>2, <2>3 DEF Cron!Configs
<1>4. c.kind \in Cron!Changing /\ c.at = "sent" /\ x9' = (x9 \/ Cron!Sending(c))
    BY DEF Cron!Change, Cron!Changing
<1>5. QED
    BY <1>1, <1>2, <1>3, <1>4 DEF Cron!Changing

(* Every step of the screen keeps it.                                       *)
LEMMA CronStep == ASSUME CronInv, Cron!Next \/ UNCHANGED Cron!vars PROVE CronInv'
<1>1. /\ x1 \in Cron!Configs /\ x3 \subseteq Nodes /\ x4 \in Cron!Configs
      /\ x2 \in [Nodes -> SUBSET (Tasks \X {"old", "typed"})]
      /\ busy \subseteq {"load", "save"} /\ calls \subseteq Cron!Calls /\ x9 \in BOOLEAN
      /\ steps \in 0..MaxSteps /\ x10 \subseteq x3 /\ x11 \subseteq x3
    BY CronTyped DEF CronInv
<1>2. ASSUME Cron!Step PROVE steps' \in 0..MaxSteps
    BY <1>1, <1>2 DEF Cron!Step
<1>3. ASSUME NEW c \in calls, c.at = "sent" PROVE c.specs \in Cron!Configs
    BY <1>1 DEF Cron!Calls
<1>4. ASSUME NEW c \in calls
      PROVE  c \in Cron!Calls /\ c.task \in Tasks \cup {Cron!None} /\ c.sent \in Cron!TaskRecords /\ c.specs \in Cron!Configs
    BY <1>1 DEF Cron!Calls
<1>5. ASSUME UNCHANGED <<x5, x6, x7, x8>>
      PROVE  /\ x5' \in BOOLEAN /\ x6' \in [id : Tasks \cup {Cron!None}, enabled : BOOLEAN]
             /\ x7' \in [text : {"", "old", "typed"}, nodes : SUBSET Nodes]
             /\ x8' \subseteq Nodes
    BY <1>5, CronTyped DEF CronInv
<1>6. ASSUME NEW c \in calls, Cron!Apply(c) PROVE CronInv'
    <2>1. /\ calls' = (calls \ {c}) \cup {[c EXCEPT !.at = "applied"]}
          /\ UNCHANGED <<x2, x3, x4, x5, x6, x7, x8, busy, steps, x10, x11>>
        BY <1>6 DEF Cron!Apply, Cron!agents, Cron!form
    <2>2. /\ c.at = "sent" /\ c.kind \in Cron!Changing
          /\ x1' \in Cron!Configs /\ x9' = (x9 \/ Cron!Sending(c))
        BY <1>6, CronChange DEF Cron!Apply
    <2> DEFINE next == [c EXCEPT !.at = "applied", !.specs = c.specs]
    <2>3. /\ calls' = (calls \ {c}) \cup {next}
          /\ next \in Cron!Calls /\ next.kind = c.kind /\ next.task = c.task /\ next.sent = c.sent
          /\ next.node = c.node /\ next.at = "applied"
        <3>1. c \in Cron!Calls /\ c.specs \in Cron!Configs
            BY <1>4
        <3>2. QED
            BY <2>1, <3>1 DEF Cron!Calls
    <2> HIDE DEF next
    <2>4. calls' \subseteq Cron!Calls /\ CronShapes'
        BY <2>2, <2>3, CronGoesOn DEF Cron!Changing
    <2>5. next.node = Nodes
        BY <2>2, <2>3 DEF CronInv, CronShapes
    <2>6. CronAgents'
        <3> SUFFICES ASSUME ~x9' PROVE CronAgents'
            BY DEF CronAgents
        <3>1. ~x9 /\ ~Cron!Sending(c)
            BY <2>2
        <3>2. CronPending = {}
            BY <2>2, <3>1 DEF CronPending, Cron!Sending, CronInv, CronShapes
        <3>3. CronPending' = {next}
            BY <2>3, <3>2 DEF CronPending
        <3>4. \A n \in x3' : n \in next.node
            BY <1>1, <2>1, <2>5
        <3>5. QED
            BY <2>3, <3>3, <3>4 DEF CronAgents
    <2>7. Cron!NoDeadButton'
        BY <2>1, <2>2, <2>3, <2>4 DEF CronInv, Cron!NoDeadButton, Cron!Changing
    <2>8. x9' \in BOOLEAN
        BY <1>1, <2>2
    <2>9. QED
        BY <1>1, <1>5, <2>1, <2>2, <2>4, <2>6, <2>7, <2>8 DEF CronInv, Cron!TypeOK
<1>7. ASSUME NEW c \in calls, Cron!ReadsConfig(c) PROVE CronInv'
    <2> DEFINE next == [c EXCEPT !.at = "read", !.specs = x1]
    <2>1. /\ c.at = "applied" /\ c.kind # "load" /\ calls' = (calls \ {c}) \cup {next}
          /\ UNCHANGED <<x1, x2, x3, x4, x5, x6, x7, x8, busy, x9, steps, x10, x11>>
        BY <1>7 DEF Cron!ReadsConfig, Cron!agents, Cron!form
    <2>2. /\ next \in Cron!Calls /\ next.kind = c.kind /\ next.task = c.task /\ next.sent = c.sent
          /\ next.node = c.node /\ next.at = "read" /\ next.specs = x1
        <3>1. c \in Cron!Calls
            BY <1>4
        <3>2. QED
            BY <1>1, <3>1 DEF Cron!Calls
    <2> HIDE DEF next
    <2>3. calls' \subseteq Cron!Calls /\ CronShapes'
        BY <2>1, <2>2, CronGoesOn
    <2>4. CronAgents'
        <3> SUFFICES ASSUME ~x9 PROVE CronAgents'
            BY <2>1 DEF CronAgents
        <3>1. CronPending = {c}
            BY <2>1 DEF CronPending, CronInv, CronAgents
        <3>2. CronPending' = {next}
            BY <2>1, <2>2, <3>1 DEF CronPending
        <3>3. \A n \in x3 \ x11 : x2[n] = Cron!Due(n) \/ n \in next.node
            BY <2>2, <3>1 DEF CronInv, CronAgents
        <3>4. \A n : Cron!Due(n)' = Cron!Due(n)
            BY <2>1 DEF Cron!Due
        <3>5. next.specs = x1'
            BY <2>1, <2>2
        <3>6. UNCHANGED <<x2, x3, x10, x11>>
            BY <2>1
        <3>7. QED
            BY <3>2, <3>3, <3>4, <3>5, <3>6 DEF CronAgents
    <2>5. Cron!NoDeadButton'
        BY <2>1, <2>2 DEF CronInv, Cron!NoDeadButton
    <2>6. QED
        BY <1>1, <1>5, <2>1, <2>4, <2>5, <2>3 DEF CronInv, Cron!TypeOK
<1>8. ASSUME NEW c \in calls, Cron!SyncCronTasksToAgents(c) PROVE CronInv'
    <2>1. /\ c.at = "read"
          /\ x2' = [n \in Nodes |-> IF n \in c.node \cap (x3 \ x10) THEN Cron!Specs(c.specs, n) ELSE x2[n]]
          /\ x11' = (x11 \cup (c.node \cap x3)) \ (c.node \cap (x3 \ x10))
          /\ UNCHANGED <<x1, x3, x4, x5, x6, x7, x8, busy, x9, x10, steps>>
        BY <1>8 DEF Cron!SyncCronTasksToAgents, Cron!form
    <2>2. x2' \in [Nodes -> SUBSET (Tasks \X {"old", "typed"})]
        BY <1>1, <1>4, <2>1, CronSpecs
    <2>3. c.kind # "load"
        BY <2>1 DEF CronInv, CronShapes
    <2>4. /\ calls' \subseteq Cron!Calls /\ CronShapes' /\ CronPending' = CronPending \ {c}
          /\ Cron!NoDeadButton'
        <3>1. CASE c.kind = "register"
            <4>1. calls' = calls \ {c}
                BY <1>8, <3>1 DEF Cron!SyncCronTasksToAgents
            <4>2. CronShapes' /\ CronPending' = CronPending \ {c}
                BY <4>1 DEF CronInv, CronShapes, CronPending
            <4>3. Cron!NoDeadButton'
                BY <2>1, <3>1, <4>1 DEF CronInv, Cron!NoDeadButton
            <4>4. QED
                BY <1>1, <4>1, <4>2, <4>3
        <3>2. CASE c.kind # "register"
            <4> DEFINE next == [c EXCEPT !.at = "pushed", !.specs = c.specs]
            <4>1. calls' = (calls \ {c}) \cup {[c EXCEPT !.at = "pushed"]}
                BY <1>8, <3>2 DEF Cron!SyncCronTasksToAgents
            <4>2. /\ calls' = (calls \ {c}) \cup {next}
                  /\ next \in Cron!Calls /\ next.kind = c.kind /\ next.task = c.task
                  /\ next.sent = c.sent /\ next.node = c.node /\ next.at = "pushed"
                <5>1. c \in Cron!Calls /\ c.specs \in Cron!Configs
                    BY <1>4
                <5>2. QED
                    BY <4>1, <5>1 DEF Cron!Calls
            <4> HIDE DEF next
            <4>3. calls' \subseteq Cron!Calls /\ CronShapes'
                BY <2>3, <4>2, CronGoesOn
            <4>4. CronPending' = CronPending \ {c}
                BY <4>2, <4>3 DEF CronPending
            <4>5. Cron!NoDeadButton'
                BY <2>1, <2>3, <4>2, <4>3 DEF CronInv, Cron!NoDeadButton
            <4>6. QED
                BY <4>3, <4>4, <4>5
        <3>3. QED
            BY <3>1, <3>2
    <2>5. CronAgents'
        <3> SUFFICES ASSUME ~x9 PROVE CronAgents'
            BY <2>1 DEF CronAgents
        <3>1. CronPending = {c} /\ c.specs = x1
            BY <2>1 DEF CronPending, CronInv, CronAgents
        <3>2. CronPending' = {}
            BY <2>4, <3>1
        <3>3. ASSUME NEW n \in x3 \ x11' PROVE x2'[n] = Cron!Due(n)'
            <4>1. Cron!Due(n)' = Cron!Due(n) /\ n \in Nodes
                BY <1>1, <2>1 DEF Cron!Due
            <4>2. CASE n \in c.node
                BY <2>1, <3>1, <4>1, <4>2, CronDue
            <4>3. CASE n \notin c.node
                <5>1. x2[n] = Cron!Due(n)
                    BY <2>1, <3>1, <4>3 DEF CronInv, CronAgents
                <5>2. QED
                    BY <2>1, <4>1, <4>3, <5>1
            <4>4. QED
                BY <4>2, <4>3
        <3>4. QED
            BY <2>1, <3>2, <3>3 DEF CronAgents
    <2>6. x11' \subseteq x3
        BY <1>1, <2>1
    <2>7. QED
        BY <1>1, <1>5, <2>1, <2>2, <2>4, <2>5, <2>6 DEF CronInv, Cron!TypeOK
<1>9. ASSUME NEW n \in Nodes, Cron!OnRegister(n) PROVE CronInv'
    <2> DEFINE sent == Cron!Call("register", Cron!None, Cron!NoTask)
               next == [sent EXCEPT !.node = {n}, !.at = "applied"]
    <2>1. /\ Cron!Step /\ n \notin x3 /\ x3' = x3 \cup {n} /\ calls' = calls \cup {next}
          /\ x9' = (x9 \/ Cron!Sending(Cron!Fetch))
          /\ UNCHANGED <<x1, x2, x4, x5, x6, x7, x8, busy, x10, x11>>
        BY <1>9 DEF Cron!OnRegister, Cron!form
    <2>2. /\ next \in Cron!Calls /\ next.kind = "register" /\ next.at = "applied" /\ next.node = {n}
        <3>1. sent \in Cron!Calls /\ sent.kind = "register"
            BY CronCall DEF Cron!TaskRecords
        <3> HIDE DEF sent
        <3>2. QED
            BY <3>1 DEF Cron!Calls
    <2> HIDE DEF next
    <2>3. calls' \subseteq Cron!Calls /\ CronShapes'
        BY <1>1, <2>1, <2>2 DEF CronInv, CronShapes, Cron!Changing
    <2>4. CronAgents'
        <3> SUFFICES ASSUME ~x9' PROVE CronAgents'
            BY DEF CronAgents
        <3>1. ~x9 /\ ~Cron!Sending(Cron!Fetch)
            BY <2>1
        <3>2. CronPending = {}
            BY <3>1, CronFetch DEF CronPending, Cron!Sending, CronInv, CronShapes
        <3>3. CronPending' = {next}
            BY <2>1, <2>2, <3>2 DEF CronPending
        <3>4. \A m \in x3 \ x11 : x2[m] = Cron!Due(m)
            BY <3>1, <3>2 DEF CronInv, CronAgents
        <3>5. \A m : Cron!Due(m)' = Cron!Due(m)
            BY <2>1 DEF Cron!Due
        <3>6. \A m \in x3' \ x11' : x2'[m] = Cron!Due(m)' \/ m \in next.node
            BY <2>1, <2>2, <3>4, <3>5
        <3>7. QED
            BY <2>2, <3>3, <3>6 DEF CronAgents
    <2>5. Cron!NoDeadButton'
        BY <2>1 DEF CronInv, Cron!NoDeadButton
    <2>6. x9' \in BOOLEAN /\ x3' \subseteq Nodes /\ x10' \subseteq x3' /\ x11' \subseteq x3'
        BY <1>1, <2>1
    <2>7. QED
        BY <1>1, <1>2, <1>5, <2>1, <2>3, <2>4, <2>5, <2>6 DEF CronInv, Cron!TypeOK
<1>10. ASSUME NEW n \in Nodes, Cron!Disconnects(n) \/ Cron!FallsSilent(n) \/ Cron!RecordHeartbeat(n) PROVE CronInv'
    <2>1. /\ x3' \subseteq x3 /\ steps' \in 0..MaxSteps
          /\ UNCHANGED <<x1, x4, x5, x6, x7, x8, busy, calls, x9>>
        BY <1>1, <1>2, <1>10 DEF Cron!Disconnects, Cron!FallsSilent, Cron!RecordHeartbeat, Cron!form
    <2>2. /\ x2' \in [Nodes -> SUBSET (Tasks \X {"old", "typed"})]
          /\ x10' \subseteq x3' /\ x11' \subseteq x3' /\ x3' \ x11' \subseteq x3 \ x11
          /\ \A m \in x3' : x2'[m] = x2[m]
        BY <1>1, <1>10 DEF Cron!Disconnects, Cron!FallsSilent, Cron!RecordHeartbeat
    <2>3. CronPending' = CronPending /\ \A m : Cron!Due(m)' = Cron!Due(m)
        BY <2>1 DEF CronPending, Cron!Due
    <2>4. CronAgents'
        BY <2>1, <2>2, <2>3 DEF CronInv, CronAgents
    <2>5. CronShapes' /\ Cron!NoDeadButton'
        BY <2>1 DEF CronInv, CronShapes, Cron!NoDeadButton
    <2>6. QED
        BY <1>1, <1>5, <2>1, <2>2, <2>4, <2>5 DEF CronInv, Cron!TypeOK
<1>11. CASE Cron!FetchTasks
    <2>1. /\ Cron!Step /\ busy' = busy \cup {"load"} /\ calls' = calls \cup {Cron!Fetch}
          /\ UNCHANGED <<x1, x2, x3, x4, x5, x6, x7, x8, x9, x10, x11>>
        BY <1>11 DEF Cron!FetchTasks, Cron!agents, Cron!form
    <2>2. calls' \subseteq Cron!Calls /\ CronShapes' /\ CronAgents'
        BY <2>1, CronFetch, CronSends DEF Cron!Changing
    <2>3. Cron!NoDeadButton'
        BY <2>1, CronFetch DEF CronInv, Cron!NoDeadButton
    <2>4. busy' \subseteq {"load", "save"}
        BY <1>1, <2>1
    <2>5. QED
        BY <1>1, <1>2, <1>5, <2>1, <2>2, <2>3, <2>4 DEF CronInv, Cron!TypeOK
<1>12. ASSUME NEW c \in calls, Cron!FetchArrives(c) PROVE CronInv'
    <2>1. /\ c.kind = "load" \/ c.at = "reload"
          /\ x4' \in {x1, x4} /\ calls' = calls \ {c}
          /\ busy' = busy \ (IF c.kind = "save" THEN {"load", "save"} ELSE {"load"})
          /\ UNCHANGED <<x1, x2, x3, x5, x6, x7, x8, x9, steps, x10, x11>>
        BY <1>12 DEF Cron!FetchArrives, Cron!agents, Cron!form
    <2>2. CronPending' = CronPending
        BY <2>1 DEF CronPending, CronInv, CronShapes
    <2>3. CronAgents'
        BY <2>1, <2>2, CronAside
    <2>4. CronShapes'
        BY <2>1 DEF CronInv, CronShapes
    <2>5. Cron!NoDeadButton'
        BY <2>1 DEF CronInv, Cron!NoDeadButton
    <2>6. busy' \subseteq {"load", "save"} /\ calls' \subseteq Cron!Calls /\ x4' \in Cron!Configs
        BY <1>1, <2>1
    <2>7. QED
        BY <1>1, <1>5, <2>1, <2>3, <2>4, <2>5, <2>6 DEF CronInv, Cron!TypeOK
<1>13. CASE Cron!OpenCreateModal
    <2>1. /\ x5' = TRUE /\ x6' = [id |-> Cron!None, enabled |-> FALSE]
          /\ x7' = [text |-> "", nodes |-> Cron!FirstNode] /\ x8' = Nodes /\ Cron!Step
          /\ UNCHANGED <<x1, x2, x3, x4, busy, calls, x9, x10, x11>>
        BY <1>13 DEF Cron!OpenCreateModal, Cron!agents
    <2>2. x7' \in [text : {"", "old", "typed"}, nodes : SUBSET Nodes]
        BY <2>1 DEF Cron!FirstNode
    <2>3. x6' \in [id : Tasks \cup {Cron!None}, enabled : BOOLEAN]
        BY <2>1
    <2>4. QED
        BY <1>2, <2>1, <2>2, <2>3, CronPage
<1>14. ASSUME NEW t \in Tasks, Cron!OpenEditModal(t) PROVE CronInv'
    <2>1. /\ x4[t] # Cron!NoTask /\ x5' = TRUE /\ x6' = [id |-> t, enabled |-> x4[t].enabled]
          /\ x7' = [text |-> x4[t].text, nodes |-> x4[t].nodes] /\ x8' = Nodes /\ Cron!Step
          /\ UNCHANGED <<x1, x2, x3, x4, busy, calls, x9, x10, x11>>
        BY <1>14 DEF Cron!OpenEditModal, Cron!agents, Cron!Listed
    <2>2. /\ x4[t].enabled \in BOOLEAN /\ x4[t].text \in {"old", "typed"}
          /\ x4[t].nodes \subseteq Nodes
        BY <1>1, <2>1 DEF Cron!Configs, Cron!TaskRecords
    <2>3. x7' \in [text : {"", "old", "typed"}, nodes : SUBSET Nodes]
        BY <2>1, <2>2
    <2>4. x6' \in [id : Tasks \cup {Cron!None}, enabled : BOOLEAN]
        BY <2>1, <2>2
    <2>5. QED
        BY <1>2, <2>1, <2>3, <2>4, CronPage
<1>15. CASE Cron!CloseModal
    BY <1>1, <1>15, CronPage, CronTyped DEF Cron!CloseModal, Cron!agents, CronInv
<1>16. CASE Cron!EditForm
    <2>1. /\ x7' = [x7 EXCEPT !.text = "typed"]
          /\ UNCHANGED <<x1, x2, x3, x4, x5, x6, x8, busy, calls, x9, steps, x10, x11>>
        BY <1>16 DEF Cron!EditForm, Cron!agents
    <2>2. x7' \in [text : {"", "old", "typed"}, nodes : SUBSET Nodes]
        BY <2>1, CronTyped DEF CronInv
    <2>3. QED
        BY <1>1, <2>1, <2>2, CronPage, CronTyped DEF CronInv
<1>17. ASSUME NEW left \in SUBSET Nodes, Cron!FilterNodes(left) PROVE CronInv'
    BY <1>1, <1>17, CronPage, CronTyped DEF Cron!FilterNodes, Cron!agents, CronInv
<1>18. ASSUME NEW ns \in SUBSET Nodes, Cron!SelectNodes(ns) PROVE CronInv'
    <2>1. /\ x7' = [x7 EXCEPT !.nodes = ns]
          /\ UNCHANGED <<x1, x2, x3, x4, x5, x6, x8, busy, calls, x9, steps, x10, x11>>
        BY <1>18 DEF Cron!SelectNodes, Cron!agents
    <2>2. x7' \in [text : {"", "old", "typed"}, nodes : SUBSET Nodes]
        BY <2>1, CronTyped DEF CronInv
    <2>3. QED
        BY <1>1, <2>1, <2>2, CronPage, CronTyped DEF CronInv
<1>19. ASSUME \/ \E n \in Nodes : Cron!ToggleNodeSelection(n)
              \/ Cron!SelectFiltered \/ Cron!ClearFiltered
       PROVE  CronInv'
    <2>1. x7.nodes \subseteq Nodes /\ x8 \subseteq Nodes
        BY CronTyped DEF CronInv
    <2>2. \E ns \in SUBSET Nodes : Cron!SelectNodes(ns)
        BY <1>19, <2>1 DEF Cron!ToggleNodeSelection, Cron!SelectFiltered, Cron!ClearFiltered
    <2>3. QED
        BY <1>18, <2>2
<1>20. CASE Cron!HandleSave
    <2> DEFINE sent == [enabled |-> x6.id = Cron!None \/ x6.enabled,
                        nodes |-> x7.nodes, text |-> x7.text]
    <2>1. /\ Cron!Step /\ x7.text # "" /\ x7.nodes # {}
          /\ busy' = busy \cup {"save"} /\ calls' = calls \cup {Cron!Call("save", x6.id, sent)}
          /\ UNCHANGED <<x1, x2, x3, x4, x5, x6, x7, x8, x9, x10, x11>>
        BY <1>20 DEF Cron!HandleSave, Cron!agents, Cron!form
    <2>2. sent \in Cron!TaskRecords /\ sent # Cron!NoTask
        <3>1. x7.text \in {"old", "typed"} /\ x7.nodes \in (SUBSET Nodes) \ {{}}
            <4>1. x7.text \in {"", "old", "typed"} /\ x7.nodes \in SUBSET Nodes
                BY CronTyped DEF CronInv
            <4>2. QED
                BY <2>1, <4>1
        <3>2. (x6.id = Cron!None \/ x6.enabled) \in BOOLEAN
            OBVIOUS
        <3>3. QED
            BY <3>1, <3>2 DEF Cron!TaskRecords, Cron!NoTask
    <2>3. x6.id \in Tasks \cup {Cron!None}
        BY CronTyped DEF CronInv
    <2> HIDE DEF sent
    <2>4. /\ Cron!Call("save", x6.id, sent) \in Cron!Calls
          /\ Cron!Call("save", x6.id, sent).kind = "save" /\ Cron!Call("save", x6.id, sent).at = "sent"
          /\ Cron!Call("save", x6.id, sent).node = Nodes /\ Cron!Call("save", x6.id, sent).sent = sent
        BY <2>2, <2>3, CronCall
    <2>5. calls' \subseteq Cron!Calls /\ CronShapes' /\ CronAgents'
        BY <2>1, <2>2, <2>4, CronSends
    <2>6. Cron!NoDeadButton'
        BY <2>1, <2>4 DEF CronInv, Cron!NoDeadButton
    <2>7. busy' \subseteq {"load", "save"}
        BY <1>1, <2>1
    <2>8. QED
        BY <1>1, <1>2, <1>5, <2>1, <2>5, <2>6, <2>7 DEF CronInv, Cron!TypeOK
<1>21. ASSUME NEW t \in Tasks, Cron!HandleDelete(t) \/ Cron!HandleToggle(t) PROVE CronInv'
    <2>1. PICK kind \in {"delete", "toggle"} : calls' = calls \cup {Cron!Call(kind, t, Cron!NoTask)}
        BY <1>21 DEF Cron!HandleDelete, Cron!HandleToggle, Cron!agents
    <2>2. /\ Cron!Step
          /\ UNCHANGED <<x1, x2, x3, x4, x5, x6, x7, x8, busy, x9, x10, x11>>
        BY <1>21 DEF Cron!HandleDelete, Cron!HandleToggle, Cron!agents, Cron!form
    <2>3. /\ Cron!Call(kind, t, Cron!NoTask) \in Cron!Calls /\ Cron!Call(kind, t, Cron!NoTask).kind = kind
          /\ Cron!Call(kind, t, Cron!NoTask).at = "sent" /\ Cron!Call(kind, t, Cron!NoTask).node = Nodes
          /\ Cron!Call(kind, t, Cron!NoTask).task = t
        BY CronCall DEF Cron!TaskRecords
    <2>4. calls' \subseteq Cron!Calls /\ CronShapes' /\ CronAgents'
        BY <2>1, <2>2, <2>3, CronSends
    <2>5. Cron!NoDeadButton'
        BY <2>1, <2>2 DEF CronInv, Cron!NoDeadButton
    <2>6. QED
        BY <1>1, <1>2, <1>5, <2>2, <2>4, <2>5 DEF CronInv, Cron!TypeOK
<1>22. ASSUME NEW c \in calls, Cron!Arrives(c) PROVE CronInv'
    <2> DEFINE next == [c EXCEPT !.at = "reload", !.specs = c.specs]
    <2>1. /\ c.at = "pushed" /\ x5' = (IF c.kind = "save" THEN FALSE ELSE x5)
          /\ busy' = busy \cup {"load"}
          /\ calls' = (calls \ {c}) \cup {[c EXCEPT !.at = "reload"]}
          /\ UNCHANGED <<x1, x2, x3, x4, x6, x7, x8, x9, steps, x10, x11>>
        BY <1>22 DEF Cron!Arrives, Cron!agents
    <2>2. /\ calls' = (calls \ {c}) \cup {next}
          /\ next \in Cron!Calls /\ next.kind = c.kind /\ next.task = c.task /\ next.sent = c.sent
          /\ next.node = c.node /\ next.at = "reload"
        <3>1. c \in Cron!Calls /\ c.specs \in Cron!Configs
            BY <1>4
        <3>2. QED
            BY <2>1, <3>1 DEF Cron!Calls
    <2> HIDE DEF next
    <2>3. calls' \subseteq Cron!Calls /\ CronShapes' /\ c.kind # "load"
        <3>1. c.kind # "load"
            BY <2>1 DEF CronInv, CronShapes
        <3>2. QED
            BY <2>2, <3>1, CronGoesOn
    <2>4. CronPending' = CronPending
        BY <2>1, <2>2, <2>3 DEF CronPending
    <2>5. CronAgents'
        BY <2>1, <2>4, CronAside
    <2>6. Cron!NoDeadButton'
        BY <2>1, <2>2, <2>3 DEF CronInv, Cron!NoDeadButton
    <2>7. x5' \in BOOLEAN /\ busy' \subseteq {"load", "save"}
        BY <1>1, <2>1, CronTyped DEF CronInv
    <2>8. QED
        BY <1>1, <2>1, <2>3, <2>5, <2>6, <2>7, CronTyped DEF CronInv, Cron!TypeOK
<1>23. ASSUME NEW c \in calls, Cron!Fails(c) PROVE CronInv'
    <2>1. /\ c.kind \in Cron!Changing /\ c.at \in {"sent", "pushed"} /\ calls' = calls \ {c}
          /\ busy' = (IF c.kind = "save" THEN busy \ {"save"} ELSE busy)
          /\ UNCHANGED <<x1, x2, x3, x4, x5, x6, x7, x8, x9, steps, x10, x11>>
        BY <1>23 DEF Cron!Fails, Cron!Ends, Cron!agents, Cron!form
    <2>2. CronPending' = CronPending
        BY <2>1 DEF CronPending
    <2>3. CronAgents'
        BY <2>1, <2>2, CronAside
    <2>4. CronShapes'
        BY <2>1 DEF CronInv, CronShapes
    <2>5. Cron!NoDeadButton'
        BY <2>1 DEF CronInv, Cron!NoDeadButton, Cron!Changing
    <2>6. busy' \subseteq {"load", "save"} /\ calls' \subseteq Cron!Calls
        BY <1>1, <2>1
    <2>7. QED
        BY <1>1, <1>5, <2>1, <2>3, <2>4, <2>5, <2>6 DEF CronInv, Cron!TypeOK
<1>24. ASSUME NEW c \in calls, Cron!NotSaved(c) PROVE CronInv'
    <2>1. /\ calls' = calls \ {c} /\ x11' = x3
          /\ busy' = (IF c.kind = "save" THEN busy \ {"save"} ELSE busy)
          /\ UNCHANGED <<x2, x3, x4, x5, x6, x7, x8, steps, x10>>
        BY <1>24 DEF Cron!NotSaved, Cron!Ends, Cron!form
    <2>2. /\ c.at = "sent" /\ c.kind \in Cron!Changing
          /\ x1' \in Cron!Configs /\ x9' = (x9 \/ Cron!Sending(c))
        BY <1>24, CronChange DEF Cron!NotSaved
    <2>3. CronAgents'
        <3> SUFFICES ASSUME ~x9' PROVE CronAgents'
            BY DEF CronAgents
        <3>1. ~x9 /\ ~Cron!Sending(c)
            BY <2>2
        <3>2. CronPending = {}
            BY <2>2, <3>1 DEF CronPending, Cron!Sending, CronInv, CronShapes
        <3>3. CronPending' = {} /\ x3' \ x11' = {}
            BY <2>1, <3>2 DEF CronPending
        <3>4. QED
            BY <3>3 DEF CronAgents
    <2>4. CronShapes'
        BY <2>1 DEF CronInv, CronShapes
    <2>5. Cron!NoDeadButton'
        BY <2>1, <2>2 DEF CronInv, Cron!NoDeadButton, Cron!Changing
    <2>6. busy' \subseteq {"load", "save"} /\ calls' \subseteq Cron!Calls /\ x9' \in BOOLEAN
        BY <1>1, <2>1, <2>2
    <2>7. x11' \subseteq x3' /\ x10' \subseteq x3'
        BY <1>1, <2>1
    <2>8. QED
        BY <1>1, <1>5, <2>1, <2>2, <2>3, <2>4, <2>5, <2>6, <2>7 DEF CronInv, Cron!TypeOK
<1>25. CASE UNCHANGED Cron!vars
    BY <1>1, <1>25, CronPage, CronTyped DEF Cron!vars, CronInv
<1>26. QED
    BY <1>6, <1>7, <1>8, <1>9, <1>10, <1>11, <1>12, <1>13, <1>14, <1>15, <1>16, <1>17, <1>19,
       <1>20, <1>21, <1>22, <1>23, <1>24, <1>25 DEF Cron!Next

(* From the invariant to what is stated of the screen.                     *)
LEMMA CronShows == ASSUME CronInv PROVE Cron!TypeOK /\ Cron!NoDeadButton /\ Cron!AgentsCurrent
BY DEF CronInv, CronAgents, CronPending, Cron!AgentsCurrent
-----------------------------------------------------------------------------
(***************************************************************************)
(* NodesView.  x1 is the server, x2 the address, x3 what is typed, x4 its  *)
(* timer, x5 the tag of the mesh.                                          *)
(***************************************************************************)
ListInv == List!TypeOK /\ List!AddressOfList /\ List!NoDeadButton

(* The address with one or more parameters replaced is an address.         *)
LEMMA ListAddress ==
    ASSUME NEW u \in List!Urls
    PROVE  /\ u.search \in Words \cup {""} /\ u.tag \in Tags \cup List!Special \cup {"All"}
           /\ \A w \in Words \cup {""} : [u EXCEPT !.search = w] \in List!Urls
           /\ \A t \in Tags \cup List!Special \cup {"All"} :
                  [u EXCEPT !.tag = t] \in List!Urls /\ [u EXCEPT !.tag = t].search = u.search
           /\ \A b \in Blocks \cup {"All"} : [u EXCEPT !.block = b] \in List!Urls
<1>1. u.search \in Words \cup {""} /\ u.tag \in Tags \cup List!Special \cup {"All"}
    BY DEF List!Urls
<1>2. \A w \in Words \cup {""} : [u EXCEPT !.search = w] \in List!Urls
    BY DEF List!Urls
<1>3. \A t \in Tags \cup List!Special \cup {"All"} :
          [u EXCEPT !.tag = t] \in List!Urls /\ [u EXCEPT !.tag = t].search = u.search
    BY DEF List!Urls
<1>4. \A b \in Blocks \cup {"All"} : [u EXCEPT !.block = b] \in List!Urls
    BY DEF List!Urls
<1>5. QED
    BY <1>1, <1>2, <1>3, <1>4

(* The tags the mesh knows.                                                *)
LEMMA ListTags ==
    ASSUME NEW top \in List!Topologies
    PROVE  "All" \in List!UniqueTags(top) /\ List!UniqueTags(top) \subseteq Tags \cup {"All"}
<1>1. \A n \in Nodes : top[n].tags \subseteq Tags
    BY DEF List!Topologies
<1>2. "All" \in List!UniqueTags(top)
    BY Zenon DEF List!UniqueTags
<1>3. ASSUME NEW t \in List!UniqueTags(top) PROVE t \in Tags \cup {"All"}
    <2>1. t = "All" \/ \E n \in Nodes : t \in top[n].tags
        BY Zenon DEF List!UniqueTags
    <2>2. QED
        BY <1>1, <2>1
<1>4. QED
    BY <1>2, <1>3

(* The tag the mesh may settle on for an address, or alternate between.    *)
LEMMA ListSelects ==
    ASSUME NEW u \in List!Urls, NEW top \in List!Topologies, NEW t \in Tags \cup {"All"},
           NEW r \in List!SelectedTags(u, t, top)
    PROVE  /\ r \in Tags \cup {"All"}
           /\ u.tag \in List!UniqueTags(top) \ List!Special => r = u.tag
           /\ r \in List!UniqueTags(top) \cup {u.tag}
<1>1. "All" \in List!UniqueTags(top) /\ List!UniqueTags(top) \subseteq Tags \cup {"All"}
    BY ListTags
<1>2. u.tag \in Tags \cup List!Special \cup {"All"}
    BY ListAddress
<1>3. CASE u.tag \in List!Special
    BY <1>1, <1>3 DEF List!SelectedTags
<1>4. CASE u.tag \notin List!Special /\ u.tag \in List!UniqueTags(top)
    <2>1. r = u.tag
        BY <1>4 DEF List!SelectedTags
    <2>2. QED
        BY <1>2, <1>4, <2>1
<1>5. CASE u.tag \notin List!Special /\ u.tag \notin List!UniqueTags(top)
    <2>1. r \in {u.tag, "All"}
        BY <1>5 DEF List!SelectedTags
    <2>2. QED
        BY <1>1, <1>2, <1>5, <2>1
<1>6. QED
    BY <1>3, <1>4, <1>5

(* It holds when the screen is opened.                                      *)
LEMMA ListInit == ASSUME List!Init PROVE ListInv
<1>0. calls = 0 /\ calls \in 0..2 /\ steps \in 0..MaxSteps
    <2>1. calls = 0 /\ steps = 0
        BY DEF List!Init
    <2>2. QED
        BY <2>1
<1>1. PICK w \in Words \cup {""}, t \in Tags \cup List!Special \cup {"All"} :
          x2 = [search |-> w, tag |-> t, block |-> "All"]
    BY DEF List!Init
<1>2. x2 \in List!Urls
    BY <1>1 DEF List!Urls
<1>3. x1 \in List!Topologies
    BY DEF List!Init
<1>4. PICK t2 \in List!UniqueTags(x1) : x5 \in List!SelectedTags(x2, t2, x1)
    BY DEF List!Init
<1>5. t2 \in Tags \cup {"All"}
    BY <1>3, ListTags
<1>6. /\ x5 \in Tags \cup {"All"}
      /\ x2.tag \in List!UniqueTags(x1) \ List!Special => x5 = x2.tag
      /\ x5 \in List!UniqueTags(x1) \cup {x2.tag}
    BY <1>2, <1>3, <1>4, <1>5, ListSelects
<1>7. x3 \in List!Texts /\ x4 = TRUE /\ busy = {}
    BY <1>1 DEF List!Init, List!Texts
<1>8. List!TypeOK
    BY <1>0, <1>2, <1>3, <1>6, <1>7 DEF List!TypeOK
<1>9. QED
    BY <1>0, <1>6, <1>7, <1>8 DEF ListInv, List!AddressOfList, List!NoDeadButton

(* An address that is followed takes the search and the tag with it.       *)
LEMMA ListFollows ==
    ASSUME ListInv, NEW u \in List!Urls, List!Follow(u, x3, x5),
           UNCHANGED <<x1, busy, calls>>, steps' \in 0..MaxSteps
    PROVE  ListInv'
<1>1. /\ x2' = u /\ x4' = TRUE
      /\ x3' = IF u.search # x2.search THEN [word |-> u.search, blanks |-> FALSE] ELSE x3
      /\ x5' \in List!SelectedTags(u, x5, x1)
    BY DEF List!Follow
<1>2. x3' \in List!Texts
    BY <1>1, ListAddress DEF ListInv, List!TypeOK, List!Texts
<1>3. x1 \in List!Topologies /\ x5 \in Tags \cup {"All"}
    BY DEF ListInv, List!TypeOK
<1>4. PICK r : r = x5'
    OBVIOUS
<1>5. /\ r \in Tags \cup {"All"}
      /\ u.tag \in List!UniqueTags(x1) \ List!Special => r = u.tag
      /\ r \in List!UniqueTags(x1) \cup {u.tag}
    BY <1>1, <1>3, <1>4, ListSelects
<1>6. List!TypeOK'
    BY <1>1, <1>2, <1>4, <1>5 DEF ListInv, List!TypeOK
<1>7. List!UniqueTags(x1)' = List!UniqueTags(x1)
    BY DEF List!UniqueTags
<1>8. List!AddressOfList'
    BY <1>1, <1>4, <1>5, <1>7 DEF List!AddressOfList
<1>9. QED
    BY <1>6, <1>8 DEF ListInv, List!NoDeadButton

(* What the list is of stays as it is.                                     *)
LEMMA ListKeeps ==
    ASSUME ListInv, UNCHANGED <<x1, x2, x5>>, x3' \in List!Texts, x4' \in BOOLEAN,
           ~x4' => x3'.word = x2.search,
           busy' \subseteq {"refresh"}, calls' \in 0..2, steps' \in 0..MaxSteps, busy' = {} <=> calls' = 0
    PROVE  ListInv'
<1>1. List!UniqueTags(x1)' = List!UniqueTags(x1)
    BY DEF List!UniqueTags
<1>2. List!AddressOfList'
    BY <1>1 DEF ListInv, List!AddressOfList
<1>3. List!TypeOK'
    BY DEF ListInv, List!TypeOK
<1>4. QED
    BY <1>2, <1>3 DEF ListInv, List!NoDeadButton

(* Every step of the screen keeps it.                                       *)
LEMMA ListStep == ASSUME ListInv, List!Next \/ UNCHANGED List!vars PROVE ListInv'
<1>1. /\ x2 \in List!Urls /\ x1 \in List!Topologies /\ x3 \in List!Texts /\ x4 \in BOOLEAN
      /\ steps \in 0..MaxSteps
      /\ x5 \in Tags \cup {"All"} /\ busy \subseteq {"refresh"} /\ calls \in 0..2
      /\ ~x4 => x3.word = x2.search
      /\ busy = {} <=> calls = 0
    BY DEF ListInv, List!TypeOK, List!AddressOfList, List!NoDeadButton
<1>2. ASSUME List!Step PROVE steps' \in 0..MaxSteps
    BY <1>1, <1>2 DEF List!Step
<1>3. ASSUME NEW t \in List!Texts, List!EditSearch(t) PROVE ListInv'
    BY <1>1, <1>3, ListKeeps DEF List!EditSearch
<1>4. CASE List!DebounceEnds
    <2>1. CASE x3.word = x2.search
        <3>1. x4' = FALSE /\ UNCHANGED <<x1, x2, x3, x5, busy, calls, steps>>
            BY <1>4, <2>1 DEF List!DebounceEnds
        <3>2. QED
            BY <1>1, <2>1, <3>1, ListKeeps
    <2>2. CASE x3.word # x2.search
        <3>1. x3.word \in Words \cup {""}
            BY <1>1 DEF List!Texts
        <3>2. [x2 EXCEPT !.search = x3.word] \in List!Urls
            BY <1>1, <3>1, ListAddress
        <3>3. QED
            BY <1>1, <1>4, <2>2, <3>2, ListFollows DEF List!DebounceEnds
    <2>3. QED
        BY <2>1, <2>2
<1>5. ASSUME NEW t \in Tags \cup List!Special \cup {"All"}, List!HandleSelectTag(t) PROVE ListInv'
    BY <1>1, <1>5, ListAddress, ListFollows DEF List!HandleSelectTag
<1>6. ASSUME NEW b \in Blocks \cup {"All"}, List!HandleSelectBlock(b) PROVE ListInv'
    BY <1>1, <1>6, ListAddress, ListFollows DEF List!HandleSelectBlock
<1>7. CASE List!SetOtherParam
    BY <1>1, <1>2, <1>7, ListFollows DEF List!SetOtherParam
<1>8. CASE List!HandleClearFilters
    <2>1. /\ x2' = [x2 EXCEPT !.search = "", !.tag = "All", !.block = "All"] /\ x4' = TRUE
          /\ x3' = [word |-> "", blanks |-> FALSE] /\ x5' = "All"
          /\ UNCHANGED <<x1, busy, calls, steps>>
        BY <1>8 DEF List!HandleClearFilters
    <2>2. x2' \in List!Urls /\ x2'.tag = "All" /\ x3' \in List!Texts
        BY <1>1, <2>1 DEF List!Urls, List!Texts
    <2>3. List!AddressOfList'
        BY <2>1, <2>2 DEF List!AddressOfList
    <2>4. List!TypeOK'
        BY <1>1, <2>1, <2>2 DEF List!TypeOK
    <2>5. QED
        BY <1>1, <2>1, <2>3, <2>4 DEF ListInv, List!NoDeadButton
<1>9. CASE List!Alternates
    <2>1. /\ x2.tag \notin List!Special \cup List!UniqueTags(x1)
          /\ x5' \in {x2.tag, "All"} /\ UNCHANGED <<x1, x2, x3, x4, busy, calls, steps>>
        BY <1>9 DEF List!Alternates
    <2>2. List!UniqueTags(x1)' = List!UniqueTags(x1) /\ "All" \in List!UniqueTags(x1)
        <3>1. List!UniqueTags(x1)' = List!UniqueTags(x1)
            BY <2>1 DEF List!UniqueTags
        <3>2. QED
            BY <1>1, <3>1, ListTags
    <2>3. x2.tag \in Tags \cup {"All"}
        BY <1>1, <2>1, ListAddress
    <2>4. List!AddressOfList'
        BY <1>1, <2>1, <2>2 DEF List!AddressOfList
    <2>5. List!TypeOK'
        BY <1>1, <2>1, <2>3 DEF List!TypeOK
    <2>6. QED
        BY <1>1, <2>1, <2>4, <2>5 DEF ListInv, List!NoDeadButton
<1>10. CASE List!HandleRefresh
    <2>1. /\ List!Step /\ busy' = {"refresh"} /\ calls' = 2 /\ UNCHANGED <<x1, x2, x3, x4, x5>>
        BY <1>10 DEF List!HandleRefresh
    <2>2. calls' \in 0..2 /\ busy' # {} /\ calls' # 0
        BY <2>1
    <2>3. QED
        BY <1>1, <1>2, <2>1, <2>2, ListKeeps
<1>11. CASE List!RefreshArrives
    <2>1. /\ calls > 0 /\ calls' = calls - 1 /\ busy' = (IF calls = 1 THEN {} ELSE busy)
          /\ UNCHANGED <<x1, x2, x3, x4, x5, steps>>
        BY <1>11 DEF List!RefreshArrives
    <2>2. calls' \in 0..2 /\ (busy' = {} <=> calls' = 0)
        <3>1. calls \in {1, 2} /\ busy # {}
            BY <1>1, <2>1
        <3>2. QED
            BY <2>1, <3>1
    <2>3. busy' \subseteq {"refresh"}
        BY <1>1, <2>1
    <2>4. QED
        BY <1>1, <2>1, <2>2, <2>3, ListKeeps
<1>12. ASSUME NEW n \in Nodes, NEW tags \in SUBSET Tags, NEW block \in Blocks \cup {"none"},
              NEW state \in {"fine", "offline", "unhealthy", "external"}, List!Change(n, tags, block, state)
       PROVE  ListInv'
    <2>1. /\ x1' = [x1 EXCEPT ![n] = [x1[n] EXCEPT !.tags = tags, !.block = block,
                                                               !.state = state]]
          /\ x5' \in List!SelectedTags(x2, x5, x1')
          /\ List!Step /\ UNCHANGED <<x2, x3, x4, busy, calls>>
        BY <1>1, <1>12 DEF List!Change
    <2>2. x1' \in List!Topologies
        BY <1>1, <2>1 DEF List!Topologies
    <2>3. PICK r, top : r = x5' /\ top = x1'
        OBVIOUS
    <2>4. /\ r \in Tags \cup {"All"}
          /\ x2.tag \in List!UniqueTags(top) \ List!Special => r = x2.tag
          /\ r \in List!UniqueTags(top) \cup {x2.tag}
        BY <1>1, <2>1, <2>2, <2>3, ListSelects
    <2>5. List!UniqueTags(x1)' = List!UniqueTags(top)
        BY <2>3 DEF List!UniqueTags
    <2>6. List!AddressOfList'
        BY <1>1, <2>1, <2>3, <2>4, <2>5 DEF List!AddressOfList
    <2>7. List!TypeOK'
        BY <1>1, <1>2, <2>1, <2>2, <2>3, <2>4 DEF List!TypeOK
    <2>8. QED
        BY <1>1, <2>1, <2>6, <2>7 DEF ListInv, List!NoDeadButton
<1>13. ASSUME NEW w \in Words \cup {""}, NEW t \in Tags \cup List!Special \cup {"All"},
              NEW b \in Blocks \cup {"All"}, List!Navigate(w, t, b)
       PROVE  ListInv'
    <2>1. [x2 EXCEPT !.search = w, !.tag = t, !.block = b] \in List!Urls
        BY <1>1 DEF List!Urls
    <2>2. QED
        BY <1>2, <1>13, <2>1, ListFollows DEF List!Navigate
<1>14. CASE UNCHANGED List!vars
    BY <1>1, <1>14, ListKeeps DEF List!vars
<1>15. QED
    BY <1>3, <1>4, <1>5, <1>6, <1>7, <1>8, <1>9, <1>10, <1>11, <1>12, <1>13, <1>14 DEF List!Next

(* From the invariant to what is stated of the screen.                     *)
LEMMA ListShows ==
    ASSUME ListInv PROVE List!TypeOK /\ List!NoDeadButton /\ List!NothingHidden /\ List!AddressOfList
<1>1. List!NothingHidden
    BY DEF List!NothingHidden, List!IsFiltering, List!FilteredNodes, List!MatchTag, List!MatchBlock, List!MatchSearch, List!Special
<1>2. QED
    BY <1>1 DEF ListInv
-----------------------------------------------------------------------------
(***************************************************************************)
(* LookingGlass.  x1 is the server, x2 the tasks as loaded, x3 the         *)
(* address, x4 the nodes it was last asked for, x5 the nodes selected, x6  *)
(* the task, x7 its parameter and command, x8 the tag, x9 the results, x10 *)
(* to x12 the editor, x13 what changed since the effects ran, x14 what the *)
(* selection should settle on, x15 the renderings the effects caused.      *)
(***************************************************************************)
USE NamesAssumption, ChecksAssumption

(* Nothing is left to do: the address, the selection, and the nodes noted  *)
(* are those chosen.                                                       *)
GlassRest ==
    /\ x5 = x14 /\ x4 = x14 /\ x3.nodes = x14 /\ x14 \subseteq x1.nodes
    /\ x3.tab \notin Glass!Selecting => x14 = {}

(* The address is behind; the selection is; a task was run from its        *)
(* schedule; an address was followed; the nodes are forgotten.             *)
GlassBehind ==
    /\ x3.tab \in Glass!Selecting /\ x5 = x14 /\ x14 \subseteq x1.nodes /\ Glass!NamedNodes = x4
GlassAhead ==
    /\ x3.tab \in Glass!Selecting /\ x4 = x5 /\ x3.nodes = x5 /\ x14 = Glass!NamedNodes
GlassExecutes ==
    /\ x3.tab \in Glass!Selecting /\ x3.nodes = {} /\ x4 = {} /\ x14 = x5 \cap x1.nodes
GlassFollows ==
    /\ x3.tab \in Glass!Selecting /\ x14 = Glass!NamedNodes /\ x5 \subseteq x1.nodes
    /\ x4 = x5 \/ (x4 = Glass!Unset /\ x5 = {})
GlassForgets ==
    /\ x3.tab \notin Glass!Selecting /\ x3.nodes = {} /\ x14 = {} /\ (x4 = {} => x5 = {})

(* How many renderings are left; before there is a topology there are none. *)
GlassSettles ==
    /\ x1.nodes = {} => x4 = Glass!Unset /\ x5 = {} /\ x14 = x3.nodes /\ x15 = 0
    /\ x1.nodes # {} =>
           \/ GlassRest /\ x15 <= 3
           \/ x13 # {} /\ GlassBehind /\ x15 <= 2
           \/ x13 # {} /\ GlassAhead /\ x15 <= 1
           \/ x13 # {} /\ (GlassExecutes \/ GlassFollows \/ GlassForgets) /\ x15 = 0

LEMMA GlassEffects ==
    ASSUME GlassSettles, x15 \in Nat, Glass!Effects, x3 \in Glass!AnyUrl, Glass!NoNodes(x3),
           x5 \subseteq Nodes, x1.nodes \subseteq Nodes, x4 = Glass!Unset \/ x4 \subseteq Nodes
    PROVE  GlassSettles' /\ x15' \in Nat
<1>1. /\ x4' = (IF Glass!Writes THEN x5 ELSE IF Glass!Takes THEN Glass!NamedNodes ELSE x4)
      /\ x5' = (IF Glass!Takes THEN Glass!NamedNodes ELSE x5)
      /\ x3' = (IF Glass!Writes THEN [x3 EXCEPT !.nodes = x5] ELSE x3)
      /\ x13 # {}
      /\ x13' = (IF x5' # x5 THEN {"nodes"} ELSE {})
                    \cup (IF x3' # x3 THEN {"url"} ELSE {})
      /\ x15' = (IF x13' = {} THEN x15 ELSE x15 + 1)
      /\ x1' = x1 /\ x14' = x14
    BY DEF Glass!Effects, Glass!Noted
<1>2. /\ x3'.nodes = (IF Glass!Writes THEN x5 ELSE x3.nodes) /\ x3'.tab = x3.tab
      /\ x3.tab \in Glass!Selecting \/ x3.nodes = {}
    BY <1>1 DEF Glass!AnyUrl, Glass!NoNodes
<1>3. x13' = {} => x5' = x5 /\ x3'.nodes = x3.nodes
    BY <1>1
<1>4. Glass!NamedNodes = x3.nodes \cap x1.nodes /\ Glass!NamedNodes # Glass!Unset /\ Glass!Unset # {}
    BY DEF Glass!NamedNodes, Glass!Unset
<1>5. CASE x1.nodes = {}
    <2>1. x4 = Glass!Unset /\ x5 = {} /\ x14 = x3.nodes /\ x15 = 0
        BY <1>5 DEF GlassSettles
    <2>2. ~Glass!Takes /\ ~Glass!Writes
        BY <1>5, <2>1 DEF Glass!Takes, Glass!Writes
    <2>3. UNCHANGED <<x4, x5, x3>> /\ x13' = {}
        BY <1>1, <2>2
    <2>4. QED
        BY <1>1, <1>5, <2>1, <2>3 DEF GlassSettles
<1>6. CASE x1.nodes # {}
    <2>1. /\ Glass!Takes <=> Glass!NamedNodes # x4
          /\ Glass!Writes <=> x3.tab \in Glass!Selecting /\ x3.nodes # x5
        BY <1>6 DEF Glass!Takes, Glass!Writes
    <2>2. CASE GlassRest
        <3>1. ~Glass!Takes /\ ~Glass!Writes
            BY <1>2, <1>4, <2>1, <2>2 DEF GlassRest
        <3>2. UNCHANGED <<x4, x5, x3>> /\ x13' = {}
            BY <1>1, <3>1
        <3>3. GlassRest'
            BY <1>1, <2>2, <3>2 DEF GlassRest
        <3>4. x15 <= 3
            BY <1>6 DEF GlassSettles
        <3>5. QED
            BY <1>1, <1>6, <3>2, <3>3, <3>4 DEF GlassSettles
    <2>3. CASE GlassBehind /\ x15 <= 2
        <3>1. GlassRest'
            BY <1>1, <1>2, <1>4, <2>1, <2>3 DEF GlassBehind, GlassRest
        <3>2. x15' <= 3 /\ x15' \in Nat
            BY <1>1, <2>3
        <3>3. QED
            BY <1>1, <1>6, <3>1, <3>2 DEF GlassSettles
    <2>4. CASE GlassAhead /\ x15 <= 1
        <3>1. GlassBehind' /\ (x13' = {} => GlassRest')
            BY <1>1, <1>2, <1>3, <1>4, <2>1, <2>4 DEF GlassAhead, GlassBehind, GlassRest, Glass!NamedNodes
        <3>2. x15' <= 2 /\ x15' <= 3 /\ x15' \in Nat
            BY <1>1, <2>4
        <3>3. QED
            BY <1>1, <1>6, <3>1, <3>2 DEF GlassSettles
    <2>5. CASE GlassExecutes /\ x15 = 0
        <3>1. GlassAhead' /\ (x13' = {} => GlassRest')
            BY <1>1, <1>2, <1>3, <1>4, <2>1, <2>5 DEF GlassExecutes, GlassAhead, GlassRest, Glass!NamedNodes
        <3>2. x15' <= 1 /\ x15' <= 3 /\ x15' \in Nat
            BY <1>1, <2>5
        <3>3. QED
            BY <1>1, <1>6, <3>1, <3>2 DEF GlassSettles
    <2>6. CASE GlassFollows /\ x15 = 0
        <3>1. GlassBehind' \/ GlassRest'
            BY <1>1, <1>2, <1>4, <2>1, <2>6 DEF GlassFollows, GlassBehind, GlassRest, Glass!NamedNodes
        <3>2. x13' = {} => GlassRest'
            BY <1>1, <1>2, <1>3, <1>4, <2>1, <2>6 DEF GlassFollows, GlassRest
        <3>3. x15' <= 2 /\ x15' <= 3 /\ x15' \in Nat
            BY <1>1, <2>6
        <3>4. QED
            BY <1>1, <1>6, <3>1, <3>2, <3>3 DEF GlassSettles
    <2>7. CASE GlassForgets /\ x15 = 0
        <3>1. GlassRest'
            BY <1>1, <1>2, <1>4, <2>1, <2>7 DEF GlassForgets, GlassRest
        <3>2. x15' <= 3 /\ x15' \in Nat
            BY <1>1, <2>7
        <3>3. QED
            BY <1>1, <1>6, <3>1, <3>2 DEF GlassSettles
    <2>8. QED
        BY <1>6, <2>2, <2>3, <2>4, <2>5, <2>6, <2>7 DEF GlassSettles
<1>7. QED
    BY <1>5, <1>6

(* What a request carries.                                                 *)
GlassShapes ==
    \A c \in calls :
        /\ c.kind = "run" => c.nodes # {}
        /\ c.kind \in {"save", "reload"} => c.task \in CustomChecks \cup {Glass!NoTask}
        /\ c.kind = "delete" => c.task \in CustomChecks

GlassInv == Glass!TypeOK /\ GlassShapes /\ Glass!ResultListed /\ Glass!NoDeadButton /\ GlassSettles

LEMMA GlassTyped ==
    ASSUME Glass!TypeOK
    PROVE  /\ x1 \in [nodes : SUBSET Nodes, tasks : SUBSET CustomChecks]
           /\ x1.nodes \subseteq Nodes /\ x1.tasks \subseteq CustomChecks
           /\ x2 \subseteq BuiltinChecks \cup CustomChecks /\ x3 \in Glass!AnyUrl /\ Glass!NoNodes(x3)
           /\ x4 = Glass!Unset \/ x4 \subseteq Nodes
           /\ x5 \subseteq Nodes /\ x6 \in BuiltinChecks \cup CustomChecks \cup {""}
           /\ x7 \in [value : Glass!Texts, cmd : Glass!Texts] /\ x8 \in {"All", "tag"}
           /\ x9 \in [nodes : SUBSET Nodes, active : Nodes \cup {""}]
           /\ x10 \in BOOLEAN /\ x11 \in CustomChecks \cup {Glass!NoTask}
           /\ x12 \in [of : CustomChecks \cup {Glass!NoTask}, typed : BOOLEAN]
           /\ busy \subseteq {"run", "save"} /\ calls \subseteq Glass!Requests
           /\ x13 \subseteq {"nodes", "url", "target", "catalog"}
           /\ x14 \subseteq Nodes /\ x15 \in Nat /\ steps \in 0..MaxSteps
BY DEF Glass!TypeOK

LEMMA GlassCall ==
    ASSUME NEW kind \in {"run", "save", "delete"}, NEW task \in Glass!AnyTask \cup {Glass!NoTask},
           NEW ns \in SUBSET Nodes, x6 \in Glass!AnyTask
    PROVE  /\ Glass!Call(kind, task, ns) \in Glass!Requests
           /\ Glass!Call(kind, task, ns).kind = kind /\ Glass!Call(kind, task, ns).task = task
           /\ Glass!Call(kind, task, ns).nodes = ns
BY DEF Glass!Call, Glass!Requests

(* It holds when the screen is opened.                                      *)
LEMMA GlassInit == ASSUME Glass!Init PROVE GlassInv
<1>1. /\ x1 \in [nodes : {{}, Nodes}, tasks : SUBSET CustomChecks] /\ x2 = {}
      /\ x3 \in [tab : Glass!Tabs, nodes : SUBSET Nodes, task : Glass!AnyTask, text : {"", "typed"}]
      /\ Glass!NoNodes(x3) /\ x4 = Glass!Unset /\ x5 = {}
      /\ x6 = (IF x3.task = "" THEN "ping" ELSE x3.task)
      /\ x8 = "All" /\ x10 = FALSE /\ x11 = Glass!NoTask /\ busy = {} /\ calls = {Glass!Loads}
      /\ x13 = {"nodes", "url"} /\ x14 = Glass!Managed(x3.nodes) /\ x15 = 0 /\ steps = 0
    BY DEF Glass!Init
<1>2. x3 \in Glass!AnyUrl /\ x3.nodes \subseteq Nodes /\ x3.task \in Glass!AnyTask
    BY <1>1 DEF Glass!AnyUrl, Glass!Texts
<1>3. x6 \in BuiltinChecks \cup CustomChecks \cup {""}
    BY <1>1, <1>2 DEF Glass!AnyTask
<1>4. x1 \in [nodes : SUBSET Nodes, tasks : SUBSET CustomChecks]
    BY <1>1
<1>5. x7 \in [value : Glass!Texts, cmd : Glass!Texts]
    <2>1. x3.text \in Glass!Texts
        BY <1>2 DEF Glass!AnyUrl
    <2>2. QED
        BY <2>1 DEF Glass!Init, Glass!Texts
<1>6. /\ x9 = [nodes |-> {}, active |-> ""] /\ x12 = [of |-> Glass!NoTask, typed |-> FALSE]
    BY DEF Glass!Init
<1>7. x9 \in [nodes : SUBSET Nodes, active : Nodes \cup {""}] /\ Glass!ResultListed
    BY <1>6 DEF Glass!ResultListed
<1>8. x12 \in [of : CustomChecks \cup {Glass!NoTask}, typed : BOOLEAN]
    BY <1>6
<1>9. calls \subseteq Glass!Requests /\ GlassShapes
    <2>1. Glass!Loads \in Glass!Requests /\ Glass!Loads.kind = "load"
        BY DEF Glass!Loads, Glass!Requests
    <2>2. QED
        BY <1>1, <2>1 DEF GlassShapes
<1>10. x14 \subseteq Nodes
    BY <1>1, <1>2 DEF Glass!Managed
<1>11. x15 \in Nat /\ steps \in 0..MaxSteps
    <2>1. x15 = 0 /\ steps = 0
        BY DEF Glass!Init
    <2>2. QED
        BY <2>1
<1>12. /\ x8 \in {"All", "tag"} /\ x10 \in BOOLEAN /\ x11 \in CustomChecks \cup {Glass!NoTask}
       /\ busy \subseteq {"run", "save"} /\ x13 \subseteq {"nodes", "url", "target", "catalog"}
    BY <1>1
<1>13. Glass!TypeOK
    BY <1>1, <1>2, <1>3, <1>4, <1>5, <1>7, <1>8, <1>9, <1>10, <1>11, <1>12 DEF Glass!TypeOK
<1>14. Glass!NoDeadButton
    BY <1>1 DEF Glass!NoDeadButton
<1>15. GlassSettles
    <2>1. x3.tab \notin Glass!Selecting => x3.nodes = {}
        BY <1>1 DEF Glass!NoNodes
    <2>2. CASE x1.nodes = {}
        BY <1>1, <2>2 DEF GlassSettles, Glass!Managed
    <2>3. CASE x1.nodes # {} /\ x3.tab \in Glass!Selecting
        BY <1>1, <2>3 DEF GlassSettles, GlassFollows, Glass!Managed, Glass!NamedNodes
    <2>4. CASE x1.nodes # {} /\ x3.tab \notin Glass!Selecting
        BY <1>1, <2>1, <2>4 DEF GlassSettles, GlassForgets, Glass!Managed, Glass!Unset
    <2>5. QED
        BY <2>2, <2>3, <2>4
<1>16. QED
    BY <1>7, <1>9, <1>13, <1>14, <1>15 DEF GlassInv

(* An event that concerns neither the nodes nor the address.               *)
LEMMA GlassQuiet ==
    ASSUME GlassSettles, x13 = {}, x15' = 0, x1'.nodes = x1.nodes,
           x3'.nodes = x3.nodes, x3'.tab = x3.tab, UNCHANGED <<x4, x5, x14>>
    PROVE  GlassSettles'
BY DEF GlassSettles, GlassRest

(* Before the event everything had come to rest.                           *)
LEMMA GlassRested ==
    ASSUME GlassSettles, x13 = {}, x1.nodes # {} PROVE GlassRest
BY DEF GlassSettles

(* An event is counted, and starts the count of renderings anew.           *)
LEMMA GlassCount ==
    ASSUME steps \in 0..MaxSteps, Glass!Event \/ Glass!Answered
    PROVE  x13 = {} /\ x15' = 0 /\ x15' \in Nat /\ steps' \in 0..MaxSteps
<1>1. x13 = {} /\ x15' = 0 /\ (steps' = steps \/ (steps < MaxSteps /\ steps' = steps + 1))
    BY DEF Glass!Event, Glass!Answered
<1>2. QED
    BY <1>1

(* Every step of the screen keeps it.                                       *)
LEMMA GlassStep == ASSUME GlassInv, Glass!Next \/ UNCHANGED Glass!vars PROVE GlassInv'
<1>1. /\ x1 \in [nodes : SUBSET Nodes, tasks : SUBSET CustomChecks]
      /\ x1.nodes \subseteq Nodes /\ x1.tasks \subseteq CustomChecks
      /\ x2 \subseteq BuiltinChecks \cup CustomChecks /\ x3 \in Glass!AnyUrl /\ Glass!NoNodes(x3)
      /\ x4 = Glass!Unset \/ x4 \subseteq Nodes
      /\ x5 \subseteq Nodes /\ x6 \in BuiltinChecks \cup CustomChecks \cup {""}
      /\ x7 \in [value : Glass!Texts, cmd : Glass!Texts] /\ x8 \in {"All", "tag"}
      /\ x9 \in [nodes : SUBSET Nodes, active : Nodes \cup {""}]
      /\ x10 \in BOOLEAN /\ x11 \in CustomChecks \cup {Glass!NoTask}
      /\ x12 \in [of : CustomChecks \cup {Glass!NoTask}, typed : BOOLEAN]
      /\ busy \subseteq {"run", "save"} /\ calls \subseteq Glass!Requests
      /\ x13 \subseteq {"nodes", "url", "target", "catalog"}
      /\ x14 \subseteq Nodes /\ x15 \in Nat /\ steps \in 0..MaxSteps
    BY GlassTyped DEF GlassInv
<1>2. ASSUME Glass!Event \/ Glass!Answered PROVE x13 = {} /\ x15' = 0 /\ x15' \in Nat /\ steps' \in 0..MaxSteps
    <2>1. steps \in 0..MaxSteps
        BY <1>1
    <2>2. QED
        BY <1>2, <2>1, GlassCount
<1>3. GlassShapes /\ Glass!ResultListed /\ Glass!NoDeadButton /\ GlassSettles
    BY DEF GlassInv
<1>4. x6 \in Glass!AnyTask /\ x3.nodes \subseteq Nodes /\ x3.tab \in Glass!Tabs /\ x3.text \in Glass!Texts
    BY <1>1 DEF Glass!AnyTask, Glass!AnyUrl
<1>5. ASSUME NEW u \in Glass!AnyUrl, Glass!Goes(u)
      PROVE  x3' = u /\ x13' \subseteq {"nodes", "url", "target", "catalog"} /\ x13' # {}
    BY <1>5 DEF Glass!Goes
<1>6. CASE Glass!Effects
    <2>1. GlassSettles' /\ x15' \in Nat
        BY <1>1, <1>3, <1>6, GlassEffects
    <2>2. /\ UNCHANGED <<x1, x2, x6, x8, x9, x10, x11, x12, busy, calls, x14, steps>>
          /\ x4' = Glass!Noted /\ x5' = (IF Glass!Takes THEN Glass!NamedNodes ELSE x5)
          /\ x3' = (IF Glass!Writes THEN [x3 EXCEPT !.nodes = x5] ELSE x3)
          /\ x13' = (IF x5' # x5 THEN {"nodes"} ELSE {})
                        \cup (IF x3' # x3 THEN {"url"} ELSE {})
        BY <1>6 DEF Glass!Effects, Glass!editor
    <2>3. Glass!NamedNodes \subseteq Nodes
        BY <1>1 DEF Glass!NamedNodes
    <2>4. (x4' = Glass!Unset \/ x4' \subseteq Nodes) /\ x5' \subseteq Nodes
        BY <1>1, <2>2, <2>3 DEF Glass!Noted
    <2>5. x3' \in Glass!AnyUrl /\ Glass!NoNodes(x3')
        <3>1. CASE Glass!Writes
            <4>1. x3' = [x3 EXCEPT !.nodes = x5] /\ x3.tab \in Glass!Selecting
                BY <2>2, <3>1 DEF Glass!Writes
            <4>2. x3' \in Glass!AnyUrl /\ x3'.tab = x3.tab
                BY <1>1, <4>1 DEF Glass!AnyUrl
            <4>3. QED
                BY <4>1, <4>2 DEF Glass!NoNodes
        <3>2. CASE ~Glass!Writes
            BY <1>1, <2>2, <3>2
        <3>3. QED
            BY <3>1, <3>2
    <2>6. x7' \in [value : Glass!Texts, cmd : Glass!Texts]
        <3>1. Glass!Defaults \in Glass!Texts
            BY <1>4 DEF Glass!Defaults, Glass!Texts
        <3>2. \E v, k \in Glass!Texts : x7' = [value |-> v, cmd |-> k]
            <4>1. x7.value \in Glass!Texts /\ x7.cmd \in Glass!Texts
                BY <1>1
            <4>2. QED
                BY <1>4, <1>6, <3>1, <4>1 DEF Glass!Effects
        <3>3. QED
            BY <3>2
    <2>7. x13' \subseteq {"nodes", "url", "target", "catalog"}
        BY <2>2
    <2>8. GlassShapes' /\ Glass!ResultListed' /\ Glass!NoDeadButton'
        BY <1>3, <2>2 DEF GlassShapes, Glass!ResultListed, Glass!NoDeadButton
    <2>9. QED
        BY <1>1, <2>1, <2>2, <2>4, <2>5, <2>6, <2>7, <2>8 DEF GlassInv, Glass!TypeOK
<1>7. ASSUME NEW ns \in SUBSET Nodes, Glass!Topology(ns) PROVE GlassInv'
    <2>1. /\ Glass!Event /\ ns # {} /\ x1' = [x1 EXCEPT !.nodes = ns]
          /\ x14' = x14 \cap ns /\ x13' = {"nodes"}
          /\ UNCHANGED <<x2, x3, x4, x5, x6, x7, x8, x9, x10, x11, x12, busy, calls>>
        BY <1>7 DEF Glass!Topology, Glass!editor
    <2>2. /\ x1' \in [nodes : SUBSET Nodes, tasks : SUBSET CustomChecks] /\ x1'.nodes = ns
        BY <1>1, <2>1
    <2>3. x14' \subseteq Nodes /\ x13' \subseteq {"nodes", "url", "target", "catalog"}
        BY <1>1, <2>1
    <2>4. GlassSettles'
        <3>1. x13 = {} /\ x15' = 0 /\ UNCHANGED <<x3, x4, x5>> /\ x13' # {}
            BY <1>2, <2>1
        <3>2. x3.tab \in Glass!Selecting \/ x3.nodes = {}
            BY <1>1 DEF Glass!NoNodes
        <3>3. CASE x1.nodes = {}
            <4>1. x4 = Glass!Unset /\ x5 = {} /\ x14 = x3.nodes
                BY <1>3, <3>3 DEF GlassSettles
            <4>2. GlassFollows' \/ GlassForgets'
                BY <2>1, <2>2, <3>1, <3>2, <4>1 DEF GlassFollows, GlassForgets, Glass!NamedNodes, Glass!Unset
            <4>3. QED
                BY <2>1, <2>2, <3>1, <4>2 DEF GlassSettles
        <3>4. CASE x1.nodes # {}
            <4>1. GlassRest
                BY <1>3, <3>1, <3>4, GlassRested
            <4>2. GlassAhead' \/ GlassRest'
                BY <2>1, <2>2, <3>1, <3>2, <4>1 DEF GlassRest, GlassAhead, Glass!NamedNodes
            <4>3. QED
                BY <2>1, <2>2, <3>1, <4>2 DEF GlassSettles
        <3>5. QED
            BY <3>3, <3>4
    <2>5. GlassShapes' /\ Glass!ResultListed' /\ Glass!NoDeadButton'
        BY <1>3, <2>1 DEF GlassShapes, Glass!ResultListed, Glass!NoDeadButton
    <2>6. QED
        BY <1>1, <1>2, <2>1, <2>2, <2>3, <2>4, <2>5 DEF GlassInv, Glass!TypeOK
<1>8. ASSUME NEW u \in Glass!AnyUrl, Glass!NoNodes(u), Glass!Navigate(u) PROVE GlassInv'
    <2>1. /\ Glass!Event /\ Glass!Goes(u) /\ x14' = Glass!Managed(u.nodes)
          /\ UNCHANGED <<x1, x2, x4, x5, x6, x7, x8, x9, x10, x11, x12, busy, calls>>
        BY <1>8 DEF Glass!Navigate, Glass!editor
    <2>2. x3' = u /\ x13' \subseteq {"nodes", "url", "target", "catalog"} /\ x13' # {}
        BY <1>5, <2>1
    <2>3. x14' \subseteq Nodes
        <3>1. u.nodes \subseteq Nodes
            BY DEF Glass!AnyUrl
        <3>2. QED
            BY <2>1, <3>1 DEF Glass!Managed
    <2>4. GlassSettles'
        <3>1. x13 = {} /\ x15' = 0 /\ UNCHANGED <<x1, x4, x5>>
            BY <1>2, <2>1
        <3>2. u.tab \in Glass!Selecting \/ u.nodes = {}
            BY <1>8 DEF Glass!NoNodes
        <3>3. CASE x1.nodes = {}
            BY <1>3, <2>1, <2>2, <3>1, <3>3 DEF GlassSettles, Glass!Managed
        <3>4. CASE x1.nodes # {}
            <4>1. GlassRest
                BY <1>3, <3>1, <3>4, GlassRested
            <4>2. GlassFollows' \/ GlassForgets'
                BY <2>1, <2>2, <3>1, <3>2, <3>4, <4>1
                   DEF GlassRest, GlassFollows, GlassForgets, Glass!NamedNodes, Glass!Managed
            <4>3. QED
                BY <2>2, <3>1, <3>4, <4>2 DEF GlassSettles
        <3>5. QED
            BY <3>3, <3>4
    <2>5. GlassShapes' /\ Glass!ResultListed' /\ Glass!NoDeadButton'
        BY <1>3, <2>1 DEF GlassShapes, Glass!ResultListed, Glass!NoDeadButton
    <2>6. QED
        BY <1>1, <1>2, <1>8, <2>1, <2>2, <2>3, <2>4, <2>5 DEF GlassInv, Glass!TypeOK
<1>9. ASSUME NEW t \in Glass!Tabs, Glass!HandleTabChange(t) PROVE GlassInv'
    <2> DEFINE u == [tab |-> t, nodes |-> IF t \in Glass!Selecting THEN x5 ELSE {}, task |-> "", text |-> ""]
    <2>1. /\ Glass!Event /\ Glass!Goes(u)
          /\ x14' = (IF t \in Glass!Selecting /\ x4 # Glass!Unset THEN x14 ELSE {})
          /\ UNCHANGED <<x1, x2, x4, x5, x6, x7, x8, x9, x10, x11, x12, busy, calls>>
        BY <1>9 DEF Glass!HandleTabChange, Glass!editor
    <2>2. /\ u \in Glass!AnyUrl /\ Glass!NoNodes(u) /\ u.tab = t
          /\ u.nodes = (IF t \in Glass!Selecting THEN x5 ELSE {})
        BY <1>1 DEF Glass!AnyUrl, Glass!AnyTask, Glass!Texts, Glass!NoNodes
    <2> HIDE DEF u
    <2>3. x3' = u /\ x13' \subseteq {"nodes", "url", "target", "catalog"} /\ x13' # {}
        BY <1>5, <2>1, <2>2
    <2>4. x14' \subseteq Nodes
        BY <1>1, <2>1
    <2>5. GlassSettles'
        <3>1. x13 = {} /\ x15' = 0 /\ UNCHANGED <<x1, x4, x5>>
            BY <1>2, <2>1
        <3>2. CASE x1.nodes = {}
            BY <1>3, <2>1, <2>2, <2>3, <3>1, <3>2 DEF GlassSettles
        <3>3. CASE x1.nodes # {}
            <4>1. GlassRest
                BY <1>3, <3>1, <3>3, GlassRested
            <4>2. x4 # Glass!Unset
                BY <1>1, <4>1 DEF GlassRest, Glass!Unset
            <4>3. GlassRest' \/ GlassForgets'
                BY <2>1, <2>2, <2>3, <3>1, <4>1, <4>2 DEF GlassRest, GlassForgets
            <4>4. QED
                BY <2>3, <3>1, <3>3, <4>3 DEF GlassSettles
        <3>4. QED
            BY <3>2, <3>3
    <2>6. GlassShapes' /\ Glass!ResultListed' /\ Glass!NoDeadButton'
        BY <1>3, <2>1 DEF GlassShapes, Glass!ResultListed, Glass!NoDeadButton
    <2>7. QED
        BY <1>1, <1>2, <2>1, <2>2, <2>3, <2>4, <2>5, <2>6 DEF GlassInv, Glass!TypeOK
<1>10. ASSUME NEW ns \in SUBSET Nodes, Glass!Event, Glass!Selects(ns), ns \subseteq x1.nodes \cup x5
       PROVE  GlassInv'
    <2>1. /\ x3.tab \in Glass!Selecting /\ x5' = ns /\ x1.nodes # {} /\ x14' = ns
          /\ x13' = {"nodes"}
          /\ UNCHANGED <<x1, x2, x3, x4, x6, x7, x8, x9, x10, x11, x12, busy, calls>>
        BY <1>10 DEF Glass!Selects, Glass!editor
    <2>2. GlassSettles'
        <3>1. x13 = {} /\ x15' = 0 /\ UNCHANGED <<x1, x3, x4>> /\ x13' # {}
            BY <1>2, <1>10, <2>1
        <3>2. GlassRest
            BY <1>3, <2>1, <3>1, GlassRested
        <3>3. GlassBehind'
            BY <1>10, <2>1, <3>1, <3>2 DEF GlassRest, GlassBehind, Glass!NamedNodes
        <3>4. QED
            BY <2>1, <3>1, <3>3 DEF GlassSettles
    <2>3. GlassShapes' /\ Glass!ResultListed' /\ Glass!NoDeadButton'
        BY <1>3, <2>1 DEF GlassShapes, Glass!ResultListed, Glass!NoDeadButton
    <2>4. x13' \subseteq {"nodes", "url", "target", "catalog"}
        BY <2>1
    <2>5. QED
        BY <1>1, <1>2, <1>10, <2>1, <2>2, <2>3, <2>4 DEF GlassInv, Glass!TypeOK
<1>11. ASSUME \/ \E n \in Nodes : Glass!HandleToggleNode(n)
              \/ Glass!HandleSelectAllFiltered \/ Glass!ClearSelection
       PROVE  GlassInv'
    <2>1. Glass!Event /\ Glass!FilteredNodes \subseteq x1.nodes
        BY <1>11 DEF Glass!HandleToggleNode, Glass!HandleSelectAllFiltered, Glass!ClearSelection, Glass!FilteredNodes
    <2>2. \E ns \in SUBSET Nodes : Glass!Selects(ns) /\ ns \subseteq x1.nodes \cup x5
        <3>1. CASE \E n \in Nodes : Glass!HandleToggleNode(n)
            <4>1. PICK n \in Nodes : Glass!HandleToggleNode(n)
                BY <3>1
            <4>2. /\ n \in x1.nodes
                  /\ Glass!Selects(IF n \in x5 THEN x5 \ {n} ELSE x5 \cup {n})
                BY <2>1, <4>1 DEF Glass!HandleToggleNode
            <4>3. CASE n \in x5
                <5>1. Glass!Selects(x5 \ {n}) /\ x5 \ {n} \in SUBSET Nodes
                    BY <1>1, <4>2, <4>3
                <5>2. x5 \ {n} \subseteq x1.nodes \cup x5
                    OBVIOUS
                <5>3. QED
                    BY <5>1, <5>2
            <4>4. CASE n \notin x5
                <5>1. Glass!Selects(x5 \cup {n}) /\ x5 \cup {n} \in SUBSET Nodes
                    BY <1>1, <4>2, <4>4
                <5>2. x5 \cup {n} \subseteq x1.nodes \cup x5
                    BY <4>2
                <5>3. QED
                    BY <5>1, <5>2
            <4>5. QED
                BY <4>3, <4>4
        <3>2. CASE Glass!HandleSelectAllFiltered
            BY <1>1, <2>1, <3>2 DEF Glass!HandleSelectAllFiltered
        <3>3. CASE Glass!ClearSelection
            BY <3>3 DEF Glass!ClearSelection
        <3>4. QED
            BY <1>11, <3>1, <3>2, <3>3
    <2>3. QED
        BY <1>10, <2>1, <2>2
<1>12. ASSUME Glass!Event \/ Glass!Answered, UNCHANGED <<x3, x4, x5, x14>>,
              x1' \in [nodes : SUBSET Nodes, tasks : SUBSET CustomChecks], x1'.nodes = x1.nodes,
              x2' \subseteq BuiltinChecks \cup CustomChecks, x6' \in BuiltinChecks \cup CustomChecks \cup {""},
              x7' \in [value : Glass!Texts, cmd : Glass!Texts], x8' \in {"All", "tag"},
              x9' \in [nodes : SUBSET Nodes, active : Nodes \cup {""}],
              x10' \in BOOLEAN, x11' \in CustomChecks \cup {Glass!NoTask},
              x12' \in [of : CustomChecks \cup {Glass!NoTask}, typed : BOOLEAN],
              busy' \subseteq {"run", "save"}, calls' \subseteq Glass!Requests,
              x13' \subseteq {"nodes", "url", "target", "catalog"},
              GlassShapes', Glass!ResultListed', Glass!NoDeadButton'
       PROVE  GlassInv'
    <2>1. x13 = {} /\ x15' = 0 /\ x15' \in Nat /\ steps' \in 0..MaxSteps
        BY <1>2, <1>12
    <2>2. GlassSettles'
        BY <1>3, <1>12, <2>1, GlassQuiet
    <2>3. Glass!TypeOK'
        BY <1>1, <1>12, <2>1 DEF Glass!TypeOK
    <2>4. QED
        BY <1>12, <2>2, <2>3 DEF GlassInv
<1>13. CASE Glass!SelectTag \/ Glass!EditParam \/ Glass!HandleAdHocToolChange \/ \E text \in Glass!Texts : Glass!EditCommand(text)
    <2>1. /\ Glass!Event /\ x13' = {}
          /\ UNCHANGED <<x1, x2, x3, x4, x5, x6, x9, x10, x11, x12,
                         busy, calls, x14>>
        BY <1>13 DEF Glass!SelectTag, Glass!EditParam, Glass!HandleAdHocToolChange, Glass!EditCommand, Glass!editor
    <2>2. x8' \in {"All", "tag"}
        BY <1>1, <1>13 DEF Glass!SelectTag, Glass!EditParam, Glass!HandleAdHocToolChange, Glass!EditCommand
    <2>3. x7' \in [value : Glass!Texts, cmd : Glass!Texts]
        <3>1. \/ x7' = x7
              \/ \E text \in Glass!Texts : x7' = [x7 EXCEPT !.value = text]
              \/ \E text \in Glass!Texts : x7' = [x7 EXCEPT !.cmd = text]
            BY <1>13 DEF Glass!SelectTag, Glass!EditParam, Glass!HandleAdHocToolChange, Glass!EditCommand, Glass!Texts
        <3>2. QED
            BY <1>1, <3>1
    <2>4. GlassShapes' /\ Glass!ResultListed' /\ Glass!NoDeadButton'
        BY <1>3, <2>1 DEF GlassShapes, Glass!ResultListed, Glass!NoDeadButton
    <2>5. x13' \subseteq {"nodes", "url", "target", "catalog"}
        BY <2>1
    <2>6. QED
        BY <1>1, <1>12, <2>1, <2>2, <2>3, <2>4, <2>5
<1>14. ASSUME NEW t \in BuiltinChecks \cup CustomChecks, Glass!SelectTask(t) PROVE GlassInv'
    <2>1. /\ Glass!Event /\ x6' = t /\ x13' = {"target"}
          /\ UNCHANGED <<x1, x2, x3, x4, x5, x7, x8, x9, x10, x11, x12,
                         busy, calls, x14>>
        BY <1>14 DEF Glass!SelectTask, Glass!editor
    <2>2. GlassShapes' /\ Glass!ResultListed' /\ Glass!NoDeadButton'
        BY <1>3, <2>1 DEF GlassShapes, Glass!ResultListed, Glass!NoDeadButton
    <2>3. x13' \subseteq {"nodes", "url", "target", "catalog"}
        BY <2>1
    <2>4. QED
        BY <1>1, <1>12, <2>1, <2>2, <2>3
<1>15. CASE Glass!HandleRun
    <2> DEFINE u == [tab |-> x3.tab, nodes |-> x5,
                     task |-> IF x3.tab = "presets" THEN x6 ELSE "",
                     text |-> IF x3.tab = "presets" THEN x7.value ELSE x7.cmd]
               c == Glass!Call("run", x6, x5)
    <2>1. /\ Glass!Event /\ x3.tab \in Glass!Selecting /\ x5 # {} /\ Glass!Goes(u) /\ x4' = x5
          /\ busy' = busy \cup {"run"} /\ calls' = calls \cup {c}
          /\ UNCHANGED <<x1, x2, x5, x6, x7, x8, x9, x10, x11, x12, x14>>
        BY <1>15 DEF Glass!HandleRun, Glass!editor
    <2>2. u \in Glass!AnyUrl /\ u.nodes = x5 /\ u.tab = x3.tab
        <3>1. (IF x3.tab = "presets" THEN x6 ELSE "") \in Glass!AnyTask
            BY <1>4 DEF Glass!AnyTask
        <3>2. (IF x3.tab = "presets" THEN x7.value ELSE x7.cmd) \in Glass!Texts
            BY <1>1
        <3>3. QED
            BY <1>1, <1>4, <3>1, <3>2 DEF Glass!AnyUrl
    <2>3. c \in Glass!Requests /\ c.kind = "run" /\ c.nodes = x5
        <3>1. x6 \in Glass!AnyTask \cup {Glass!NoTask} /\ x5 \in SUBSET Nodes
            BY <1>1, <1>4
        <3>2. QED
            BY <1>4, <3>1, GlassCall
    <2> HIDE DEF u, c
    <2>4. x3' = u /\ x13' \subseteq {"nodes", "url", "target", "catalog"} /\ x13' # {}
        BY <1>5, <2>1, <2>2
    <2>5. Glass!NoNodes(x3')
        BY <2>1, <2>2, <2>4 DEF Glass!NoNodes
    <2>6. GlassSettles'
        <3>1. x13 = {} /\ x15' = 0
            BY <1>2, <2>1
        <3>2. x1.nodes # {}
            BY <1>3, <2>1 DEF GlassSettles
        <3>3. GlassRest
            BY <1>3, <3>1, <3>2, GlassRested
        <3>4. GlassRest'
            BY <2>1, <2>2, <2>4, <3>3 DEF GlassRest
        <3>5. QED
            BY <2>1, <3>1, <3>2, <3>4 DEF GlassSettles
    <2>7. GlassShapes'
        BY <1>3, <2>1, <2>3 DEF GlassShapes
    <2>8. Glass!ResultListed' /\ Glass!NoDeadButton'
        BY <1>3, <2>1, <2>3 DEF Glass!ResultListed, Glass!NoDeadButton
    <2>9. busy' \subseteq {"run", "save"} /\ calls' \subseteq Glass!Requests
        BY <1>1, <2>1, <2>3
    <2>10. QED
        BY <1>1, <1>2, <2>1, <2>2, <2>4, <2>5, <2>6, <2>7, <2>8, <2>9 DEF GlassInv, Glass!TypeOK
<1>16. ASSUME NEW c \in calls, Glass!RunArrives(c) PROVE GlassInv'
    <2>1. /\ c.kind = "run" /\ Glass!Answered /\ calls' = calls \ {c} /\ busy' = busy \ {"run"}
          /\ \/ x9' = [nodes |-> c.nodes, active |-> CHOOSE n \in c.nodes : TRUE]
             \/ x9' = x9
          /\ UNCHANGED <<x1, x2, x3, x4, x5, x6, x7, x8, x10, x11, x12,
                         x13, x14>>
        BY <1>16 DEF Glass!RunArrives, Glass!editor
    <2>2. c.nodes \subseteq Nodes /\ c.nodes # {}
        BY <1>1, <1>3, <2>1 DEF GlassShapes, Glass!Requests
    <2>3. (CHOOSE n \in c.nodes : TRUE) \in c.nodes
        BY <2>2
    <2>4. x9' \in [nodes : SUBSET Nodes, active : Nodes \cup {""}] /\ Glass!ResultListed'
        <3>1. CASE x9' = x9
            BY <1>1, <1>3, <3>1 DEF Glass!ResultListed
        <3>2. CASE x9' = [nodes |-> c.nodes, active |-> CHOOSE n \in c.nodes : TRUE]
            <4>1. PICK a \in c.nodes : x9' = [nodes |-> c.nodes, active |-> a]
                BY <2>3, <3>2
            <4>2. a \in Nodes \cup {""} /\ c.nodes \in SUBSET Nodes
                BY <2>2
            <4>3. x9' \in [nodes : SUBSET Nodes, active : Nodes \cup {""}]
                BY <4>1, <4>2
            <4>4. x9'.active = a /\ x9'.nodes = c.nodes
                BY <4>1
            <4>5. QED
                BY <4>1, <4>3, <4>4 DEF Glass!ResultListed
        <3>3. QED
            BY <2>1, <3>1, <3>2
    <2>5. GlassShapes' /\ Glass!NoDeadButton'
        BY <1>3, <2>1 DEF GlassShapes, Glass!NoDeadButton
    <2>6. busy' \subseteq {"run", "save"} /\ calls' \subseteq Glass!Requests
        BY <1>1, <2>1
    <2>7. QED
        BY <1>1, <1>12, <2>1, <2>4, <2>5, <2>6
<1>17. ASSUME NEW n \in Nodes, Glass!SelectResult(n) PROVE GlassInv'
    <2>1. /\ Glass!Event /\ n \in x9.nodes /\ x9' = [x9 EXCEPT !.active = n] /\ x13' = {}
          /\ UNCHANGED <<x1, x2, x3, x4, x5, x6, x7, x8, x10, x11, x12,
                         busy, calls, x14>>
        BY <1>17 DEF Glass!SelectResult, Glass!editor
    <2>2. x9' \in [nodes : SUBSET Nodes, active : Nodes \cup {""}] /\ Glass!ResultListed'
        BY <1>1, <2>1 DEF Glass!ResultListed
    <2>3. GlassShapes' /\ Glass!NoDeadButton' /\ x13' \subseteq {"nodes", "url", "target", "catalog"}
        BY <1>3, <2>1 DEF GlassShapes, Glass!NoDeadButton
    <2>4. QED
        BY <1>1, <1>12, <2>1, <2>2, <2>3
<1>18. ASSUME NEW c \in calls, Glass!LoadTasksArrives(c) PROVE GlassInv'
    <2>1. /\ c.kind = "load" /\ Glass!Answered /\ calls' = calls \ {c}
          /\ UNCHANGED <<x1, x6, x3, x4, x5, x7, x8, x9, x10, x11, x12,
                         busy, x14>>
          /\ x2' = BuiltinChecks \cup x1.tasks \/ x2' = x2
          /\ x13' = {"catalog"} \/ x13' = x13
        BY <1>18 DEF Glass!LoadTasksArrives, Glass!editor
    <2>2. /\ x2' \subseteq BuiltinChecks \cup CustomChecks /\ calls' \subseteq Glass!Requests
          /\ x13' \subseteq {"nodes", "url", "target", "catalog"}
        BY <1>1, <2>1
    <2>3. GlassShapes' /\ Glass!ResultListed' /\ Glass!NoDeadButton'
        BY <1>3, <2>1 DEF GlassShapes, Glass!ResultListed, Glass!NoDeadButton
    <2>4. QED
        BY <1>1, <1>12, <2>1, <2>2, <2>3
<1>19. ASSUME NEW t \in BuiltinChecks, Glass!UseTemplate(t) PROVE GlassInv'
    <2>1. /\ Glass!Event /\ x3.tab = "manage" /\ x6' = t
          /\ x3' = [tab |-> "presets", nodes |-> {}, task |-> "", text |-> ""]
          /\ x13' = {"nodes", "url", "target"} /\ x14' = {}
          /\ UNCHANGED <<x1, x2, x4, x5, x7, x8, x9, x10, x11, x12, busy, calls>>
        BY <1>19 DEF Glass!UseTemplate, Glass!editor
    <2>2. x3' \in Glass!AnyUrl /\ Glass!NoNodes(x3') /\ x3'.tab = "presets" /\ x3'.nodes = {}
        BY <2>1 DEF Glass!AnyUrl, Glass!NoNodes, Glass!Tabs, Glass!AnyTask, Glass!Texts, Glass!Selecting
    <2>3. GlassSettles'
        <3>1. x13 = {} /\ x15' = 0
            BY <1>2, <2>1
        <3>2. CASE x1.nodes = {}
            BY <1>3, <2>1, <2>2, <3>1, <3>2 DEF GlassSettles
        <3>3. CASE x1.nodes # {}
            <4>1. GlassRest
                BY <1>3, <3>1, <3>3, GlassRested
            <4>2. GlassRest'
                BY <2>1, <2>2, <4>1 DEF GlassRest, Glass!Selecting
            <4>3. x1' = x1
                BY <2>1
            <4>4. QED
                BY <3>1, <3>3, <4>2, <4>3 DEF GlassSettles
        <3>4. QED
            BY <3>2, <3>3
    <2>4. GlassShapes' /\ Glass!ResultListed' /\ Glass!NoDeadButton'
        BY <1>3, <2>1 DEF GlassShapes, Glass!ResultListed, Glass!NoDeadButton
    <2>5. x13' \subseteq {"nodes", "url", "target", "catalog"} /\ x14' \subseteq Nodes
        BY <2>1
    <2>6. QED
        BY <1>1, <1>2, <2>1, <2>2, <2>3, <2>4, <2>5 DEF GlassInv, Glass!TypeOK
<1>20. ASSUME NEW t \in BuiltinChecks, NEW ns \in SUBSET Nodes, Glass!ExecuteNow(t, ns) PROVE GlassInv'
    <2>1. /\ Glass!Event /\ x3.tab = "cron" /\ x1.nodes # {} /\ x6' = t /\ x5' = ns
          /\ x7' = [x7 EXCEPT !.value = "typed"]
          /\ x3' = [tab |-> "presets", nodes |-> {}, task |-> "", text |-> ""]
          /\ x13' = {"nodes", "url"} \cup (IF t # x6 THEN {"target"} ELSE {})
          /\ x14' = Glass!Managed(ns)
          /\ UNCHANGED <<x1, x2, x4, x8, x9, x10, x11, x12, busy, calls>>
        BY <1>20 DEF Glass!ExecuteNow, Glass!editor
    <2>2. x3' \in Glass!AnyUrl /\ Glass!NoNodes(x3') /\ x3'.tab = "presets" /\ x3'.nodes = {}
        BY <2>1 DEF Glass!AnyUrl, Glass!NoNodes, Glass!Tabs, Glass!AnyTask, Glass!Texts, Glass!Selecting
    <2>3. x7' \in [value : Glass!Texts, cmd : Glass!Texts]
        BY <1>1, <2>1 DEF Glass!Texts
    <2>4. GlassSettles'
        <3>1. x13 = {} /\ x15' = 0 /\ x13' # {}
            BY <1>2, <2>1
        <3>2. GlassRest
            BY <1>3, <2>1, <3>1, GlassRested
        <3>3. GlassExecutes'
            BY <2>1, <2>2, <3>2 DEF GlassRest, GlassExecutes, Glass!Managed, Glass!Selecting
        <3>4. QED
            BY <2>1, <3>1, <3>3 DEF GlassSettles
    <2>5. GlassShapes' /\ Glass!ResultListed' /\ Glass!NoDeadButton'
        BY <1>3, <2>1 DEF GlassShapes, Glass!ResultListed, Glass!NoDeadButton
    <2>6. x13' \subseteq {"nodes", "url", "target", "catalog"} /\ x14' \subseteq Nodes
        BY <2>1 DEF Glass!Managed
    <2>7. QED
        BY <1>1, <1>2, <2>1, <2>2, <2>3, <2>4, <2>5, <2>6 DEF GlassInv, Glass!TypeOK
<1>21. CASE Glass!EditDraft \/ Glass!CloseEditor \/ \E t \in CustomChecks \cup {Glass!NoTask} : Glass!OpenEditor(t)
    <2>1. /\ Glass!Event \/ Glass!Answered
          /\ UNCHANGED <<x1, x2, x3, x4, x5, x6, x7, x8, x9, busy, calls, x14>>
          /\ x10' \in BOOLEAN /\ x11' \in CustomChecks \cup {Glass!NoTask}
          /\ x13' = {} \/ x13' = x13
        BY <1>1, <1>21 DEF Glass!EditDraft, Glass!CloseEditor, Glass!OpenEditor
    <2>2. x12' \in [of : CustomChecks \cup {Glass!NoTask}, typed : BOOLEAN]
        <3>1. \/ x12' = [x12 EXCEPT !.typed = TRUE]
              \/ \E t \in CustomChecks \cup {Glass!NoTask} : x12' = [of |-> t, typed |-> FALSE]
            BY <1>1, <1>21 DEF Glass!EditDraft, Glass!CloseEditor, Glass!OpenEditor
        <3>2. x12 \in [of : CustomChecks \cup {Glass!NoTask}, typed : BOOLEAN]
            BY <1>1
        <3>3. CASE x12' = [x12 EXCEPT !.typed = TRUE]
            BY <3>2, <3>3
        <3>4. CASE \E t \in CustomChecks \cup {Glass!NoTask} : x12' = [of |-> t, typed |-> FALSE]
            BY <3>4
        <3>5. QED
            BY <3>1, <3>3, <3>4
    <2>3. GlassShapes' /\ Glass!ResultListed' /\ Glass!NoDeadButton'
        BY <1>3, <2>1 DEF GlassShapes, Glass!ResultListed, Glass!NoDeadButton
    <2>4. x13' \subseteq {"nodes", "url", "target", "catalog"}
        BY <1>1, <2>1
    <2>5. QED
        BY <1>1, <1>12, <2>1, <2>2, <2>3, <2>4
<1>22. ASSUME Glass!HandleSubmit \/ \E t \in CustomChecks : Glass!HandleDeleteCustomTask(t) PROVE GlassInv'
    <2>1. /\ Glass!Event /\ x13' = {}
          /\ UNCHANGED <<x1, x2, x3, x4, x5, x6, x7, x8, x9, x10, x11,
                         x12, x14>>
        BY <1>22 DEF Glass!HandleSubmit, Glass!HandleDeleteCustomTask, Glass!editor
    <2>2. \E c \in Glass!Requests :
              /\ calls' = calls \cup {c}
              /\ \/ c.kind = "save" /\ c.task \in CustomChecks \cup {Glass!NoTask} /\ busy' = busy \cup {"save"}
                 \/ c.kind = "delete" /\ c.task \in CustomChecks /\ busy' = busy
        <3>1. CASE Glass!HandleSubmit
            <4>1. x11 \in Glass!AnyTask \cup {Glass!NoTask} /\ x11 \in CustomChecks \cup {Glass!NoTask}
                BY <1>1 DEF Glass!AnyTask
            <4>2. PICK none \in SUBSET Nodes : none = {}
                OBVIOUS
            <4>3. /\ Glass!Call("save", x11, none) \in Glass!Requests
                  /\ Glass!Call("save", x11, none).kind = "save" /\ Glass!Call("save", x11, none).task = x11
                <5>1. "save" \in {"run", "save", "delete"}
                    OBVIOUS
                <5>2. QED
                    BY <1>4, <4>1, <5>1, GlassCall
            <4>4. busy' = busy \cup {"save"} /\ calls' = calls \cup {Glass!Call("save", x11, none)}
                BY <3>1, <4>2 DEF Glass!HandleSubmit
            <4>5. QED
                BY <4>1, <4>3, <4>4
        <3>2. CASE \E t \in CustomChecks : Glass!HandleDeleteCustomTask(t)
            <4>1. PICK t \in CustomChecks : Glass!HandleDeleteCustomTask(t)
                BY <3>2
            <4>2. t \in Glass!AnyTask \cup {Glass!NoTask} /\ {} \in SUBSET Nodes
                BY DEF Glass!AnyTask
            <4>3. /\ Glass!Call("delete", t, {}) \in Glass!Requests
                  /\ Glass!Call("delete", t, {}).kind = "delete" /\ Glass!Call("delete", t, {}).task = t
                BY <1>4, <4>2, GlassCall
            <4>4. busy' = busy /\ calls' = calls \cup {Glass!Call("delete", t, {})}
                BY <4>1 DEF Glass!HandleDeleteCustomTask
            <4>5. QED
                BY <4>3, <4>4
        <3>3. QED
            BY <1>22, <3>1, <3>2
    <2>3. PICK c \in Glass!Requests :
              /\ calls' = calls \cup {c}
              /\ \/ c.kind = "save" /\ c.task \in CustomChecks \cup {Glass!NoTask} /\ busy' = busy \cup {"save"}
                 \/ c.kind = "delete" /\ c.task \in CustomChecks /\ busy' = busy
        BY <2>2
    <2>4. GlassShapes'
        BY <1>3, <2>3 DEF GlassShapes
    <2>5. Glass!ResultListed' /\ Glass!NoDeadButton'
        BY <1>3, <2>1, <2>3 DEF Glass!ResultListed, Glass!NoDeadButton
    <2>6. /\ busy' \subseteq {"run", "save"} /\ calls' \subseteq Glass!Requests
          /\ x13' \subseteq {"nodes", "url", "target", "catalog"}
        BY <1>1, <2>1, <2>3
    <2>7. QED
        BY <1>1, <1>12, <2>1, <2>4, <2>5, <2>6
<1>23. ASSUME NEW c \in calls, Glass!SaveArrives(c) PROVE GlassInv'
    <2> DEFINE next == [c EXCEPT !.kind = "reload"]
    <2>1. /\ c.kind = "save" /\ Glass!Answered
          /\ UNCHANGED <<x2, x3, x4, x5, x6, x7, x8, x9, x10, x11, x12,
                         x13, x14>>
        BY <1>23 DEF Glass!SaveArrives, Glass!editor
    <2>2. c \in Glass!Requests
        BY <1>1
    <2>3. next \in Glass!Requests /\ next.kind = "reload" /\ next.task = c.task
        BY <2>2 DEF Glass!Requests
    <2>4. \/ /\ \E t \in CustomChecks : x1' = [x1 EXCEPT !.tasks = @ \cup {t}]
             /\ calls' = (calls \ {c}) \cup {next} /\ busy' = busy
          \/ x1' = x1 /\ calls' = calls \ {c} /\ busy' = busy \ {"save"}
        BY <1>23 DEF Glass!SaveArrives
    <2> HIDE DEF next
    <2>5. x1' \in [nodes : SUBSET Nodes, tasks : SUBSET CustomChecks] /\ x1'.nodes = x1.nodes
        <3>1. x1 \in [nodes : SUBSET Nodes, tasks : SUBSET CustomChecks]
            BY <1>1
        <3>2. x1' = x1 \/ \E t \in CustomChecks : x1' = [x1 EXCEPT !.tasks = @ \cup {t}]
            BY <2>4
        <3>3. QED
            BY <3>1, <3>2
    <2>6. GlassShapes'
        BY <1>3, <2>1, <2>3, <2>4 DEF GlassShapes
    <2>7. Glass!ResultListed' /\ Glass!NoDeadButton'
        BY <1>3, <2>1, <2>3, <2>4 DEF Glass!ResultListed, Glass!NoDeadButton
    <2>8. busy' \subseteq {"run", "save"} /\ calls' \subseteq Glass!Requests
        BY <1>1, <2>3, <2>4
    <2>9. QED
        BY <1>1, <1>12, <2>1, <2>5, <2>6, <2>7, <2>8
<1>24. ASSUME NEW c \in calls, Glass!ReloadArrives(c) PROVE GlassInv'
    <2>1. /\ c.kind = "reload" /\ Glass!Answered /\ x2' \in {x2, BuiltinChecks \cup x1.tasks}
          /\ x6' = (IF c.task = Glass!NoTask THEN "" ELSE c.task)
          /\ x13' = (IF x6' # x6 THEN {"target"} ELSE {})
                        \cup (IF x2' # x2 THEN {"catalog"} ELSE {})
          /\ x10' = FALSE /\ x12' = [of |-> x11, typed |-> FALSE] /\ busy' = busy \ {"save"}
          /\ calls' = calls \ {c}
          /\ UNCHANGED <<x1, x3, x4, x5, x7, x8, x9, x11, x14>>
        BY <1>24 DEF Glass!ReloadArrives
    <2>2. x6' \in BuiltinChecks \cup CustomChecks \cup {""}
        BY <1>3, <2>1 DEF GlassShapes
    <2>3. x12' \in [of : CustomChecks \cup {Glass!NoTask}, typed : BOOLEAN]
        BY <1>1, <2>1
    <2>4. /\ x2' \subseteq BuiltinChecks \cup CustomChecks /\ busy' \subseteq {"run", "save"}
          /\ calls' \subseteq Glass!Requests /\ x13' \subseteq {"nodes", "url", "target", "catalog"}
        BY <1>1, <2>1
    <2>5. GlassShapes' /\ Glass!ResultListed' /\ Glass!NoDeadButton'
        BY <1>3, <2>1 DEF GlassShapes, Glass!ResultListed, Glass!NoDeadButton
    <2>6. QED
        BY <1>1, <1>12, <2>1, <2>2, <2>3, <2>4, <2>5
<1>25. ASSUME NEW c \in calls, Glass!DeleteArrives(c) PROVE GlassInv'
    <2>1. /\ c.kind = "delete" /\ Glass!Answered /\ calls' = calls \ {c}
          /\ x13' = (IF x6' # x6 THEN {"target"} ELSE {})
                        \cup (IF x2' # x2 THEN {"catalog"} ELSE {})
          /\ UNCHANGED <<x3, x4, x5, x7, x8, x9, x10, x11, x12, busy, x14>>
        BY <1>25 DEF Glass!DeleteArrives, Glass!editor
    <2>2. /\ x1' = x1 \/ x1' = [x1 EXCEPT !.tasks = @ \ {c.task}]
          /\ x2' = x2 \/ x2' = BuiltinChecks \cup (x1.tasks \ {c.task})
          /\ x6' = x6 \/ x6' = "ping"
        BY <1>25 DEF Glass!DeleteArrives
    <2>3. x1' \in [nodes : SUBSET Nodes, tasks : SUBSET CustomChecks] /\ x1'.nodes = x1.nodes
        <3>1. x1 \in [nodes : SUBSET Nodes, tasks : SUBSET CustomChecks]
            BY <1>1
        <3>2. x1' = x1 \/ x1' = [x1 EXCEPT !.tasks = @ \ {c.task}]
            BY <2>2
        <3>3. QED
            BY <3>1, <3>2
    <2>4. x6' \in BuiltinChecks \cup CustomChecks \cup {""}
        BY <1>1, <2>2
    <2>5. /\ x2' \subseteq BuiltinChecks \cup CustomChecks /\ calls' \subseteq Glass!Requests
          /\ x13' \subseteq {"nodes", "url", "target", "catalog"}
        BY <1>1, <2>1, <2>2
    <2>6. GlassShapes' /\ Glass!ResultListed' /\ Glass!NoDeadButton'
        BY <1>3, <2>1 DEF GlassShapes, Glass!ResultListed, Glass!NoDeadButton
    <2>7. QED
        BY <1>1, <1>12, <2>1, <2>3, <2>4, <2>5, <2>6
<1>26. CASE UNCHANGED Glass!vars
    <2>1. UNCHANGED <<x1, x2, x3, x4, x5, x6, x7, x8, x9, x10, x11, x12,
                      busy, calls, x13, x14, x15, steps>>
        BY <1>26 DEF Glass!vars
    <2>2. GlassShapes' /\ Glass!ResultListed' /\ Glass!NoDeadButton'
        BY <1>3, <2>1 DEF GlassShapes, Glass!ResultListed, Glass!NoDeadButton
    <2>3. GlassSettles'
        BY <1>3, <2>1 DEF GlassSettles, GlassRest, GlassBehind, GlassAhead, GlassExecutes,
                          GlassFollows, GlassForgets, Glass!NamedNodes
    <2>4. QED
        BY <1>1, <2>1, <2>2, <2>3 DEF GlassInv, Glass!TypeOK
<1>27. QED
    <2>1. ASSUME NEW u \in [tab : {"presets", "cron"}, nodes : SUBSET Nodes, task : Glass!AnyTask,
                            text : {"", "typed"}], Glass!NoNodes(u), Glass!Navigate(u)
          PROVE  GlassInv'
        <3>1. u \in Glass!AnyUrl
            BY DEF Glass!AnyUrl, Glass!Tabs, Glass!Texts
        <3>2. QED
            BY <1>8, <2>1, <3>1
    <2>2. QED
        BY <1>6, <1>7, <1>9, <1>11, <1>13, <1>14, <1>15, <1>16, <1>17, <1>18, <1>19, <1>20, <1>21,
           <1>22, <1>23, <1>24, <1>25, <1>26, <2>1 DEF Glass!Next

(* From the invariant to what is stated of the screen.                     *)
LEMMA GlassShows == ASSUME GlassInv PROVE Glass!TypeOK /\ Glass!NoDeadButton /\ Glass!ResultListed /\ Glass!SelectionSettles
<1>1. x15 \in Nat
    BY GlassTyped DEF GlassInv
<1>2. x15 <= 3
    BY <1>1 DEF GlassInv, GlassSettles
<1>3. QED
    BY <1>2 DEF GlassInv, GlassSettles, GlassRest, Glass!SelectionSettles

-----------------------------------------------------------------------------
(***************************************************************************)
(* NodePage.  x1 is the node, x2 the tab, x3 the nodes with a token, x4    *)
(* what is shown, x5 the dialog, x6 whether a note is edited and x7 for    *)
(* whom it was typed, x8 the range of the metrics, x9 the slot of the last *)
(* ones asked for, x10 whether they were the last to come, x11 the dialogs *)
(* a request or a change of node has crossed, x12 the interface.           *)
(***************************************************************************)
PageParts == {"token", "points"} \cup OnPage!Configs
PageRecords ==
    [of : Nodes \cup {OnPage!None}, range : Ranges \cup {OnPage!None}, iface : Interfaces \cup {OnPage!None}]

(* What the requests and what is shown hold.                               *)
PageShapes == x4 \in [PageParts -> PageRecords] /\ calls \in [OnPage!Slots -> PageRecords]

(* The last metrics asked for are those of what is selected.               *)
PageMetrics ==
    /\ x9 \in OnPage!Slots /\ x9.op = "metrics"
    /\ calls[x9].of # OnPage!None => calls[x9] = OnPage!Metrics(x1, x8, x12)
    /\ x10 => x4["points"] \in {OnPage!Nothing, OnPage!Metrics(x1, x8, x12)}

(* What a dialog asked for when none was under way is for the node of the  *)
(* page, as long as that stays.                                            *)
PageConfigs ==
    x5 \in OnPage!Configs \ x11 =>
        /\ \A s \in OnPage!Slots : s.op = x5 => calls[s].of \in {OnPage!None, x1}
        /\ x5 \in busy \/ x4[x5].of = x1

(* An external peer has no token to rotate.                                *)
PageRotates == \A s \in OnPage!Slots : s.op = "rotate" => calls[s].of \in OnPage!Managed \cup {OnPage!None}

PageInv ==
    OnPage!TypeOK /\ PageShapes /\ OnPage!NoDeadButton /\ OnPage!NoteOfNode /\ PageMetrics /\ PageConfigs /\ PageRotates

LEMMA PageSlots ==
    /\ \A s \in OnPage!Slots : s.op \in OnPage!Ops
    /\ \A op \in OnPage!Ops : OnPage!Slot(op) \in OnPage!Slots /\ OnPage!Slot(op).op = op
    /\ OnPage!Configs \subseteq OnPage!Ops /\ OnPage!Configs \cap (OnPage!Commands \cup {"agent", "metrics"}) = {}
    /\ OnPage!Commands \cup {"agent", "metrics"} \subseteq OnPage!Ops
BY DEF OnPage!Slots, OnPage!Slot, OnPage!Ops, OnPage!Commands, OnPage!Configs

LEMMA PageRecord ==
    /\ OnPage!NoCall \in PageRecords /\ OnPage!NoCall.of = OnPage!None
    /\ OnPage!Nothing \in PageRecords /\ OnPage!Nothing.of = OnPage!None
    /\ \A n \in Nodes : OnPage!Of(n) \in PageRecords /\ OnPage!Of(n).of = n
    /\ \A n \in Nodes : [OnPage!NoCall EXCEPT !.of = n] \in PageRecords /\ [OnPage!NoCall EXCEPT !.of = n].of = n
    /\ \A n \in Nodes, r \in Ranges, i \in Interfaces \cup {OnPage!None} :
           OnPage!Metrics(n, r, i) \in PageRecords /\ OnPage!Metrics(n, r, i).of = n
BY DEF PageRecords, OnPage!NoCall, OnPage!Nothing, OnPage!Of, OnPage!Metrics

LEMMA PageInit == ASSUME OnPage!Init PROVE PageInv
<1>1. x1 = (CHOOSE n \in OnPage!Managed : TRUE) /\ x8 = (CHOOSE r \in Ranges : TRUE) /\ x3 \in SUBSET OnPage!Managed
      /\ x2 = "overview" /\ x5 = OnPage!None /\ x6 = FALSE /\ x7 = OnPage!None /\ x12 = OnPage!None
      /\ busy = {"metrics"} /\ x9 = OnPage!Slot("metrics") /\ x10 = FALSE /\ x11 = {} /\ steps = 0
    BY DEF OnPage!Init
<1>2. x1 \in Nodes /\ x8 \in Ranges
    <2>1. x1 \in OnPage!Managed
        BY <1>1, PageAssumption DEF OnPage!Managed
    <2>2. x8 \in Ranges
        BY <1>1, PageAssumption
    <2>3. QED
        BY <2>1, <2>2 DEF OnPage!Managed
<1>3. x4 \in [PageParts -> PageRecords]
    <2>1. x4 = [part \in PageParts |-> IF part = "token" /\ x1 \in x3 THEN OnPage!Of(x1) ELSE OnPage!Nothing]
        BY DEF OnPage!Init, PageParts
    <2>2. QED
        BY <1>2, <2>1, PageRecord
<1>4. x9 \in OnPage!Slots /\ x9.op = "metrics"
    BY <1>1, PageSlots DEF OnPage!Ops
<1>5. calls = [s \in OnPage!Slots |-> IF s = x9 THEN OnPage!Metrics(x1, x8, x12) ELSE OnPage!NoCall]
    BY <1>1 DEF OnPage!Init
<1>6. OnPage!Metrics(x1, x8, x12) \in PageRecords /\ OnPage!Metrics(x1, x8, x12).of = x1
    BY <1>1, <1>2, PageRecord
<1>7. calls \in [OnPage!Slots -> PageRecords]
    BY <1>5, <1>6, PageRecord
<1>8. OnPage!NoDeadButton
    BY <1>1, <1>2, <1>4, <1>5, <1>6 DEF OnPage!NoDeadButton, OnPage!UnderWay, OnPage!None
<1>9. PageMetrics
    BY <1>1, <1>4, <1>5 DEF PageMetrics
<1>10. PageConfigs
    BY <1>1 DEF PageConfigs, OnPage!Configs, OnPage!None
<1>11. OnPage!TypeOK
    <2>1. \A part \in {"token", "points"} \cup OnPage!Configs : x4[part].of \in Nodes \cup {OnPage!None}
        BY <1>3 DEF PageParts, PageRecords
    <2>2. \A s \in OnPage!Slots : calls[s].of \in Nodes \cup {OnPage!None}
        BY <1>7 DEF PageRecords
    <2>3. steps \in 0..MaxSteps
        BY <1>1
    <2>4. x10 \in BOOLEAN
        BY <1>1
    <2>5. x2 \in OnPage!Tabs /\ busy \subseteq OnPage!Ops /\ x5 \in {OnPage!None, "uninstall"} \cup OnPage!Configs
        BY <1>1 DEF OnPage!Tabs, OnPage!Ops
    <2>6. QED
        BY <1>1, <1>2, <1>4, <2>1, <2>2, <2>3, <2>4, <2>5 DEF OnPage!TypeOK
<1>12. PageRotates
    BY <1>4, <1>5, PageRecord DEF PageRotates
<1>13. QED
    BY <1>1, <1>3, <1>7, <1>8, <1>9, <1>10, <1>11, <1>12 DEF PageInv, PageShapes, OnPage!NoteOfNode

(* What the step lemmas start from.                                        *)
LEMMA PageTyped ==
    ASSUME PageInv
    PROVE  /\ x1 \in Nodes /\ x2 \in OnPage!Tabs /\ x3 \subseteq OnPage!Managed
           /\ x5 \in {OnPage!None, "uninstall"} \cup OnPage!Configs /\ x6 \in BOOLEAN /\ x7 \in Nodes \cup {OnPage!None}
           /\ x8 \in Ranges /\ x12 \in Interfaces \cup {OnPage!None} /\ busy \subseteq OnPage!Ops
           /\ x11 \subseteq OnPage!Configs /\ x9 \in OnPage!Slots /\ x10 \in BOOLEAN /\ steps \in 0..MaxSteps
           /\ PageShapes /\ OnPage!NoDeadButton /\ OnPage!NoteOfNode /\ PageMetrics /\ PageConfigs /\ PageRotates
BY DEF PageInv, OnPage!TypeOK

(* Metrics are asked for, perhaps of another node, range or interface: the *)
(* request becomes the last one.                                           *)
LEMMA PageAsks ==
    ASSUME PageInv, NEW s \in OnPage!Slots, s.op = "metrics", x9' = s, x10' = FALSE,
           calls' \in [OnPage!Slots -> PageRecords], calls'[s] = OnPage!Metrics(x1', x8', x12'),
           \A t \in OnPage!Slots : t.op \notin {"metrics", "probe"} => calls'[t] = calls[t],
           \A t \in OnPage!Slots : t.op = "probe" /\ calls[t].of # OnPage!None => calls'[t] = calls[t],
           busy \subseteq busy', busy' \subseteq busy \cup {"metrics", "probe"},
           "probe" \in busy' \ busy => calls'[OnPage!Slot("probe")].of # OnPage!None,
           x1' \in Nodes, x2' \in OnPage!Tabs, x8' \in Ranges, x12' \in Interfaces \cup {OnPage!None},
           x4' \in [PageParts -> PageRecords], \A c \in OnPage!Configs : x4'[c] = x4[c],
           x5' = x5, x3' = x3, x6' \in BOOLEAN, x7' \in Nodes \cup {OnPage!None}, OnPage!NoteOfNode',
           x11 \subseteq x11', x11' \subseteq OnPage!Configs, x1' = x1 \/ {x5} \cap OnPage!Configs \subseteq x11',
           steps' \in 0..MaxSteps
    PROVE  PageInv'
<1>1. /\ x3 \subseteq OnPage!Managed /\ x5 \in {OnPage!None, "uninstall"} \cup OnPage!Configs /\ busy \subseteq OnPage!Ops
      /\ PageShapes /\ OnPage!NoDeadButton /\ PageConfigs /\ PageRotates
    BY PageTyped
<1>2. calls'[s].of # OnPage!None
    BY PageRecord DEF OnPage!Metrics, OnPage!None
<1>3. OnPage!NoDeadButton'
    <2>1. ASSUME NEW op \in busy' PROVE \E t \in OnPage!Slots : t.op = op /\ calls'[t].of # OnPage!None
        <3>1. CASE op = "metrics"
            BY <1>2, <3>1
        <3>2. CASE op \in busy /\ op # "metrics"
            <4>1. PICK t \in OnPage!Slots : t.op = op /\ calls[t].of # OnPage!None
                BY <1>1, <3>2 DEF OnPage!NoDeadButton, OnPage!UnderWay
            <4>2. calls'[t] = calls[t]
                BY <3>2, <4>1
            <4>3. QED
                BY <4>1, <4>2
        <3>3. CASE op \notin busy /\ op = "probe"
            <4>1. OnPage!Slot("probe") \in OnPage!Slots /\ OnPage!Slot("probe").op = "probe"
                BY PageSlots DEF OnPage!Ops, OnPage!Commands
            <4>2. QED
                BY <2>1, <3>3, <4>1
        <3>4. QED
            BY <3>1, <3>2, <3>3
    <2>2. QED
        BY <2>1 DEF OnPage!NoDeadButton, OnPage!UnderWay
<1>4. PageMetrics'
    BY DEF PageMetrics
<1>5. PageConfigs'
    <2>1. SUFFICES ASSUME x5 \in OnPage!Configs, x5 \notin x11'
                   PROVE  /\ \A t \in OnPage!Slots : t.op = x5 => calls'[t].of \in {OnPage!None, x1'}
                          /\ x5 \in busy' \/ x4'[x5].of = x1'
        BY DEF PageConfigs
    <2>2. x1' = x1 /\ x5 \in OnPage!Configs \ x11
        BY <2>1
    <2>3. x5 \notin {"metrics", "probe"}
        BY <2>1 DEF OnPage!Configs
    <2>4. \A t \in OnPage!Slots : t.op = x5 => calls'[t].of \in {OnPage!None, x1'}
        BY <1>1, <2>2, <2>3 DEF PageConfigs
    <2>5. x5 \in busy' \/ x4'[x5].of = x1'
        BY <1>1, <2>2 DEF PageConfigs
    <2>6. QED
        BY <2>4, <2>5
<1>6. PageRotates'
    BY <1>1 DEF PageRotates
<1>7. busy' \subseteq OnPage!Ops
    BY <1>1, PageSlots DEF OnPage!Commands
<1>8. /\ \A part \in {"token", "points"} \cup OnPage!Configs : x4'[part].of \in Nodes \cup {OnPage!None}
      /\ \A t \in OnPage!Slots : calls'[t].of \in Nodes \cup {OnPage!None}
    BY DEF PageParts, PageRecords
<1>9. OnPage!TypeOK'
    BY <1>1, <1>7, <1>8 DEF OnPage!TypeOK
<1>10. PageShapes'
    BY DEF PageShapes
<1>11. QED
    BY <1>3, <1>4, <1>5, <1>6, <1>9, <1>10 DEF PageInv

(* Another node, another range, or the same once more.                     *)
LEMMA PageFetches ==
    ASSUME PageInv, NEW n \in Nodes, NEW r \in Ranges, OnPage!FetchMetrics(n, r), OnPage!Step,
           x1' = n, x8' = r, x2' \in OnPage!Tabs, x6' \in BOOLEAN, x7' \in Nodes \cup {OnPage!None}, OnPage!NoteOfNode',
           x4' \in [PageParts -> PageRecords], \A c \in OnPage!Configs : x4'[c] = x4[c],
           x11 \subseteq x11', x11' \subseteq OnPage!Configs, n = x1 \/ {x5} \cap OnPage!Configs \subseteq x11',
           UNCHANGED <<x3, x5, x12>>
    PROVE  PageInv'
<1>1. PageShapes /\ x12 \in Interfaces \cup {OnPage!None} /\ steps \in 0..MaxSteps /\ busy \subseteq OnPage!Ops
    BY PageTyped
<1>2. PICK s \in OnPage!Free : calls' = [calls EXCEPT ![s] = OnPage!Metrics(n, r, x12)] /\ x9' = s
    BY DEF OnPage!FetchMetrics
<1>3. s \in OnPage!Slots /\ s.op = "metrics"
    BY <1>2 DEF OnPage!Free
<1>4. OnPage!Metrics(n, r, x12) \in PageRecords
    BY <1>1, PageRecord
<1>5. calls' \in [OnPage!Slots -> PageRecords] /\ calls'[s] = OnPage!Metrics(n, r, x12)
      /\ \A t \in OnPage!Slots : t.op # "metrics" => calls'[t] = calls[t]
    BY <1>1, <1>2, <1>3, <1>4 DEF PageShapes
<1>6. steps' \in 0..MaxSteps
    BY <1>1 DEF OnPage!Step
<1>7. busy' = busy \cup {"metrics"} /\ x10' = FALSE
    BY DEF OnPage!FetchMetrics
<1>8. "probe" \notin busy' \ busy /\ busy \subseteq busy' /\ busy' \subseteq busy \cup {"metrics", "probe"}
    BY <1>7
<1>9. QED
    BY <1>1, <1>2, <1>3, <1>5, <1>6, <1>7, <1>8, PageAsks

(* A request that is sent.                                                 *)
LEMMA PageSends ==
    ASSUME PageInv, NEW op \in OnPage!Ops \ {"metrics"}, OnPage!Send(op), OnPage!Step,
           busy' \in {busy, busy \cup {op}}
    PROVE  /\ busy' \subseteq OnPage!Ops /\ steps' \in 0..MaxSteps
           /\ calls' \in [OnPage!Slots -> PageRecords]
           /\ OnPage!NoDeadButton'
           /\ \A t \in OnPage!Slots : t.op # op => calls'[t] = calls[t]
           /\ \A t \in OnPage!Slots : t.op = op => calls'[t].of \in {calls[t].of, x1}
           /\ UNCHANGED <<x1, x8, x12, x4, x9, x10>> => PageMetrics'
           /\ (op = "rotate" => x1 \in OnPage!Managed) => PageRotates'
<1>1. /\ x1 \in Nodes /\ busy \subseteq OnPage!Ops /\ steps \in 0..MaxSteps
      /\ PageShapes /\ OnPage!NoDeadButton /\ PageMetrics
    BY PageTyped
<1>2. PICK s \in OnPage!Slots : s.op = op /\ calls[s].of = OnPage!None /\ calls' = [calls EXCEPT ![s] = [OnPage!NoCall EXCEPT !.of = x1]]
    BY DEF OnPage!Send
<1>3. [OnPage!NoCall EXCEPT !.of = x1] \in PageRecords /\ [OnPage!NoCall EXCEPT !.of = x1].of = x1
    BY <1>1, PageRecord
<1>4. calls' \in [OnPage!Slots -> PageRecords]
    BY <1>1, <1>2, <1>3 DEF PageShapes
<1>5. calls'[s].of = x1 /\ \A t \in OnPage!Slots \ {s} : calls'[t] = calls[t]
    BY <1>1, <1>2, <1>3 DEF PageShapes
<1>6. OnPage!NoDeadButton'
    <2>1. ASSUME NEW o \in busy' PROVE \E t \in OnPage!Slots : t.op = o /\ calls'[t].of # OnPage!None
        <3>1. CASE o = op
            BY <1>1, <1>2, <1>5, <3>1 DEF OnPage!None
        <3>2. CASE o \in busy /\ o # op
            BY <1>1, <1>2, <1>5, <3>2 DEF OnPage!NoDeadButton, OnPage!UnderWay
        <3>3. QED
            BY <3>1, <3>2
    <2>2. QED
        BY <2>1 DEF OnPage!NoDeadButton, OnPage!UnderWay
<1>7. \A t \in OnPage!Slots : t.op # op => calls'[t] = calls[t]
    BY <1>2, <1>5
<1>8. ASSUME UNCHANGED <<x1, x8, x12, x4, x9, x10>> PROVE PageMetrics'
    <2>1. calls'[x9] = calls[x9]
        BY <1>1, <1>7 DEF PageMetrics
    <2>2. QED
        BY <1>1, <1>8, <2>1 DEF PageMetrics
<1>9. steps' \in 0..MaxSteps /\ busy' \subseteq OnPage!Ops
    BY <1>1 DEF OnPage!Step
<1>10. ASSUME op = "rotate" => x1 \in OnPage!Managed PROVE PageRotates'
    <2>1. PageRotates
        BY PageTyped
    <2>2. ASSUME NEW t \in OnPage!Slots, t.op = "rotate" PROVE calls'[t].of \in OnPage!Managed \cup {OnPage!None}
        <3>1. CASE t = s
            BY <1>2, <1>5, <1>10, <2>2, <3>1
        <3>2. CASE t # s
            BY <1>5, <2>1, <2>2, <3>2 DEF PageRotates
        <3>3. QED
            BY <3>1, <3>2
    <2>3. QED
        BY <2>2 DEF PageRotates
<1>11. QED
    BY <1>2, <1>4, <1>5, <1>6, <1>7, <1>8, <1>9, <1>10

(* A request that ends: its slot is free again.                            *)
LEMMA PageEnds ==
    ASSUME PageInv, NEW s \in OnPage!Slots, calls[s].of # OnPage!None,
           calls' = [calls EXCEPT ![s] = OnPage!NoCall], busy' = busy \ {s.op},
           UNCHANGED <<x1, x8, x9, x12, steps, x11>>,
           x2' = x2, x3' \subseteq OnPage!Managed, x5' \in {x5, OnPage!None},
           (x6' = x6 /\ x7' = x7) \/ (x6' = FALSE /\ x7' = OnPage!None),
           x4' \in [PageParts -> PageRecords], x10' \in BOOLEAN,
           \/ s.op # "metrics" /\ x10' = x10 /\ x4'["points"] = x4["points"]
           \/ /\ s.op = "metrics"
              /\ x10' => s = x9
              /\ s = x9 => x4'["points"] \in {OnPage!Nothing, OnPage!Metrics(x1, x8, x12)},
           \A c \in OnPage!Configs : x4'[c] = IF s.op = c THEN OnPage!Of(calls[s].of) ELSE x4[c]
    PROVE  PageInv'
<1>1. /\ x1 \in Nodes /\ x2 \in OnPage!Tabs /\ x5 \in {OnPage!None, "uninstall"} \cup OnPage!Configs
      /\ x6 \in BOOLEAN /\ x7 \in Nodes \cup {OnPage!None} /\ x12 \in Interfaces \cup {OnPage!None}
      /\ x8 \in Ranges /\ busy \subseteq OnPage!Ops /\ x11 \subseteq OnPage!Configs
      /\ x9 \in OnPage!Slots /\ steps \in 0..MaxSteps
      /\ PageShapes /\ OnPage!NoDeadButton /\ OnPage!NoteOfNode /\ PageMetrics /\ PageConfigs /\ PageRotates
    BY PageTyped
<1>2. PageShapes'
    BY <1>1, PageRecord DEF PageShapes
<1>3. calls'[s] = OnPage!NoCall /\ calls'[s].of = OnPage!None /\ \A t \in OnPage!Slots \ {s} : calls'[t] = calls[t]
    BY <1>1, PageRecord DEF PageShapes
<1>4. OnPage!NoDeadButton'
    BY <1>1, <1>3 DEF OnPage!NoDeadButton, OnPage!UnderWay
<1>5. PageMetrics'
    <2>1. calls'[x9].of # OnPage!None => calls'[x9] = OnPage!Metrics(x1, x8, x12)
        BY <1>1, <1>3 DEF PageMetrics
    <2>2. ASSUME x10' PROVE x4'["points"] \in {OnPage!Nothing, OnPage!Metrics(x1, x8, x12)}
        <3>1. CASE s.op # "metrics"
            BY <1>1, <2>2, <3>1 DEF PageMetrics
        <3>2. CASE s.op = "metrics"
            BY <2>2, <3>2
        <3>3. QED
            BY <3>1, <3>2
    <2>3. QED
        BY <1>1, <2>1, <2>2 DEF PageMetrics
<1>6. PageConfigs'
    <2>1. SUFFICES ASSUME x5' \in OnPage!Configs \ x11'
                   PROVE  /\ \A t \in OnPage!Slots : t.op = x5' => calls'[t].of \in {OnPage!None, x1'}
                          /\ x5' \in busy' \/ x4'[x5'].of = x1'
        BY DEF PageConfigs
    <2>2. x5' = x5 /\ x5 \in OnPage!Configs \ x11
        BY <2>1 DEF OnPage!Configs, OnPage!None
    <2>3. \A t \in OnPage!Slots : t.op = x5 => calls[t].of \in {OnPage!None, x1}
        BY <1>1, <2>2 DEF PageConfigs
    <2>4. \A t \in OnPage!Slots : t.op = x5' => calls'[t].of \in {OnPage!None, x1'}
        BY <1>3, <2>2, <2>3
    <2>5. CASE s.op = x5
        <3>1. x4'[x5'] = OnPage!Of(x1)
            BY <2>2, <2>3, <2>5
        <3>2. QED
            BY <1>1, <2>4, <3>1, PageRecord
    <2>6. CASE s.op # x5
        <3>1. x4'[x5'] = x4[x5]
            BY <2>2, <2>6
        <3>2. QED
            BY <1>1, <2>2, <2>4, <2>6, <3>1 DEF PageConfigs
    <2>7. QED
        BY <2>5, <2>6
<1>7. busy' \subseteq OnPage!Ops /\ x5' \in {OnPage!None, "uninstall"} \cup OnPage!Configs
    BY <1>1
<1>8. /\ \A part \in {"token", "points"} \cup OnPage!Configs : x4'[part].of \in Nodes \cup {OnPage!None}
      /\ \A t \in OnPage!Slots : calls'[t].of \in Nodes \cup {OnPage!None}
    BY <1>2 DEF PageShapes, PageParts, PageRecords
<1>9. x6' \in BOOLEAN /\ x7' \in Nodes \cup {OnPage!None} /\ OnPage!NoteOfNode'
    <2>1. CASE x6' = x6 /\ x7' = x7
        BY <1>1, <2>1 DEF OnPage!NoteOfNode
    <2>2. CASE x6' = FALSE /\ x7' = OnPage!None
        BY <2>2 DEF OnPage!NoteOfNode
    <2>3. QED
        BY <2>1, <2>2
<1>10. OnPage!TypeOK'
    BY <1>1, <1>7, <1>8, <1>9 DEF OnPage!TypeOK
<1>11. PageRotates'
    BY <1>1, <1>3 DEF PageRotates
<1>12. QED
    BY <1>2, <1>4, <1>5, <1>6, <1>9, <1>10, <1>11 DEF PageInv

LEMMA PageStep == ASSUME PageInv, OnPage!Next \/ UNCHANGED OnPage!vars PROVE PageInv'
<1>1. /\ x1 \in Nodes /\ x2 \in OnPage!Tabs /\ x3 \subseteq OnPage!Managed
      /\ x5 \in {OnPage!None, "uninstall"} \cup OnPage!Configs /\ x6 \in BOOLEAN /\ x7 \in Nodes \cup {OnPage!None}
      /\ x8 \in Ranges /\ x12 \in Interfaces \cup {OnPage!None} /\ busy \subseteq OnPage!Ops
      /\ x11 \subseteq OnPage!Configs /\ x9 \in OnPage!Slots /\ x10 \in BOOLEAN /\ steps \in 0..MaxSteps
    BY PageTyped
<1>2. PageShapes /\ OnPage!NoDeadButton /\ OnPage!NoteOfNode /\ PageMetrics /\ PageConfigs /\ PageRotates
    BY PageTyped
<1>3. OnPage!Managed \subseteq Nodes
    BY DEF OnPage!Managed
<1>4. x4 \in [PageParts -> PageRecords] /\ calls \in [OnPage!Slots -> PageRecords]
    BY <1>2 DEF PageShapes
<1>5. ASSUME NEW n \in Nodes, NEW t \in OnPage!Tabs, OnPage!SelectNode(n, t) PROVE PageInv'
    <2>1. /\ OnPage!Step /\ x1' = n /\ OnPage!FetchMetrics(n, x8) /\ x6' = FALSE /\ x7' = OnPage!None
          /\ x11' = x11 \cup ({x5} \cap OnPage!Configs)
          /\ UNCHANGED <<x3, x5, x8, x12>>
        BY <1>5 DEF OnPage!SelectNode, OnPage!ResetsNote
    <2>2. x2' \in OnPage!Tabs
        BY <1>5 DEF OnPage!SelectNode, OnPage!Tabs
    <2>3. "token" \notin OnPage!Configs /\ "token" \in PageParts /\ OnPage!Configs \subseteq PageParts
        BY DEF OnPage!Configs, PageParts
    <2>4. x4' = x4 \/ x4' = [x4 EXCEPT !["token"] = OnPage!Of(n)]
        BY <1>5 DEF OnPage!SelectNode
    <2>5. x4' \in [PageParts -> PageRecords] /\ \A c \in OnPage!Configs : x4'[c] = x4[c]
        <3>1. OnPage!Of(n) \in PageRecords
            BY PageRecord
        <3>2. QED
            BY <1>4, <2>3, <2>4, <3>1
    <2>6. x6' \in BOOLEAN /\ x7' \in Nodes \cup {OnPage!None} /\ OnPage!NoteOfNode'
        BY <2>1 DEF OnPage!NoteOfNode
    <2>7. x11 \subseteq x11' /\ x11' \subseteq OnPage!Configs /\ {x5} \cap OnPage!Configs \subseteq x11'
        BY <1>1, <2>1
    <2>8. QED
        BY <1>1, <2>1, <2>2, <2>5, <2>6, <2>7, PageFetches
<1>6. CASE (\E r \in Ranges : OnPage!SelectRange(r)) \/ OnPage!RefreshMetrics
    <2>1. PICK r \in Ranges :
              /\ OnPage!Step /\ x8' = r /\ OnPage!FetchMetrics(x1, r)
              /\ UNCHANGED <<x1, x2, x3, x4, x5, x6, x7, x11, x12>>
        BY <1>1, <1>6 DEF OnPage!SelectRange, OnPage!RefreshMetrics
    <2>2. OnPage!NoteOfNode'
        BY <1>2, <2>1 DEF OnPage!NoteOfNode
    <2>3. QED
        BY <1>1, <1>4, <2>1, <2>2, PageFetches
<1>7. CASE \E i \in Interfaces : OnPage!SelectInterface(i)
    <2>1. PICK i \in Interfaces : OnPage!SelectInterface(i)
        BY <1>7
    <2>2. /\ OnPage!Step /\ x12' = i /\ x10' = FALSE /\ busy' = busy \cup {"metrics"}
          /\ UNCHANGED <<x1, x2, x3, x4, x5, x6, x7, x8, x11>>
        BY <2>1 DEF OnPage!SelectInterface
    <2>3. PICK r : r = OnPage!Metrics(x1, x8, i)
        OBVIOUS
    <2>4. PICK s \in OnPage!Free, t \in OnPage!Free : x9' = t /\ calls' = [calls EXCEPT ![s] = r, ![t] = r]
        BY <2>1, <2>3 DEF OnPage!SelectInterface
    <2>5. s \in OnPage!Slots /\ t \in OnPage!Slots /\ s.op = "metrics" /\ t.op = "metrics"
        BY <2>4 DEF OnPage!Free
    <2>6. r \in PageRecords
        BY <1>1, <2>3, PageRecord
    <2>7. calls' \in [OnPage!Slots -> PageRecords] /\ calls'[t] = r
          /\ \A u \in OnPage!Slots : u.op # "metrics" => calls'[u] = calls[u]
        BY <1>4, <2>4, <2>5, <2>6
    <2>8. OnPage!NoteOfNode' /\ steps' \in 0..MaxSteps
        BY <1>1, <1>2, <2>2 DEF OnPage!NoteOfNode, OnPage!Step
    <2>9. "probe" \notin busy' \ busy /\ busy \subseteq busy' /\ busy' \subseteq busy \cup {"metrics", "probe"}
        BY <2>2
    <2>10. calls'[t] = OnPage!Metrics(x1', x8', x12')
        BY <2>2, <2>3, <2>7
    <2>11. QED
        BY <1>1, <1>4, <2>2, <2>4, <2>5, <2>7, <2>8, <2>9, <2>10, PageAsks
<1>8. CASE OnPage!HandleProbe
    <2>1. /\ OnPage!Step /\ x10' = FALSE /\ busy' = busy \cup {"probe", "metrics"} /\ "probe" \notin busy
          /\ (\A op \in OnPage!Commands \cup {"agent"} : ~OnPage!UnderWay(op))
          /\ UNCHANGED <<x1, x2, x3, x4, x5, x6, x7, x8, x11, x12>>
        BY <1>8 DEF OnPage!HandleProbe, OnPage!Alone
    <2>2. PICK r : r = OnPage!Metrics(x1, x8, x12)
        OBVIOUS
    <2>3. PICK q : q = [OnPage!NoCall EXCEPT !.of = x1]
        OBVIOUS
    <2>4. PICK p : p = OnPage!Slot("probe")
        OBVIOUS
    <2>5. PICK s \in OnPage!Free : x9' = s /\ calls' = [calls EXCEPT ![p] = q, ![s] = r]
        BY <1>8, <2>2, <2>3, <2>4 DEF OnPage!HandleProbe
    <2>6. s \in OnPage!Slots /\ s.op = "metrics" /\ p \in OnPage!Slots /\ p.op = "probe"
        BY <2>4, <2>5, PageSlots DEF OnPage!Free, OnPage!Ops, OnPage!Commands
    <2>7. r \in PageRecords /\ q \in PageRecords /\ q.of # OnPage!None
        BY <1>1, <2>2, <2>3, PageRecord DEF OnPage!None
    <2>8. calls' \in [OnPage!Slots -> PageRecords] /\ calls'[s] = r /\ calls'[p] = q
          /\ \A u \in OnPage!Slots : u.op \notin {"metrics", "probe"} => calls'[u] = calls[u]
        BY <1>4, <2>5, <2>6, <2>7
    <2>9. \A u \in OnPage!Slots : u.op = "probe" => calls[u].of = OnPage!None
        BY <2>1 DEF OnPage!UnderWay, OnPage!Commands
    <2>10. OnPage!NoteOfNode' /\ steps' \in 0..MaxSteps
        BY <1>1, <1>2, <2>1 DEF OnPage!NoteOfNode, OnPage!Step
    <2>11. busy \subseteq busy' /\ busy' \subseteq busy \cup {"metrics", "probe"}
        BY <2>1
    <2>12. calls'[s] = OnPage!Metrics(x1', x8', x12') /\ calls'[OnPage!Slot("probe")].of # OnPage!None
        BY <2>1, <2>2, <2>4, <2>7, <2>8
    <2>13. QED
        BY <1>1, <1>4, <2>1, <2>5, <2>6, <2>8, <2>9, <2>10, <2>11, <2>12, PageAsks
<1>9. CASE (\E op \in OnPage!Commands : OnPage!Press(op) /\ (op = "rotate" => x1 \in OnPage!Managed)) \/ OnPage!HandleUninstallAgent \/ OnPage!AskForToken
    <2>1. PICK op \in OnPage!Commands \cup {"agent"} :
              /\ OnPage!Step /\ OnPage!Send(op) /\ busy' \in {busy, busy \cup {op}}
              /\ op = "rotate" => x1 \in OnPage!Managed
              /\ UNCHANGED <<x1, x2, x3, x4, x5, x6, x7, x8, x9, x10, x11, x12>>
        BY <1>9 DEF OnPage!Press, OnPage!HandleUninstallAgent, OnPage!AskForToken, OnPage!Commands
    <2>2. op \in OnPage!Ops \ {"metrics"} /\ op \notin OnPage!Configs
        BY <2>1 DEF OnPage!Ops, OnPage!Commands, OnPage!Configs
    <2>3. /\ busy' \subseteq OnPage!Ops /\ steps' \in 0..MaxSteps
          /\ calls' \in [OnPage!Slots -> PageRecords]
          /\ OnPage!NoDeadButton' /\ (\A t \in OnPage!Slots : t.op # op => calls'[t] = calls[t])
          /\ PageMetrics' /\ PageRotates'
        BY <2>1, <2>2, PageSends
    <2>4. PageConfigs'
        BY <1>2, <2>1, <2>2, <2>3 DEF PageConfigs
    <2>5. PageShapes'
        BY <1>2, <2>1, <2>3 DEF PageShapes
    <2>6. /\ \A part \in {"token", "points"} \cup OnPage!Configs : x4'[part].of \in Nodes \cup {OnPage!None}
          /\ \A t \in OnPage!Slots : calls'[t].of \in Nodes \cup {OnPage!None}
        BY <2>5 DEF PageShapes, PageParts, PageRecords
    <2>7. OnPage!TypeOK'
        BY <1>1, <2>1, <2>3, <2>6 DEF OnPage!TypeOK
    <2>8. OnPage!NoteOfNode'
        BY <1>2, <2>1 DEF OnPage!NoteOfNode
    <2>9. QED
        BY <2>3, <2>4, <2>5, <2>7, <2>8 DEF PageInv
<1>10. CASE \/ (\E t \in OnPage!Tabs : OnPage!HandleTabChange(t)) \/ OnPage!OpenUninstall \/ OnPage!CloseDialog
            \/ OnPage!EditNote \/ OnPage!TypeNote \/ OnPage!CancelNote \/ OnPage!NoteLoads \/ UNCHANGED OnPage!vars
    <2>1. /\ x2' \in OnPage!Tabs /\ x5' \in {x5, OnPage!None, "uninstall"}
          /\ UNCHANGED <<x1, x3, x4, x8, calls, busy, x9, x10, x11, x12, steps>>
        BY <1>1, <1>10 DEF OnPage!HandleTabChange, OnPage!OpenUninstall, OnPage!EditNote, OnPage!TypeNote, OnPage!CancelNote,
           OnPage!NoteLoads, OnPage!CloseDialog, OnPage!vars
    <2>2. x6' \in {x6, TRUE, FALSE} /\ x7' \in {x7, OnPage!None, x1} /\ ((x7' = x7 /\ x6' = x6) \/ x7' \in {OnPage!None, x1})
        BY <1>10 DEF OnPage!HandleTabChange, OnPage!OpenUninstall, OnPage!EditNote, OnPage!TypeNote, OnPage!CancelNote,
           OnPage!NoteLoads, OnPage!CloseDialog, OnPage!ResetsNote, OnPage!vars
    <2>3. PageConfigs'
        BY <1>2, <2>1 DEF PageConfigs, OnPage!Configs, OnPage!None
    <2>4. PageMetrics'
        BY <1>2, <2>1 DEF PageMetrics
    <2>5. PageShapes' /\ OnPage!NoDeadButton' /\ PageRotates'
        BY <1>2, <2>1 DEF PageShapes, OnPage!NoDeadButton, OnPage!UnderWay, PageRotates
    <2>6. OnPage!NoteOfNode'
        <3>1. CASE x7' = x7 /\ x6' = x6
            BY <1>2, <2>1, <3>1 DEF OnPage!NoteOfNode
        <3>2. CASE x7' \in {OnPage!None, x1}
            BY <2>1, <3>2 DEF OnPage!NoteOfNode
        <3>3. QED
            BY <2>2, <3>1, <3>2
    <2>7. OnPage!TypeOK'
        <3>1. OnPage!TypeOK
            BY DEF PageInv
        <3>2. x6' \in BOOLEAN /\ x7' \in Nodes \cup {OnPage!None}
            BY <1>1, <2>2
        <3>3. QED
            BY <2>1, <3>1, <3>2 DEF OnPage!TypeOK
    <2>8. QED
        BY <2>3, <2>4, <2>5, <2>6, <2>7 DEF PageInv
<1>11. CASE \E op \in OnPage!Configs : x5 = OnPage!None /\ OnPage!OpenConfig(op)
    <2>1. PICK op \in OnPage!Configs : x5 = OnPage!None /\ OnPage!OpenConfig(op)
        BY <1>11
    <2>2. /\ x5' = op /\ OnPage!Step /\ OnPage!Send(op) /\ busy' = busy \cup {op}
          /\ x11' = (IF OnPage!UnderWay(op) THEN x11 \cup {op} ELSE x11 \ {op})
          /\ UNCHANGED <<x1, x2, x3, x4, x6, x7, x8, x9, x10, x12>>
        BY <2>1 DEF OnPage!OpenConfig
    <2>3. op \in OnPage!Ops \ {"metrics"} /\ op # "rotate"
        BY <2>1 DEF OnPage!Ops, OnPage!Configs
    <2>4. /\ busy' \subseteq OnPage!Ops /\ steps' \in 0..MaxSteps
          /\ calls' \in [OnPage!Slots -> PageRecords]
          /\ OnPage!NoDeadButton' /\ PageMetrics' /\ PageRotates'
          /\ \A t \in OnPage!Slots : t.op = op => calls'[t].of \in {calls[t].of, x1}
        BY <2>2, <2>3, PageSends
    <2>5. PageConfigs'
        BY <2>2, <2>4 DEF PageConfigs, OnPage!UnderWay
    <2>6. PageShapes'
        BY <1>2, <2>2, <2>4 DEF PageShapes
    <2>7. /\ \A part \in {"token", "points"} \cup OnPage!Configs : x4'[part].of \in Nodes \cup {OnPage!None}
          /\ \A t \in OnPage!Slots : calls'[t].of \in Nodes \cup {OnPage!None}
        BY <2>6 DEF PageShapes, PageParts, PageRecords
    <2>8. x11' \subseteq OnPage!Configs /\ x5' \in OnPage!Configs
        BY <1>1, <2>1, <2>2
    <2>9. OnPage!TypeOK'
        BY <1>1, <2>2, <2>4, <2>7, <2>8 DEF OnPage!TypeOK
    <2>10. OnPage!NoteOfNode'
        BY <1>2, <2>2 DEF OnPage!NoteOfNode
    <2>11. QED
        BY <2>4, <2>5, <2>6, <2>9, <2>10 DEF PageInv
<1>12. "points" \in PageParts /\ OnPage!Configs \subseteq PageParts /\ "points" \notin OnPage!Configs /\ "metrics" \notin OnPage!Configs
    BY DEF PageParts, OnPage!Configs
<1>13. ASSUME NEW p \in PageRecords, x4' = [x4 EXCEPT !["points"] = p]
       PROVE  /\ x4' \in [PageParts -> PageRecords] /\ x4'["points"] = p
              /\ \A c \in OnPage!Configs : x4'[c] = x4[c]
    BY <1>4, <1>12, <1>13
<1>14. CASE \E s \in OnPage!Slots : OnPage!MetricsArrive(s)
    <2>1. PICK s \in OnPage!Slots : OnPage!MetricsArrive(s)
        BY <1>14
    <2>2. PICK c \in PageRecords : c = calls[s]
        BY <1>4
    <2>3. PICK i \in IF c.iface = OnPage!None THEN Interfaces \cup {OnPage!None} ELSE {c.iface} :
              /\ x4' = [x4 EXCEPT !["points"] = [of |-> c.of, range |-> c.range, iface |-> i]]
              /\ IF c.iface = OnPage!None /\ i \notin {OnPage!None, x12}
                 THEN /\ calls' = [calls EXCEPT ![s] = OnPage!Metrics(x1, x8, i)] /\ x9' = s
                      /\ x12' = i /\ x10' = FALSE /\ UNCHANGED busy
                 ELSE /\ calls' = [calls EXCEPT ![s] = OnPage!NoCall] /\ busy' = busy \ {"metrics"}
                      /\ x10' = (s = x9) /\ UNCHANGED <<x12, x9>>
        BY <2>1, <2>2 DEF OnPage!MetricsArrive
    <2>4. /\ s.op = "metrics" /\ c.of # OnPage!None
          /\ UNCHANGED <<x1, x2, x3, x5, x6, x7, x8, x11, steps>>
        BY <2>1, <2>2 DEF OnPage!MetricsArrive
    <2>5. i \in Interfaces \cup {OnPage!None}
        BY <2>2, <2>3 DEF PageRecords
    <2>6. PICK p \in PageRecords : p = [of |-> c.of, range |-> c.range, iface |-> i]
        BY <2>2, <2>5 DEF PageRecords
    <2>7. x4' \in [PageParts -> PageRecords] /\ x4'["points"] = p /\ \A d \in OnPage!Configs : x4'[d] = x4[d]
        BY <1>13, <2>3, <2>6
    <2>8. CASE c.iface = OnPage!None /\ i \notin {OnPage!None, x12}
        <3>1. PICK r : r = OnPage!Metrics(x1, x8, i)
            OBVIOUS
        <3>2. r \in PageRecords
            BY <1>1, <2>5, <3>1, PageRecord
        <3>3. calls' = [calls EXCEPT ![s] = r] /\ x9' = s /\ x12' = i /\ x10' = FALSE /\ UNCHANGED busy
            BY <2>3, <2>8, <3>1
        <3>4. /\ calls' \in [OnPage!Slots -> PageRecords] /\ calls'[s] = r
              /\ \A t \in OnPage!Slots : t.op # "metrics" => calls'[t] = calls[t]
            BY <1>4, <2>4, <3>2, <3>3
        <3>5. calls'[s] = OnPage!Metrics(x1', x8', x12')
            BY <2>4, <3>1, <3>3, <3>4
        <3>6. OnPage!NoteOfNode'
            BY <1>2, <2>4 DEF OnPage!NoteOfNode
        <3>7. "probe" \notin busy' \ busy /\ busy \subseteq busy' /\ busy' \subseteq busy \cup {"metrics", "probe"}
            BY <3>3
        <3>8. QED
            BY <1>1, <2>4, <2>5, <2>7, <3>3, <3>4, <3>5, <3>6, <3>7, PageAsks
    <2>9. CASE ~(c.iface = OnPage!None /\ i \notin {OnPage!None, x12})
        <3>1. calls' = [calls EXCEPT ![s] = OnPage!NoCall] /\ busy' = busy \ {s.op}
              /\ x10' = (s = x9) /\ UNCHANGED <<x12, x9>>
            BY <2>3, <2>4, <2>9
        <3>2. ASSUME s = x9 PROVE x4'["points"] \in {OnPage!Nothing, OnPage!Metrics(x1, x8, x12)}
            <4>1. c = OnPage!Metrics(x1, x8, x12)
                BY <1>2, <2>2, <2>4, <3>2 DEF PageMetrics
            <4>2. c.of = x1 /\ c.range = x8 /\ c.iface = x12
                BY <4>1 DEF OnPage!Metrics
            <4>3. i = x12
                BY <2>3, <2>9, <4>2
            <4>4. QED
                BY <2>6, <2>7, <4>2, <4>3 DEF OnPage!Metrics
        <3>3. x10' \in BOOLEAN /\ (x10' => s = x9)
            BY <3>1
        <3>4. \A d \in OnPage!Configs : x4'[d] = IF s.op = d THEN OnPage!Of(calls[s].of) ELSE x4[d]
            BY <1>12, <2>4, <2>7
        <3>5. QED
            BY <1>1, <2>2, <2>4, <2>7, <3>1, <3>2, <3>3, <3>4, PageEnds
    <2>10. QED
        BY <2>8, <2>9
<1>15. CASE \E s \in OnPage!Slots : OnPage!MetricsFail(s)
    <2>1. PICK s \in OnPage!Slots : OnPage!MetricsFail(s)
        BY <1>15
    <2>2. /\ s.op = "metrics" /\ calls[s].of # OnPage!None /\ x4' = [x4 EXCEPT !["points"] = OnPage!Nothing]
          /\ calls' = [calls EXCEPT ![s] = OnPage!NoCall] /\ busy' = busy \ {s.op} /\ x10' = (s = x9)
          /\ UNCHANGED <<x1, x2, x3, x5, x6, x7, x8, x9, x11, x12, steps>>
        BY <2>1 DEF OnPage!MetricsFail
    <2>3. x4' \in [PageParts -> PageRecords] /\ x4'["points"] = OnPage!Nothing /\ \A d \in OnPage!Configs : x4'[d] = x4[d]
        BY <1>13, <2>2, PageRecord
    <2>4. x10' \in BOOLEAN /\ (x10' => s = x9)
        BY <2>2
    <2>5. \A d \in OnPage!Configs : x4'[d] = IF s.op = d THEN OnPage!Of(calls[s].of) ELSE x4[d]
        BY <1>12, <2>2, <2>3
    <2>6. QED
        BY <1>1, <2>2, <2>3, <2>4, <2>5, PageEnds
<1>16. CASE \E s \in OnPage!Slots : OnPage!ConfigArrives(s)
    <2>1. PICK s \in OnPage!Slots : OnPage!ConfigArrives(s)
        BY <1>16
    <2>2. /\ s.op \in OnPage!Configs /\ calls[s].of # OnPage!None /\ x4' = [x4 EXCEPT ![s.op] = OnPage!Of(calls[s].of)]
          /\ calls' = [calls EXCEPT ![s] = OnPage!NoCall] /\ busy' = busy \ {s.op}
          /\ UNCHANGED <<x1, x2, x3, x5, x6, x7, x8, x9, x10, x11, x12, steps>>
        BY <2>1 DEF OnPage!ConfigArrives
    <2>3. OnPage!Of(calls[s].of) \in PageRecords
        <3>1. calls[s].of \in Nodes
            BY <1>4, <2>2 DEF PageRecords
        <3>2. QED
            BY <3>1, PageRecord
    <2>4. /\ x4' \in [PageParts -> PageRecords] /\ x4'["points"] = x4["points"]
          /\ \A d \in OnPage!Configs : x4'[d] = IF s.op = d THEN OnPage!Of(calls[s].of) ELSE x4[d]
        BY <1>4, <1>12, <2>2, <2>3
    <2>5. s.op # "metrics"
        BY <1>12, <2>2
    <2>6. QED
        BY <1>1, <2>2, <2>4, <2>5, PageEnds
<1>17. ASSUME NEW op \in OnPage!Commands \cup {"agent"}, calls[OnPage!Slot(op)].of # OnPage!None, OnPage!Ends(op),
              UNCHANGED <<x1, x8, x9, steps, x10, x11, x12, x2>>,
              x3' \subseteq OnPage!Managed, x5' \in {x5, OnPage!None},
              (x6' = x6 /\ x7' = x7) \/ (x6' = FALSE /\ x7' = OnPage!None),
              \/ x4' = x4
              \/ \E p \in {OnPage!Nothing, OnPage!Of(calls[OnPage!Slot(op)].of)} : x4' = [x4 EXCEPT !["token"] = p]
       PROVE  PageInv'
    <2>1. op \in OnPage!Ops /\ op \notin OnPage!Configs /\ op # "metrics"
        BY DEF OnPage!Ops, OnPage!Commands, OnPage!Configs
    <2>2. OnPage!Slot(op) \in OnPage!Slots /\ OnPage!Slot(op).op = op
        BY <2>1, PageSlots
    <2>3. calls' = [calls EXCEPT ![OnPage!Slot(op)] = OnPage!NoCall] /\ busy' = busy \ {OnPage!Slot(op).op}
        BY <1>17, <2>2 DEF OnPage!Ends
    <2>4. OnPage!Of(calls[OnPage!Slot(op)].of) \in PageRecords
        <3>1. calls[OnPage!Slot(op)].of \in Nodes
            BY <1>4, <1>17, <2>2 DEF PageRecords
        <3>2. QED
            BY <3>1, PageRecord
    <2>5. "token" \in PageParts /\ "points" \in PageParts /\ OnPage!Configs \subseteq PageParts /\ "token" \notin OnPage!Configs
        BY DEF PageParts, OnPage!Configs
    <2>6. /\ x4' \in [PageParts -> PageRecords]
          /\ x4'["points"] = x4["points"] /\ \A c \in OnPage!Configs : x4'[c] = x4[c]
        <3>1. CASE x4' = x4
            BY <1>4, <3>1
        <3>2. CASE \E p \in {OnPage!Nothing, OnPage!Of(calls[OnPage!Slot(op)].of)} : x4' = [x4 EXCEPT !["token"] = p]
            <4>1. PICK p \in PageRecords : x4' = [x4 EXCEPT !["token"] = p]
                BY <2>4, <3>2, PageRecord
            <4>2. QED
                BY <1>4, <2>5, <4>1
        <3>3. QED
            BY <1>17, <3>1, <3>2
    <2>7. \A c \in OnPage!Configs : x4'[c] = IF OnPage!Slot(op).op = c THEN OnPage!Of(calls[OnPage!Slot(op)].of) ELSE x4[c]
        BY <2>1, <2>2, <2>6
    <2>8. x10' = x10 /\ x10' \in BOOLEAN
        BY <1>1, <1>17
    <2>9. OnPage!Slot(op).op # "metrics"
        BY <2>1, <2>2
    <2>10. QED
        BY <1>17, <2>2, <2>3, <2>6, <2>7, <2>8, <2>9, PageEnds
<1>18. CASE OnPage!TokenArrives
    <2>1. /\ calls[OnPage!Slot("agent")].of # OnPage!None /\ OnPage!Ends("agent")
          /\ x4' = [x4 EXCEPT !["token"] = OnPage!Of(calls[OnPage!Slot("agent")].of)]
          /\ UNCHANGED <<x1, x2, x3, x5, x6, x7, x8, x9, x10, x11, x12, steps>>
        BY <1>18 DEF OnPage!TokenArrives
    <2>2. "agent" \in OnPage!Commands \cup {"agent"}
        OBVIOUS
    <2>3. QED
        BY <1>1, <1>17, <2>1, <2>2
<1>19. CASE OnPage!Rotated
    <2>1. /\ calls[OnPage!Slot("rotate")].of # OnPage!None /\ OnPage!Ends("rotate")
          /\ x4' = [x4 EXCEPT !["token"] = OnPage!Of(calls[OnPage!Slot("rotate")].of)]
          /\ x3' = x3 \cup {calls[OnPage!Slot("rotate")].of}
          /\ UNCHANGED <<x1, x2, x5, x6, x7, x8, x9, x10, x11, x12, steps>>
        BY <1>19 DEF OnPage!Rotated
    <2>2. "rotate" \in OnPage!Commands \cup {"agent"}
        BY DEF OnPage!Commands
    <2>3. x3' \subseteq OnPage!Managed
        <3>1. OnPage!Slot("rotate") \in OnPage!Slots /\ OnPage!Slot("rotate").op = "rotate"
            BY PageSlots DEF OnPage!Ops, OnPage!Commands
        <3>2. QED
            BY <1>1, <1>2, <2>1, <3>1 DEF PageRotates
    <2>4. QED
        BY <1>1, <1>17, <2>1, <2>2, <2>3
<1>20. CASE OnPage!Uninstalled
    <2>1. /\ calls[OnPage!Slot("uninstall")].of # OnPage!None /\ OnPage!Ends("uninstall") /\ x5' = OnPage!None
          /\ x4' = [x4 EXCEPT !["token"] = OnPage!Nothing]
          /\ x3' = x3 \ {calls[OnPage!Slot("uninstall")].of}
          /\ UNCHANGED <<x1, x2, x6, x7, x8, x9, x10, x11, x12, steps>>
        BY <1>20 DEF OnPage!Uninstalled
    <2>2. "uninstall" \in OnPage!Commands \cup {"agent"}
        BY DEF OnPage!Commands
    <2>3. QED
        BY <1>1, <1>17, <2>1, <2>2
<1>21. CASE OnPage!NoteSaved
    <2>1. /\ calls[OnPage!Slot("note")].of # OnPage!None /\ OnPage!Ends("note") /\ x6' = FALSE /\ x7' = OnPage!None
          /\ UNCHANGED <<x1, x2, x3, x4, x5, x8, x9, x10, x11, x12, steps>>
        BY <1>21 DEF OnPage!NoteSaved, OnPage!ResetsNote
    <2>2. "note" \in OnPage!Commands \cup {"agent"}
        BY DEF OnPage!Commands
    <2>3. QED
        BY <1>1, <1>17, <2>1, <2>2
<1>22. CASE \E op \in OnPage!Commands \cup {"agent"} : OnPage!CommandEnds(op)
    <2>1. PICK op \in OnPage!Commands \cup {"agent"} : OnPage!CommandEnds(op)
        BY <1>22
    <2>2. /\ calls[OnPage!Slot(op)].of # OnPage!None /\ OnPage!Ends(op)
          /\ UNCHANGED <<x1, x2, x3, x4, x5, x6, x7, x8, x9, x10, x11, x12, steps>>
        BY <2>1 DEF OnPage!CommandEnds
    <2>3. QED
        BY <1>1, <1>17, <2>2
<1>23. QED
    <2>1. ASSUME NEW n \in Nodes,
                 OnPage!SelectInSidebar(n) \/ OnPage!SelectPeer(n) \/ (\E t \in OnPage!Tabs : OnPage!BackOrForward(n, t))
          PROVE  PageInv'
        <3>1. x2 \in OnPage!Tabs /\ "overview" \in OnPage!Tabs
            BY <1>1 DEF OnPage!Tabs
        <3>2. QED
            BY <1>5, <2>1, <3>1 DEF OnPage!SelectInSidebar, OnPage!SelectPeer, OnPage!BackOrForward
    <2>2. OnPage!HandleRestartAllWg \/ OnPage!HandleRestartBird \/ OnPage!HandleRotateAgentToken \/ OnPage!HandleSaveNote
              => \E op \in OnPage!Commands : OnPage!Press(op) /\ (op = "rotate" => x1 \in OnPage!Managed)
        BY DEF OnPage!HandleRestartAllWg, OnPage!HandleRestartBird, OnPage!HandleRotateAgentToken, OnPage!HandleSaveNote, OnPage!Commands,
               OnPage!AgentTab
    <2>3. OnPage!HandleOpenBirdConfig \/ OnPage!HandleOpenNftablesConfig => \E op \in OnPage!Configs : x5 = OnPage!None /\ OnPage!OpenConfig(op)
        BY DEF OnPage!HandleOpenBirdConfig, OnPage!HandleOpenNftablesConfig, OnPage!RoutingTab, OnPage!FirewallTab, OnPage!Configs
    <2>4. QED
        BY <1>6, <1>7, <1>8, <1>9, <1>10, <1>11, <1>14, <1>15, <1>16, <1>18, <1>19, <1>20, <1>21, <1>22, <2>1, <2>2, <2>3
           DEF OnPage!Next

LEMMA PageShows == ASSUME PageInv PROVE OnPage!TypeOK /\ OnPage!NoDeadButton /\ OnPage!NoteOfNode /\ OnPage!MetricsOfNode /\ OnPage!ConfigOfNode
<1>1. OnPage!TypeOK /\ OnPage!NoDeadButton /\ OnPage!NoteOfNode /\ PageMetrics /\ PageConfigs
    BY DEF PageInv
<1>2. OnPage!MetricsOfNode
    BY <1>1 DEF PageMetrics, OnPage!MetricsOfNode, OnPage!Metrics
<1>3. OnPage!ConfigOfNode
    BY <1>1 DEF PageConfigs, OnPage!ConfigOfNode
<1>4. QED
    BY <1>1, <1>2, <1>3

-----------------------------------------------------------------------------
(***************************************************************************)
(* LinkDrawer.  x1 is the link of the drawer, x2 the notes the server has, *)
(* x3 those of the page, x4 the note shown, x5 and x6 the notes edited and *)
(* whose, x7 the dialog, x8 and x9 the kind of key and its form, x10 what is*)
(* shown, x11 the load of the page, x12 the dialogs a request has crossed. *)
(***************************************************************************)
LinkReload == [act |-> "load", key |-> OfLink!None]
LinkCalls == [of : Links \cup {OfLink!None}, mode : OfLink!Modes \cup {OfLink!NoMode, LinkReload}]

(* What the requests and what is shown hold.                               *)
LinkShapes ==
    /\ calls \in [OfLink!Ops \cup KeyCalls -> LinkCalls]
    /\ x10 \in [secret : LinkCalls, peering : Links \cup {OfLink!None}]

(* A closed drawer has forgotten its keys.                                 *)
LinkClosed ==
    x1 = OfLink!None => x10.secret = OfLink!NoCall /\ \A c \in KeyCalls : calls[c].of = OfLink!None

(* A key that is shown, or will be, is under the link and the title it was *)
(* asked under.                                                            *)
LinkKeys ==
    x1 # OfLink!None /\ x7 = "key" /\ "key" \notin x12 =>
        /\ x10.secret # OfLink!NoCall => Pair[x10.secret.of] = Pair[x1] /\ x10.secret.mode = x8
        /\ \A c \in KeyCalls : calls[c].of # OfLink!None => Pair[calls[c].of] = Pair[x1] /\ calls[c].mode = x8

LinkPeering ==
    x1 # OfLink!None /\ x7 = "peering" /\ "peering" \notin x12 =>
        x10.peering \in {OfLink!None, x1} /\ calls["peering"].of \in {OfLink!None, x1}

LinkInv ==
    /\ OfLink!TypeOK /\ LinkShapes /\ OfLink!NoDeadButton /\ OfLink!NoteOfLink
    /\ LinkClosed /\ LinkKeys /\ LinkPeering

LEMMA LinkNoCall ==
    /\ OfLink!NoCall \in LinkCalls /\ OfLink!NoCall.of = OfLink!None /\ OfLink!NoCall.mode = OfLink!NoMode
    /\ \A l \in Links, m \in OfLink!Modes \cup {OfLink!NoMode, LinkReload} :
           [of |-> l, mode |-> m] \in LinkCalls
BY DEF OfLink!NoCall, LinkCalls

LEMMA LinkInit == ASSUME OfLink!Init PROVE LinkInv
<1>1. x2 = [l \in Links |-> CHOOSE t \in NoteTexts : TRUE] /\ x3 = x2
      /\ x1 = (CHOOSE l \in Links : TRUE) /\ x4 = x2[x1]
      /\ x5 = {} /\ x6 = [p \in OfLink!Parts |-> OfLink!None] /\ x7 = OfLink!None /\ x8 = OfLink!NoMode
      /\ x9 = OfLink!Blank /\ x10 = [secret |-> OfLink!NoCall, peering |-> OfLink!None]
      /\ calls = [c \in OfLink!Ops \cup KeyCalls |-> OfLink!NoCall] /\ busy = {} /\ x11 = FALSE
      /\ x12 = {} /\ steps = 0
    BY DEF OfLink!Init
<1>2. x1 \in Links /\ x1 # OfLink!None
    BY <1>1, LinksAssumption DEF OfLink!None
<1>3. (CHOOSE t \in NoteTexts : TRUE) \in NoteTexts
    BY TextsAssumption
<1>4. x2 \in [Links -> NoteTexts] /\ x4 \in NoteTexts /\ x4 # OfLink!None
    BY <1>1, <1>2, <1>3, TextsAssumption DEF OfLink!None
<1>5. LinkShapes
    BY <1>1, LinkNoCall DEF LinkShapes
<1>6. steps \in 0..MoreSteps
    BY <1>1
<1>7. x9 \in [filled : BOOLEAN, custom : BOOLEAN]
    BY <1>1 DEF OfLink!Blank
<1>8. x10.secret.of \in Links \cup {OfLink!None} /\ x10.peering \in Links \cup {OfLink!None}
      /\ \A c \in OfLink!Ops \cup KeyCalls : calls[c].of \in Links \cup {OfLink!None}
    BY <1>5 DEF LinkShapes, LinkCalls
<1>9. x2 \in [Links -> NoteTexts \cup {OfLink!Gone}] /\ x3 \in [Links -> NoteTexts \cup {OfLink!Gone}]
    BY <1>1, <1>4
<1>10. x6 \in [OfLink!Parts -> Links \cup {OfLink!None}]
    BY <1>1
<1>11. OfLink!TypeOK
    BY <1>1, <1>2, <1>4, <1>6, <1>7, <1>8, <1>9, <1>10 DEF OfLink!TypeOK
<1>12. OfLink!NoDeadButton /\ OfLink!NoteOfLink
    BY <1>1 DEF OfLink!NoDeadButton, OfLink!NoteOfLink
<1>13. LinkClosed /\ LinkKeys /\ LinkPeering
    BY <1>1, <1>2 DEF LinkClosed, LinkKeys, LinkPeering, OfLink!None
<1>14. QED
    BY <1>5, <1>11, <1>12, <1>13 DEF LinkInv

LEMMA LinkTyped ==
    ASSUME LinkInv
    PROVE  /\ x1 \in Links \cup {OfLink!None} /\ x2 \in [Links -> NoteTexts \cup {OfLink!Gone}]
           /\ x3 \in [Links -> NoteTexts \cup {OfLink!Gone}] /\ x4 \in NoteTexts \cup {OfLink!None}
           /\ ((x4 = OfLink!None) <=> (x1 = OfLink!None))
           /\ x5 \subseteq OfLink!Parts /\ x6 \in [OfLink!Parts -> Links \cup {OfLink!None}]
           /\ x7 \in {OfLink!None, "key", "peering"} /\ x8 \in OfLink!Modes \cup {OfLink!NoMode}
           /\ x9 \in [filled : BOOLEAN, custom : BOOLEAN]
           /\ busy \subseteq OfLink!Ops \cup {"key"} /\ x11 \in BOOLEAN
           /\ x12 \subseteq {"key", "peering"} /\ steps \in 0..MoreSteps
           /\ LinkShapes /\ OfLink!NoDeadButton /\ OfLink!NoteOfLink /\ LinkClosed /\ LinkKeys /\ LinkPeering
BY DEF LinkInv, OfLink!TypeOK

(* The drawer gets a link.                                                 *)
LEMMA LinkGets ==
    ASSUME LinkInv, NEW l \in Links, NEW notes, NEW ends, x1' = l, OfLink!Drafts(l, notes, ends),
           x12' = OfLink!Crossed(l), x7' = x7, x8' = x8,
           \A c \in KeyCalls \cup {"peering"} : calls'[c] = calls[c],
           x10'.peering = x10.peering,
           x10'.secret = OfLink!NoCall \/ ( /\ x10'.secret = x10.secret
                                            /\ ~(x7 = "key" /\ (x1 = OfLink!None \/ Pair[l] # Pair[x1])))
    PROVE  /\ x5' \subseteq OfLink!Parts /\ x6' \in [OfLink!Parts -> Links \cup {OfLink!None}]
           /\ x12' \subseteq {"key", "peering"}
           /\ OfLink!NoteOfLink' /\ LinkClosed' /\ LinkKeys' /\ LinkPeering'
<1>1. /\ x5 \subseteq OfLink!Parts /\ x6 \in [OfLink!Parts -> Links \cup {OfLink!None}]
      /\ x12 \subseteq {"key", "peering"}
      /\ OfLink!NoteOfLink /\ LinkClosed /\ LinkKeys /\ LinkPeering
    BY LinkTyped
<1>2. l # OfLink!None /\ x1' # OfLink!None
    BY DEF OfLink!None
<1>3. \/ /\ x1 # OfLink!None /\ Pair[l] = Pair[x1] /\ x5' = x5 \ ends
         /\ x6' = [p \in OfLink!Parts |-> IF p \in ends THEN OfLink!None ELSE x6[p]]
      \/ x5' = {} /\ x6' = [p \in OfLink!Parts |-> OfLink!None]
    BY <1>2 DEF OfLink!Drafts, OfLink!SameForEffect
<1>4. x5' \subseteq OfLink!Parts /\ x6' \in [OfLink!Parts -> Links \cup {OfLink!None}]
    BY <1>1, <1>3
<1>5. OfLink!NoteOfLink'
    <2>1. CASE /\ x1 # OfLink!None /\ Pair[l] = Pair[x1] /\ x5' = x5 \ ends
               /\ x6' = [p \in OfLink!Parts |-> IF p \in ends THEN OfLink!None ELSE x6[p]]
        <3>1. \A p \in x5' : p \in x5 /\ x6'[p] = x6[p]
            BY <1>1, <2>1
        <3>2. QED
            BY <1>1, <2>1, <3>1 DEF OfLink!NoteOfLink
    <2>2. CASE x5' = {} /\ x6' = [p \in OfLink!Parts |-> OfLink!None]
        BY <2>2 DEF OfLink!NoteOfLink
    <2>3. QED
        BY <1>3, <2>1, <2>2
<1>6. x12' \subseteq {"key", "peering"} /\ x12 \subseteq x12'
    BY <1>1 DEF OfLink!Crossed
<1>7. LinkClosed'
    BY <1>2 DEF LinkClosed
<1>8. LinkKeys'
    <2>1. SUFFICES ASSUME x7 = "key", "key" \notin x12'
                   PROVE  /\ x10'.secret # OfLink!NoCall => Pair[x10'.secret.of] = Pair[l] /\ x10'.secret.mode = x8
                          /\ \A c \in KeyCalls : calls[c].of # OfLink!None => Pair[calls[c].of] = Pair[l] /\ calls[c].mode = x8
        BY DEF LinkKeys
    <2>2. l = x1 \/ ~OfLink!KeyUnderWay
        BY <1>2, <2>1 DEF OfLink!Crossed
    <2>3. \A c \in KeyCalls : calls[c].of # OfLink!None => Pair[calls[c].of] = Pair[l] /\ calls[c].mode = x8
        BY <1>1, <1>2, <1>6, <2>1, <2>2 DEF LinkKeys, OfLink!KeyUnderWay, OfLink!UnderWay
    <2>4. x10'.secret # OfLink!NoCall => Pair[x10'.secret.of] = Pair[l] /\ x10'.secret.mode = x8
        BY <1>1, <1>6, <2>1 DEF LinkKeys
    <2>5. QED
        BY <2>3, <2>4
<1>9. LinkPeering'
    <2>1. SUFFICES ASSUME x7 = "peering", "peering" \notin x12'
                   PROVE  x10.peering \in {OfLink!None, l} /\ calls["peering"].of \in {OfLink!None, l}
        BY DEF LinkPeering
    <2>2. l = x1
        BY <2>1 DEF OfLink!Crossed
    <2>3. QED
        BY <1>1, <1>2, <1>6, <2>1, <2>2 DEF LinkPeering
<1>10. QED
    BY <1>4, <1>5, <1>6, <1>7, <1>8, <1>9

(* The drawer closes: it forgets its keys.                                 *)
LEMMA LinkCloses ==
    ASSUME x1' = OfLink!None, x10'.secret = OfLink!NoCall, \A c \in KeyCalls : calls'[c].of = OfLink!None
    PROVE  OfLink!NoteOfLink' /\ LinkClosed' /\ LinkKeys' /\ LinkPeering'
BY DEF OfLink!NoteOfLink, LinkClosed, LinkKeys, LinkPeering

LEMMA LinkStep == ASSUME LinkInv, OfLink!Next \/ UNCHANGED OfLink!vars PROVE LinkInv'
<1>1. /\ x1 \in Links \cup {OfLink!None} /\ x2 \in [Links -> NoteTexts \cup {OfLink!Gone}]
      /\ x3 \in [Links -> NoteTexts \cup {OfLink!Gone}] /\ x4 \in NoteTexts \cup {OfLink!None}
      /\ ((x4 = OfLink!None) <=> (x1 = OfLink!None))
      /\ x5 \subseteq OfLink!Parts /\ x6 \in [OfLink!Parts -> Links \cup {OfLink!None}]
      /\ x7 \in {OfLink!None, "key", "peering"} /\ x8 \in OfLink!Modes \cup {OfLink!NoMode}
      /\ x9 \in [filled : BOOLEAN, custom : BOOLEAN]
      /\ busy \subseteq OfLink!Ops \cup {"key"} /\ x11 \in BOOLEAN
      /\ x12 \subseteq {"key", "peering"} /\ steps \in 0..MoreSteps
    BY LinkTyped
<1>2. LinkShapes /\ OfLink!NoDeadButton /\ OfLink!NoteOfLink /\ LinkClosed /\ LinkKeys /\ LinkPeering
    BY LinkTyped
<1>3. OfLink!Step => steps' \in 0..MoreSteps
    BY <1>1 DEF OfLink!Step
<1>4. OfLink!Blank \in [filled : BOOLEAN, custom : BOOLEAN]
    BY DEF OfLink!Blank
<1>5. OfLink!Parts \subseteq OfLink!Ops /\ "peering" \in OfLink!Ops /\ OfLink!Ops \cap KeyCalls = {} /\ "key" \notin OfLink!Ops
    BY LinksAssumption DEF OfLink!Ops, OfLink!Parts
<1>6. ASSUME x1' \in Links \cup {OfLink!None}, x2' \in [Links -> NoteTexts \cup {OfLink!Gone}],
             x3' \in [Links -> NoteTexts \cup {OfLink!Gone}], x4' \in NoteTexts \cup {OfLink!None}, (x4' = OfLink!None) <=> (x1' = OfLink!None),
             x5' \subseteq OfLink!Parts, x6' \in [OfLink!Parts -> Links \cup {OfLink!None}],
             x7' \in {OfLink!None, "key", "peering"}, x8' \in OfLink!Modes \cup {OfLink!NoMode},
             x9' \in [filled : BOOLEAN, custom : BOOLEAN],
             busy' \subseteq OfLink!Ops \cup {"key"}, x11' \in BOOLEAN,
             x12' \subseteq {"key", "peering"}, steps' \in 0..MoreSteps,
             LinkShapes', OfLink!NoDeadButton', OfLink!NoteOfLink', LinkClosed', LinkKeys', LinkPeering'
      PROVE  LinkInv'
    <2>1. x10'.secret.of \in Links \cup {OfLink!None} /\ x10'.peering \in Links \cup {OfLink!None}
          /\ \A c \in OfLink!Ops \cup KeyCalls : calls'[c].of \in Links \cup {OfLink!None}
        BY <1>6 DEF LinkShapes, LinkCalls
    <2>2. OfLink!TypeOK'
        BY <1>6, <2>1 DEF OfLink!TypeOK
    <2>3. QED
        BY <1>6, <2>2 DEF LinkInv
<1>7. CASE \E l \in Links : OfLink!HandleSelectLink(l)
    <2>1. PICK l \in Links : OfLink!HandleSelectLink(l)
        BY <1>7
    <2>2. /\ x1 = OfLink!None /\ x3[l] \in NoteTexts /\ OfLink!Step /\ x1' = l /\ x4' = x3[l]
          /\ OfLink!Drafts(l, x3[l], {}) /\ OfLink!KeyDialog(l) /\ x12' = OfLink!Crossed(l)
          /\ UNCHANGED <<x2, x3, x7, x8, x11>>
        BY <1>1, <2>1 DEF OfLink!HandleSelectLink, OfLink!SetSelectedLink, OfLink!None
    <2>3. /\ calls' = calls
          /\ \/ /\ x7 = "key" /\ x9' = OfLink!Blank /\ busy' = busy \ {"key"}
                /\ x10' = [x10 EXCEPT !.secret = OfLink!NoCall]
             \/ x7 # "key" /\ UNCHANGED <<x9, x10, busy>>
        BY <2>1, <2>2 DEF OfLink!KeyDialog, OfLink!None
    <2>4. LinkShapes' /\ x10'.peering = x10.peering
          /\ (x10'.secret = OfLink!NoCall \/ (x10'.secret = x10.secret /\ x7 # "key"))
        BY <1>2, <2>3, LinkNoCall DEF LinkShapes
    <2>5. OfLink!NoDeadButton'
        BY <1>2, <2>3 DEF OfLink!NoDeadButton, OfLink!KeyUnderWay, OfLink!UnderWay
    <2>6. /\ x5' \subseteq OfLink!Parts /\ x6' \in [OfLink!Parts -> Links \cup {OfLink!None}]
          /\ x12' \subseteq {"key", "peering"}
          /\ OfLink!NoteOfLink' /\ LinkClosed' /\ LinkKeys' /\ LinkPeering'
        BY <2>2, <2>3, <2>4, LinkGets
    <2>7. x9' \in [filled : BOOLEAN, custom : BOOLEAN] /\ busy' \subseteq OfLink!Ops \cup {"key"}
        BY <1>1, <1>4, <2>3
    <2>8. x4' # OfLink!None /\ x1' # OfLink!None
        BY <2>2, TextsAssumption DEF OfLink!None
    <2>9. QED
        BY <1>1, <1>3, <1>6, <2>2, <2>4, <2>5, <2>6, <2>7, <2>8
<1>8. CASE OfLink!CloseDrawer
    <2>1. /\ x1' = OfLink!None /\ x4' = OfLink!None /\ OfLink!Drafts(OfLink!None, OfLink!None, {}) /\ OfLink!KeyDialog(OfLink!None) /\ x12' = OfLink!Crossed(OfLink!None)
          /\ UNCHANGED <<x2, x3, x7, x8, x11, steps>>
        BY <1>8 DEF OfLink!CloseDrawer, OfLink!SetSelectedLink
    <2>2. UNCHANGED <<x5, x6>>
        BY <2>1 DEF OfLink!Drafts
    <2>3. /\ x9' = OfLink!Blank /\ busy' = busy \ {"key"}
          /\ calls' = [c \in OfLink!Ops \cup KeyCalls |-> IF c \in KeyCalls THEN OfLink!NoCall ELSE calls[c]]
          /\ x10' = [x10 EXCEPT !.secret = OfLink!NoCall]
        BY <2>1 DEF OfLink!KeyDialog
    <2>4. LinkShapes' /\ x10'.secret = OfLink!NoCall
        BY <1>2, <2>3, LinkNoCall DEF LinkShapes
    <2>5. (\A c \in KeyCalls : calls'[c].of = OfLink!None) /\ \A op \in OfLink!Ops : calls'[op] = calls[op]
        BY <1>5, <2>3, LinkNoCall
    <2>6. OfLink!NoDeadButton'
        BY <1>1, <1>2, <2>3, <2>5 DEF OfLink!NoDeadButton, OfLink!UnderWay
    <2>7. OfLink!NoteOfLink' /\ LinkClosed' /\ LinkKeys' /\ LinkPeering'
        BY <2>1, <2>4, <2>5, LinkCloses
    <2>8. x12' \subseteq {"key", "peering"}
        BY <1>1, <2>1 DEF OfLink!Crossed
    <2>9. x9' \in [filled : BOOLEAN, custom : BOOLEAN] /\ busy' \subseteq OfLink!Ops \cup {"key"}
        BY <1>1, <1>4, <2>3
    <2>10. QED
        BY <1>1, <1>6, <2>1, <2>2, <2>4, <2>6, <2>7, <2>8, <2>9
<1>9. ASSUME UNCHANGED <<x1, x5, x6, x7, x8, x10, calls, busy, x12>>
      PROVE  LinkShapes' /\ OfLink!NoDeadButton' /\ OfLink!NoteOfLink' /\ LinkClosed' /\ LinkKeys' /\ LinkPeering'
    BY <1>2, <1>9 DEF LinkShapes, OfLink!NoDeadButton, OfLink!KeyUnderWay, OfLink!UnderWay, OfLink!NoteOfLink, LinkClosed, LinkKeys, LinkPeering
<1>10. CASE \E l \in Links, t \in NoteTexts : OfLink!ChangedElsewhere(l, t)
    <2>1. /\ x2' \in [Links -> NoteTexts \cup {OfLink!Gone}] /\ OfLink!Step /\ x11' = TRUE
          /\ UNCHANGED <<x1, x3, x4, x5, x6, x7, x8, x9, x10, calls, busy, x12>>
        BY <1>1, <1>10 DEF OfLink!ChangedElsewhere
    <2>2. QED
        BY <1>1, <1>3, <1>6, <1>9, <2>1
<1>11. CASE OfLink!LoadArrives
    <2> DEFINE gone == x1 # OfLink!None /\ x2[x1] = OfLink!Gone
    <2>1. /\ x11' = FALSE /\ x3' = x2 /\ x1' = (IF gone THEN OfLink!None ELSE x1)
          /\ x4' = (IF x1' = OfLink!None THEN OfLink!None ELSE x2[x1])
          /\ OfLink!Drafts(x1', x4', {}) /\ x12' = OfLink!Crossed(x1')
          /\ x9' = (IF gone THEN OfLink!Blank ELSE x9)
          /\ x10' = (IF gone THEN [x10 EXCEPT !.secret = OfLink!NoCall] ELSE x10)
          /\ calls' = [c \in OfLink!Ops \cup KeyCalls |->
                           IF \/ c = "refresh"
                              \/ gone /\ c \in KeyCalls
                              \/ c = "restart" /\ calls[c].mode.act = "load"
                           THEN OfLink!NoCall ELSE calls[c]]
          /\ busy' = {op \in busy : IF op = "key" THEN ~gone ELSE calls'[op].of # OfLink!None}
          /\ UNCHANGED <<x2, x7, x8, steps>>
        BY <1>11 DEF OfLink!LoadArrives
    <2>2. LinkShapes'
        BY <1>2, <2>1, LinkNoCall DEF LinkShapes
    <2>3. /\ \A c \in KeyCalls : calls'[c] = IF gone THEN OfLink!NoCall ELSE calls[c]
          /\ calls'["peering"] = calls["peering"]
        BY <1>5, <2>1 DEF OfLink!Ops, OfLink!Parts
    <2>4. OfLink!NoDeadButton'
        BY <1>2, <2>1, <2>3 DEF OfLink!NoDeadButton, OfLink!KeyUnderWay, OfLink!UnderWay
    <2>5. x9' \in [filled : BOOLEAN, custom : BOOLEAN] /\ busy' \subseteq OfLink!Ops \cup {"key"}
        BY <1>1, <1>4, <2>1
    <2>6. /\ x1' \in Links \cup {OfLink!None} /\ x4' \in NoteTexts \cup {OfLink!None}
          /\ ((x4' = OfLink!None) <=> (x1' = OfLink!None))
        BY <1>1, <2>1, TextsAssumption DEF OfLink!None
    <2>7. /\ x5' \subseteq OfLink!Parts /\ x6' \in [OfLink!Parts -> Links \cup {OfLink!None}]
          /\ x12' \subseteq {"key", "peering"}
          /\ OfLink!NoteOfLink' /\ LinkClosed' /\ LinkKeys' /\ LinkPeering'
        <3>1. CASE x1' # OfLink!None
            <4>1. x1' = x1 /\ x1 \in Links /\ ~gone
                BY <1>1, <2>1, <3>1
            <4>2. OfLink!Drafts(x1, x4', {}) /\ x12' = OfLink!Crossed(x1) /\ x10' = x10
                BY <2>1, <4>1
            <4>3. \A c \in KeyCalls \cup {"peering"} : calls'[c] = calls[c]
                BY <2>3, <4>1
            <4>4. ~(x7 = "key" /\ (x1 = OfLink!None \/ Pair[x1] # Pair[x1]))
                BY <3>1, <4>1
            <4>5. QED
                BY <2>1, <4>1, <4>2, <4>3, <4>4, LinkGets
        <3>2. CASE x1' = OfLink!None
            <4>1. UNCHANGED <<x5, x6>>
                BY <2>1, <3>2 DEF OfLink!Drafts
            <4>2. x12' \subseteq {"key", "peering"}
                BY <1>1, <2>1 DEF OfLink!Crossed
            <4>3. x10'.secret = OfLink!NoCall /\ \A c \in KeyCalls : calls'[c].of = OfLink!None
                <5>1. CASE gone
                    BY <1>2, <2>1, <2>3, <5>1, LinkNoCall DEF LinkShapes
                <5>2. CASE ~gone
                    BY <1>2, <2>1, <2>3, <3>2, <5>2 DEF LinkClosed
                <5>3. QED
                    BY <5>1, <5>2
            <4>4. QED
                BY <1>1, <3>2, <4>1, <4>2, <4>3, LinkCloses
        <3>3. QED
            BY <3>1, <3>2
    <2>8. x11' \in BOOLEAN /\ x3' \in [Links -> NoteTexts \cup {OfLink!Gone}] /\ UNCHANGED <<x2, x7, x8, steps>>
        BY <1>1, <2>1
    <2>9. QED
        BY <1>1, <1>6, <2>2, <2>4, <2>5, <2>6, <2>7, <2>8
<1>12. CASE \E p \in OfLink!Parts : OfLink!EditNote(p) \/ OfLink!TypeNote(p) \/ OfLink!CancelNote(p)
    <2>1. PICK p \in OfLink!Parts : OfLink!EditNote(p) \/ OfLink!TypeNote(p) \/ OfLink!CancelNote(p)
        BY <1>12
    <2>2. /\ x1 # OfLink!None /\ steps' \in 0..MoreSteps /\ x5' \subseteq x5 \cup {p}
          /\ \/ x6' = [x6 EXCEPT ![p] = OfLink!None] \/ x6' = [x6 EXCEPT ![p] = x1]
          /\ UNCHANGED <<x1, x2, x3, x4, x7, x8, x9, x10, calls, busy, x11, x12>>
        BY <1>1, <1>3, <2>1 DEF OfLink!EditNote, OfLink!TypeNote, OfLink!CancelNote, OfLink!Drawer
    <2>3. /\ x5' \subseteq OfLink!Parts /\ x6' \in [OfLink!Parts -> Links \cup {OfLink!None}]
          /\ x6'[p] \in {OfLink!None, x1} /\ \A q \in OfLink!Parts \ {p} : x6'[q] = x6[q]
        BY <1>1, <2>1, <2>2
    <2>4. OfLink!NoteOfLink'
        BY <1>2, <2>2, <2>3 DEF OfLink!NoteOfLink
    <2>5. LinkShapes' /\ OfLink!NoDeadButton' /\ LinkClosed' /\ LinkKeys' /\ LinkPeering'
        BY <1>2, <2>2 DEF LinkShapes, OfLink!NoDeadButton, OfLink!KeyUnderWay, OfLink!UnderWay, LinkClosed, LinkKeys, LinkPeering
    <2>6. QED
        BY <1>1, <1>6, <2>2, <2>3, <2>4, <2>5
<1>13. CASE \E op \in OfLink!Ops : /\ x1 # OfLink!None /\ calls' = [calls EXCEPT ![op].of = x1] /\ busy' = busy \cup {op}
                                   /\ x11' \in {x11, TRUE}
                                   /\ UNCHANGED <<x1, x2, x3, x4, x5, x6, x7, x8, x9, x10,
                                           x12, steps>>
    <2>1. PICK op \in OfLink!Ops : /\ x1 # OfLink!None /\ calls' = [calls EXCEPT ![op].of = x1] /\ busy' = busy \cup {op}
                                   /\ x11' \in {x11, TRUE}
                                   /\ UNCHANGED <<x1, x2, x3, x4, x5, x6, x7, x8, x9, x10,
                                           x12, steps>>
        BY <1>13
    <2>2. x1 \in Links
        BY <1>1, <2>1
    <2>3. calls[op] \in LinkCalls /\ [calls[op] EXCEPT !.of = x1] \in LinkCalls
          /\ [calls[op] EXCEPT !.of = x1].of = x1
        BY <1>2, <2>2 DEF LinkShapes, LinkCalls
    <2>4. calls' = [calls EXCEPT ![op] = [calls[op] EXCEPT !.of = x1]]
        BY <2>1
    <2>5. LinkShapes'
        BY <1>2, <2>1, <2>3, <2>4 DEF LinkShapes
    <2>6. calls'[op].of = x1 /\ \A c \in (OfLink!Ops \cup KeyCalls) \ {op} : calls'[c] = calls[c]
        BY <1>2, <2>3, <2>4 DEF LinkShapes
    <2>7. \A c \in KeyCalls : calls'[c] = calls[c]
        BY <1>5, <2>6
    <2>8. OfLink!NoDeadButton'
        BY <1>1, <1>2, <1>5, <2>1, <2>2, <2>6, <2>7 DEF OfLink!NoDeadButton, OfLink!KeyUnderWay, OfLink!UnderWay
    <2>9. LinkClosed' /\ LinkKeys'
        BY <1>2, <2>1, <2>7 DEF LinkClosed, LinkKeys
    <2>10. LinkPeering'
        BY <1>2, <1>5, <2>1, <2>6 DEF LinkPeering
    <2>11. OfLink!NoteOfLink'
        BY <1>2, <2>1 DEF OfLink!NoteOfLink
    <2>12. busy' \subseteq OfLink!Ops \cup {"key"} /\ x11' \in BOOLEAN
        BY <1>1, <2>1
    <2>13. QED
        BY <1>1, <1>6, <2>1, <2>5, <2>8, <2>9, <2>10, <2>11, <2>12
<1>14. CASE \E p \in OfLink!Parts, t \in NoteTexts : OfLink!NoteSaved(p, t)
    <2>1. PICK p \in OfLink!Parts, t \in NoteTexts : OfLink!NoteSaved(p, t)
        BY <1>14
    <2> DEFINE l == calls[p].of
               over == x7 = "key" /\ (x1 = OfLink!None \/ Pair[l] # Pair[x1])
    <2>2. /\ l # OfLink!None /\ x2' = [x2 EXCEPT ![l] = t] /\ x11' = TRUE
          /\ x1' = l /\ x4' = t /\ OfLink!Drafts(l, t, {p}) /\ x12' = OfLink!Crossed(l)
          /\ calls' = [calls EXCEPT ![p] = OfLink!NoCall]
          /\ x9' = (IF over THEN OfLink!Blank ELSE x9)
          /\ x10' = (IF over THEN [x10 EXCEPT !.secret = OfLink!NoCall] ELSE x10)
          /\ busy' = busy \ ({p} \cup (IF over THEN {"key"} ELSE {}))
          /\ UNCHANGED <<x3, x7, x8, steps>>
        BY <2>1 DEF OfLink!NoteSaved, OfLink!UnderWay
    <2>3. p \in OfLink!Ops /\ p # "peering" /\ p \notin KeyCalls /\ p # "key"
        BY <1>5, <2>1 DEF OfLink!Parts
    <2>4. l \in Links
        BY <1>2, <2>2, <2>3 DEF LinkShapes, LinkCalls
    <2>5. LinkShapes' /\ x10'.peering = x10.peering
          /\ (x10'.secret = OfLink!NoCall \/ (x10'.secret = x10.secret /\ ~over))
        BY <1>2, <2>2, LinkNoCall DEF LinkShapes
    <2>6. \A c \in (OfLink!Ops \cup KeyCalls) \ {p} : calls'[c] = calls[c]
        BY <1>2, <2>2 DEF LinkShapes
    <2>7. \A c \in KeyCalls \cup {"peering"} : calls'[c] = calls[c]
        BY <1>5, <2>3, <2>6
    <2>8. busy' \subseteq busy \ {p}
        BY <2>2
    <2>9. OfLink!NoDeadButton'
        BY <1>1, <1>2, <2>6, <2>7, <2>8 DEF OfLink!NoDeadButton, OfLink!KeyUnderWay, OfLink!UnderWay
    <2>10. /\ x5' \subseteq OfLink!Parts /\ x6' \in [OfLink!Parts -> Links \cup {OfLink!None}]
           /\ x12' \subseteq {"key", "peering"}
           /\ OfLink!NoteOfLink' /\ LinkClosed' /\ LinkKeys' /\ LinkPeering'
        <3>1. l \in Links /\ x1' = l /\ OfLink!Drafts(l, t, {p}) /\ x12' = OfLink!Crossed(l) /\ x7' = x7 /\ x8' = x8
            BY <2>2, <2>4
        <3>2. x10'.secret = OfLink!NoCall \/ ( /\ x10'.secret = x10.secret
                                               /\ ~(x7 = "key" /\ (x1 = OfLink!None \/ Pair[l] # Pair[x1])))
            BY <2>5
        <3>3. QED
            BY <2>5, <2>7, <3>1, <3>2, LinkGets
    <2>11. x9' \in [filled : BOOLEAN, custom : BOOLEAN] /\ busy' \subseteq OfLink!Ops \cup {"key"}
        BY <1>1, <1>4, <2>2, <2>8
    <2>12. x2' \in [Links -> NoteTexts \cup {OfLink!Gone}] /\ x4' # OfLink!None /\ x1' # OfLink!None /\ x4' \in NoteTexts
        BY <1>1, <2>1, <2>2, TextsAssumption DEF OfLink!None
    <2>13. QED
        BY <1>1, <1>6, <2>2, <2>4, <2>5, <2>9, <2>10, <2>11, <2>12
<1>15. CASE OfLink!Restarted
    <2>1. /\ x11' = TRUE /\ calls' = [calls EXCEPT !["restart"].mode = LinkReload]
          /\ UNCHANGED <<x1, x2, x3, x4, x5, x6, x7, x8, x9, x10, busy, x12, steps>>
        BY <1>15 DEF OfLink!Restarted, LinkReload
    <2>2. "restart" \in OfLink!Ops /\ "restart" \notin KeyCalls /\ "restart" # "peering"
        BY <1>5 DEF OfLink!Ops
    <2>3. calls["restart"] \in LinkCalls /\ [calls["restart"] EXCEPT !.mode = LinkReload] \in LinkCalls
          /\ [calls["restart"] EXCEPT !.mode = LinkReload].of = calls["restart"].of
        BY <1>2, <2>2 DEF LinkShapes, LinkCalls
    <2>4. calls' = [calls EXCEPT !["restart"] = [calls["restart"] EXCEPT !.mode = LinkReload]]
        BY <2>1
    <2>5. LinkShapes'
        BY <1>2, <2>1, <2>2, <2>3, <2>4 DEF LinkShapes
    <2>6. /\ \A c \in (OfLink!Ops \cup KeyCalls) \ {"restart"} : calls'[c] = calls[c]
          /\ \A c \in OfLink!Ops \cup KeyCalls : calls'[c].of = calls[c].of
        BY <1>2, <2>2, <2>3, <2>4 DEF LinkShapes
    <2>7. \A c \in KeyCalls \cup {"peering"} : calls'[c] = calls[c]
        BY <1>5, <2>2, <2>6
    <2>8. OfLink!NoDeadButton'
        BY <1>1, <1>2, <2>1, <2>6 DEF OfLink!NoDeadButton, OfLink!KeyUnderWay, OfLink!UnderWay
    <2>9. OfLink!NoteOfLink' /\ LinkClosed' /\ LinkKeys' /\ LinkPeering'
        BY <1>2, <2>1, <2>7 DEF OfLink!NoteOfLink, LinkClosed, LinkKeys, LinkPeering
    <2>10. QED
        BY <1>1, <1>6, <2>1, <2>5, <2>8, <2>9
<1>16. CASE OfLink!Deleted
    <2>1. /\ calls["delete"].of # OfLink!None /\ x2' = [x2 EXCEPT ![calls["delete"].of] = OfLink!Gone] /\ x11' = TRUE
          /\ x1' = OfLink!None /\ x4' = OfLink!None /\ x12' = OfLink!Crossed(OfLink!None)
          /\ x9' = OfLink!Blank /\ x10' = [x10 EXCEPT !.secret = OfLink!NoCall]
          /\ calls' = [c \in OfLink!Ops \cup KeyCalls |-> IF c \in KeyCalls \cup {"delete"} THEN OfLink!NoCall ELSE calls[c]]
          /\ busy' = busy \ {"key", "delete"}
          /\ UNCHANGED <<x3, x5, x6, x7, x8, steps>>
        BY <1>16 DEF OfLink!Deleted, OfLink!UnderWay
    <2>2. LinkShapes' /\ x10'.secret = OfLink!NoCall
        BY <1>2, <2>1, LinkNoCall DEF LinkShapes
    <2>3. (\A c \in KeyCalls : calls'[c].of = OfLink!None) /\ \A op \in OfLink!Ops \ {"delete"} : calls'[op] = calls[op]
        BY <1>5, <2>1, LinkNoCall
    <2>4. OfLink!NoDeadButton'
        BY <1>1, <1>2, <2>1, <2>3 DEF OfLink!NoDeadButton, OfLink!UnderWay
    <2>5. OfLink!NoteOfLink' /\ LinkClosed' /\ LinkKeys' /\ LinkPeering'
        BY <2>1, <2>2, <2>3, LinkCloses
    <2>6. x12' \subseteq {"key", "peering"}
        BY <1>1, <2>1 DEF OfLink!Crossed
    <2>7. x9' \in [filled : BOOLEAN, custom : BOOLEAN] /\ busy' \subseteq OfLink!Ops \cup {"key"}
        BY <1>1, <1>4, <2>1
    <2>8. x2' \in [Links -> NoteTexts \cup {OfLink!Gone}]
        BY <1>1, <2>1
    <2>9. QED
        BY <1>1, <1>6, <2>1, <2>2, <2>4, <2>5, <2>6, <2>7, <2>8
<1>17. CASE (\E op \in OfLink!Ops : OfLink!Fails(op)) \/ OfLink!GetPeeringInfoData
    <2>1. PICK op \in OfLink!Ops : /\ calls' = [calls EXCEPT ![op] = OfLink!NoCall] /\ busy' = busy \ {op}
                                   /\ \/ x10' = x10
                                      \/ op = "peering" /\ x10' = [x10 EXCEPT !.peering = calls["peering"].of]
                                   /\ UNCHANGED <<x1, x2, x3, x4, x5, x6, x7, x8, x9, x11,
                                           x12, steps>>
        <3>1. CASE \E op \in OfLink!Ops : OfLink!Fails(op)
            BY <3>1 DEF OfLink!Fails
        <3>2. CASE OfLink!GetPeeringInfoData
            BY <1>5, <3>2 DEF OfLink!GetPeeringInfoData
        <3>3. QED
            BY <1>17, <3>1, <3>2
    <2>2. calls["peering"].of \in Links \cup {OfLink!None}
        BY <1>2, <1>5 DEF LinkShapes, LinkCalls
    <2>3. LinkShapes' /\ x10'.secret = x10.secret
          /\ (x10'.peering = x10.peering \/ x10'.peering = calls["peering"].of)
        <3>1. calls' \in [OfLink!Ops \cup KeyCalls -> LinkCalls]
            BY <1>2, <2>1, LinkNoCall DEF LinkShapes
        <3>2. CASE x10' = x10
            BY <1>2, <3>1, <3>2 DEF LinkShapes
        <3>3. CASE x10' = [x10 EXCEPT !.peering = calls["peering"].of]
            BY <1>2, <2>2, <3>1, <3>3 DEF LinkShapes
        <3>4. QED
            BY <2>1, <3>2, <3>3
    <2>4. calls'[op].of = OfLink!None /\ \A c \in (OfLink!Ops \cup KeyCalls) \ {op} : calls'[c] = calls[c]
        BY <1>2, <2>1, LinkNoCall DEF LinkShapes
    <2>5. \A c \in KeyCalls : calls'[c] = calls[c]
        BY <1>5, <2>4
    <2>6. OfLink!NoDeadButton'
        BY <1>1, <1>2, <2>1, <2>4, <2>5 DEF OfLink!NoDeadButton, OfLink!KeyUnderWay, OfLink!UnderWay
    <2>7. OfLink!NoteOfLink' /\ LinkClosed' /\ LinkKeys'
        BY <1>2, <2>1, <2>3, <2>5 DEF OfLink!NoteOfLink, LinkClosed, LinkKeys
    <2>8. LinkPeering'
        <3>1. calls'["peering"].of \in {OfLink!None, calls["peering"].of}
            BY <1>5, <2>4
        <3>2. QED
            BY <1>2, <2>1, <2>3, <3>1 DEF LinkPeering
    <2>9. busy' \subseteq OfLink!Ops \cup {"key"}
        BY <1>1, <2>1
    <2>10. QED
        BY <1>1, <1>6, <2>1, <2>3, <2>6, <2>7, <2>8, <2>9
<1>18. CASE \E m \in OfLink!Modes : OfLink!HandleOpenKeyModal(m)
    <2>1. PICK m \in OfLink!Modes : OfLink!HandleOpenKeyModal(m)
        BY <1>18
    <2>2. /\ OfLink!Step /\ x7' = "key" /\ x8' = m /\ x9' = OfLink!Blank /\ x10' = [x10 EXCEPT !.secret = OfLink!NoCall]
          /\ busy' = busy \ {"key"}
          /\ x12' = (IF OfLink!KeyUnderWay THEN x12 \cup {"key"} ELSE x12 \ {"key"})
          /\ UNCHANGED <<x1, x2, x3, x4, x5, x6, calls, x11>>
        BY <2>1 DEF OfLink!HandleOpenKeyModal, OfLink!OpensBlank
    <2>3. LinkShapes' /\ x10'.secret = OfLink!NoCall
        BY <1>2, <2>2, LinkNoCall DEF LinkShapes
    <2>4. OfLink!NoDeadButton'
        BY <1>2, <2>2 DEF OfLink!NoDeadButton, OfLink!KeyUnderWay, OfLink!UnderWay
    <2>5. OfLink!NoteOfLink' /\ LinkClosed' /\ LinkPeering'
        BY <1>2, <2>2, <2>3 DEF OfLink!NoteOfLink, LinkClosed, LinkPeering
    <2>6. LinkKeys'
        BY <2>2, <2>3 DEF LinkKeys, OfLink!KeyUnderWay, OfLink!UnderWay
    <2>7. x12' \subseteq {"key", "peering"} /\ busy' \subseteq OfLink!Ops \cup {"key"}
        BY <1>1, <2>2
    <2>8. QED
        BY <1>1, <1>3, <1>4, <1>6, <2>2, <2>3, <2>4, <2>5, <2>6, <2>7
<1>19. CASE (\E f \in [filled : BOOLEAN, custom : BOOLEAN] : OfLink!EditKeyForm(f)) \/ UNCHANGED OfLink!vars
    <2>1. /\ x9' \in [filled : BOOLEAN, custom : BOOLEAN]
          /\ UNCHANGED <<x1, x2, x3, x4, x5, x6, x7, x8, x10, calls, busy, x11,
                         x12, steps>>
        BY <1>1, <1>19 DEF OfLink!EditKeyForm, OfLink!vars
    <2>2. QED
        BY <1>1, <1>6, <1>9, <2>1
<1>20. CASE OfLink!CloseDialog
    <2>1. /\ x7' = OfLink!None
          /\ UNCHANGED <<x1, x2, x3, x4, x5, x6, x8, x9, x10, calls, busy, x11,
                         x12, steps>>
        BY <1>20 DEF OfLink!CloseDialog
    <2>2. LinkShapes' /\ OfLink!NoDeadButton' /\ OfLink!NoteOfLink' /\ LinkClosed'
        BY <1>2, <2>1 DEF LinkShapes, OfLink!NoDeadButton, OfLink!KeyUnderWay, OfLink!UnderWay, OfLink!NoteOfLink, LinkClosed
    <2>3. LinkKeys' /\ LinkPeering'
        BY <2>1 DEF LinkKeys, LinkPeering, OfLink!None
    <2>4. QED
        BY <1>1, <1>6, <2>1, <2>2, <2>3
<1>21. CASE \E c \in KeyCalls : OfLink!HandleSubmit(c)
    <2>1. PICK c \in KeyCalls : OfLink!HandleSubmit(c)
        BY <1>21
    <2>2. /\ x1 # OfLink!None /\ calls' = [calls EXCEPT ![c] = [of |-> x1, mode |-> x8]]
          /\ busy' = busy \cup {"key"}
          /\ UNCHANGED <<x1, x2, x3, x4, x5, x6, x7, x8, x9, x10, x11, x12,
                         steps>>
        BY <2>1 DEF OfLink!HandleSubmit, OfLink!KeyOpen
    <2>3. x1 \in Links /\ [of |-> x1, mode |-> x8] \in LinkCalls
        BY <1>1, <2>2, LinkNoCall
    <2>4. LinkShapes'
        BY <1>2, <2>1, <2>2, <2>3 DEF LinkShapes
    <2>5. calls'[c].of = x1 /\ calls'[c].mode = x8 /\ \A d \in (OfLink!Ops \cup KeyCalls) \ {c} : calls'[d] = calls[d]
        BY <1>2, <2>1, <2>2 DEF LinkShapes
    <2>6. \A op \in OfLink!Ops : calls'[op] = calls[op]
        BY <1>5, <2>1, <2>5
    <2>7. OfLink!NoDeadButton'
        BY <1>1, <1>2, <2>1, <2>2, <2>5, <2>6 DEF OfLink!NoDeadButton, OfLink!KeyUnderWay, OfLink!UnderWay
    <2>8. OfLink!NoteOfLink' /\ LinkClosed' /\ LinkPeering'
        BY <1>2, <1>5, <2>2, <2>6 DEF OfLink!NoteOfLink, LinkClosed, LinkPeering
    <2>9. LinkKeys'
        BY <1>2, <2>1, <2>2, <2>5 DEF LinkKeys
    <2>10. busy' \subseteq OfLink!Ops \cup {"key"}
        BY <1>1, <2>2
    <2>11. QED
        BY <1>1, <1>6, <2>2, <2>4, <2>7, <2>8, <2>9, <2>10
<1>22. CASE \E c \in KeyCalls : OfLink!KeyArrives(c) \/ OfLink!KeyFails(c)
    <2>1. PICK c \in KeyCalls : OfLink!KeyArrives(c) \/ OfLink!KeyFails(c)
        BY <1>22
    <2>2. /\ calls[c].of # OfLink!None /\ calls' = [calls EXCEPT ![c] = OfLink!NoCall] /\ busy' = busy \ {"key"}
          /\ x10' = x10 \/ x10' = [x10 EXCEPT !.secret = calls[c]]
          /\ x11' \in BOOLEAN
          /\ UNCHANGED <<x1, x2, x3, x4, x5, x6, x7, x8, x9, x12, steps>>
        BY <1>1, <2>1 DEF OfLink!KeyArrives, OfLink!KeyFails, OfLink!UnderWay
    <2>3. LinkShapes' /\ x10'.peering = x10.peering /\ (x10'.secret = x10.secret \/ x10'.secret = calls[c])
        <3>1. calls' \in [OfLink!Ops \cup KeyCalls -> LinkCalls] /\ calls[c] \in LinkCalls
            BY <1>2, <2>1, <2>2, LinkNoCall DEF LinkShapes
        <3>2. CASE x10' = x10
            BY <1>2, <3>1, <3>2 DEF LinkShapes
        <3>3. CASE x10' = [x10 EXCEPT !.secret = calls[c]]
            BY <1>2, <3>1, <3>3 DEF LinkShapes
        <3>4. QED
            BY <2>2, <3>2, <3>3
    <2>4. calls'[c].of = OfLink!None /\ \A d \in (OfLink!Ops \cup KeyCalls) \ {c} : calls'[d] = calls[d]
        BY <1>2, <2>1, <2>2, LinkNoCall DEF LinkShapes
    <2>5. \A op \in OfLink!Ops : calls'[op] = calls[op]
        BY <1>5, <2>1, <2>4
    <2>6. OfLink!NoDeadButton'
        BY <1>1, <1>2, <2>2, <2>5 DEF OfLink!NoDeadButton, OfLink!UnderWay
    <2>7. x1 # OfLink!None
        BY <1>2, <2>1, <2>2 DEF LinkClosed
    <2>8. OfLink!NoteOfLink' /\ LinkClosed' /\ LinkPeering'
        BY <1>2, <1>5, <2>2, <2>3, <2>5, <2>7 DEF OfLink!NoteOfLink, LinkClosed, LinkPeering
    <2>9. LinkKeys'
        BY <1>2, <2>1, <2>2, <2>3, <2>4 DEF LinkKeys
    <2>10. busy' \subseteq OfLink!Ops \cup {"key"}
        BY <1>1, <2>2
    <2>11. QED
        BY <1>1, <1>6, <2>2, <2>3, <2>6, <2>8, <2>9, <2>10
<1>23. CASE OfLink!HandleCopyPeeringInfo
    <2>1. /\ OfLink!Step /\ x7' = "peering" /\ x10' = [x10 EXCEPT !.peering = OfLink!None] /\ busy' = busy \ {"peering"}
          /\ x12' = (IF OfLink!UnderWay("peering") THEN x12 \cup {"peering"} ELSE x12 \ {"peering"})
          /\ UNCHANGED <<x1, x2, x3, x4, x5, x6, x8, x9, calls, x11>>
        BY <1>23 DEF OfLink!HandleCopyPeeringInfo
    <2>2. LinkShapes' /\ x10'.peering = OfLink!None /\ x10'.secret = x10.secret
        BY <1>2, <2>1 DEF LinkShapes
    <2>3. OfLink!NoDeadButton'
        BY <1>2, <2>1 DEF OfLink!NoDeadButton, OfLink!KeyUnderWay, OfLink!UnderWay
    <2>4. OfLink!NoteOfLink' /\ LinkClosed'
        BY <1>2, <2>1, <2>2 DEF OfLink!NoteOfLink, LinkClosed
    <2>5. LinkKeys' /\ LinkPeering'
        BY <2>1, <2>2 DEF LinkKeys, LinkPeering, OfLink!UnderWay
    <2>6. x12' \subseteq {"key", "peering"} /\ busy' \subseteq OfLink!Ops \cup {"key"}
        BY <1>1, <2>1
    <2>7. QED
        BY <1>1, <1>3, <1>6, <2>1, <2>2, <2>3, <2>4, <2>5, <2>6
<1>24. QED
    <2>1. OfLink!EditLinkNote \/ OfLink!EditFromNote \/ OfLink!EditToNote \/ (\E p \in OfLink!Parts : OfLink!CancelNote(p))
              => \E p \in OfLink!Parts : OfLink!EditNote(p) \/ OfLink!TypeNote(p) \/ OfLink!CancelNote(p)
        BY DEF OfLink!EditLinkNote, OfLink!EditFromNote, OfLink!EditToNote, OfLink!Parts
    <2>2. ASSUME NEW op \in OfLink!Ops, x1 # OfLink!None, calls' = [calls EXCEPT ![op].of = x1], busy' = busy \cup {op},
                 x11' \in {x11, TRUE},
                 UNCHANGED <<x1, x2, x3, x4, x5, x6, x7, x8, x9, x10, x12, steps>>
          PROVE  LinkInv'
        BY <1>13, <2>2
    <2>3. ASSUME NEW p \in OfLink!Parts, OfLink!SaveNote(p) PROVE LinkInv'
        BY <1>5, <2>2, <2>3 DEF OfLink!SaveNote, OfLink!Drawer
    <2>4. OfLink!HandleSaveFromNote \/ OfLink!HandleSaveToNote \/ OfLink!HandleSaveLinkNote => LinkInv'
        BY <2>3 DEF OfLink!HandleSaveFromNote, OfLink!HandleSaveToNote, OfLink!HandleSaveLinkNote, OfLink!Parts
    <2>5. OfLink!HandleRestartEnd => LinkInv'
        BY <2>2 DEF OfLink!HandleRestartEnd, OfLink!Press, OfLink!Drawer, OfLink!Ops
    <2>6. OfLink!HandleRefreshLink => LinkInv'
        BY <2>2 DEF OfLink!HandleRefreshLink, OfLink!Press, OfLink!Drawer, OfLink!Ops
    <2>7. OfLink!HandleDelete => LinkInv'
        BY <2>2 DEF OfLink!HandleDelete, OfLink!Press, OfLink!Drawer, OfLink!Ops
    <2>8. OfLink!HandleVerifyAndCopyPeeringInfo => LinkInv'
        BY <1>5, <2>2 DEF OfLink!HandleVerifyAndCopyPeeringInfo
    <2>9. (\E act \in {"reveal", "reset"} : OfLink!OpenPsk(act) \/ OfLink!OpenFromKey(act) \/ OfLink!OpenToKey(act))
              => \E m \in OfLink!Modes : OfLink!HandleOpenKeyModal(m)
        BY DEF OfLink!OpenPsk, OfLink!OpenFromKey, OfLink!OpenToKey, OfLink!Modes, OfLink!Keys
    <2>10. QED
        BY <1>7, <1>8, <1>10, <1>11, <1>12, <1>14, <1>15, <1>16, <1>17, <1>18, <1>19, <1>20, <1>21, <1>22, <1>23,
           <2>1, <2>4, <2>5, <2>6, <2>7, <2>8, <2>9 DEF OfLink!Next, OfLink!RestartFrom, OfLink!RestartTo

LEMMA LinkShows ==
    ASSUME LinkInv PROVE OfLink!TypeOK /\ OfLink!NoDeadButton /\ OfLink!NoteOfLink /\ OfLink!SecretOfTitle /\ OfLink!PeeringOfLink
<1>1. OfLink!TypeOK /\ OfLink!NoDeadButton /\ OfLink!NoteOfLink /\ LinkKeys /\ LinkPeering
    BY DEF LinkInv
<1>2. OfLink!SecretOfTitle
    BY <1>1 DEF LinkKeys, OfLink!SecretOfTitle, OfLink!KeyOpen
<1>3. OfLink!PeeringOfLink
    BY <1>1 DEF LinkPeering, OfLink!PeeringOfLink
<1>4. QED
    BY <1>1, <1>2, <1>3

-----------------------------------------------------------------------------
(***************************************************************************)
(* NodeDrawer.  x1 is the node of the drawer, x2 the notes the server has, *)
(* x3 those of the page, x4 the note shown, x5 and x6 the note edited and  *)
(* whose, x7 the dialog, x8 what is shown, x9 the load of the page, x10    *)
(* the dialogs a request has crossed.                                      *)
(***************************************************************************)
(* Of a dialog that was opened with nothing under way, on a drawer that    *)
(* has its node since, all it asked for is for that node.                  *)
DrawerAnswers ==
    x1 # OfNode!None /\ x7 \in OfNode!Configs \ x10 =>
        /\ calls[x7] \subseteq {x1}
        /\ x7 \in busy \/ x8[x7] = x1

DrawerInv == OfNode!TypeOK /\ OfNode!NoDeadButton /\ OfNode!NoteOfNode /\ DrawerAnswers

LEMMA DrawerInit == ASSUME OfNode!Init PROVE DrawerInv
<1>1. steps = 0 /\ x1 = OfNode!None /\ x4 = OfNode!None /\ x5 = FALSE /\ x6 = OfNode!None /\ x7 = OfNode!None
      /\ busy = {} /\ x9 = FALSE /\ x10 = {} /\ x3 = x2
      /\ x2 = [n \in Nodes |-> CHOOSE t \in NoteTexts : TRUE]
      /\ x8 = [c \in OfNode!Configs |-> OfNode!None] /\ calls = [op \in OfNode!Ops |-> {}]
    BY DEF OfNode!Init
<1>2. (CHOOSE t \in NoteTexts : TRUE) \in NoteTexts
    BY TextsAssumption
<1>3. x2 \in [Nodes -> NoteTexts \cup {OfNode!Gone}]
    BY <1>1, <1>2
<1>4. x8 \in [OfNode!Configs -> Nodes \cup {OfNode!None}] /\ calls \in [OfNode!Ops -> SUBSET Nodes]
    BY <1>1
<1>5. steps \in 0..MostSteps
    BY <1>1
<1>6. x3 \in [Nodes -> NoteTexts \cup {OfNode!Gone}]
    BY <1>1, <1>3
<1>7. OfNode!TypeOK
    BY <1>1, <1>3, <1>4, <1>5, <1>6 DEF OfNode!TypeOK
<1>8. OfNode!NoDeadButton /\ OfNode!NoteOfNode /\ DrawerAnswers
    BY <1>1 DEF OfNode!NoDeadButton, OfNode!NoteOfNode, DrawerAnswers
<1>9. QED
    BY <1>7, <1>8 DEF DrawerInv

(* The drawer gets another node, or none.                                  *)
LEMMA DrawerSelects ==
    ASSUME DrawerInv, NEW n \in Nodes \cup {OfNode!None}, NEW note \in NoteTexts \cup {OfNode!None},
           n # OfNode!None => note # OfNode!None, OfNode!SetSelectedNode(n, note),
           x7' = x7, busy' = busy, calls' = calls, x8' = x8
    PROVE  /\ x1' \in Nodes \cup {OfNode!None} /\ x4' \in NoteTexts \cup {OfNode!None}
           /\ (x4' = OfNode!None) <=> (x1' = OfNode!None)
           /\ x5' \in BOOLEAN /\ x6' \in Nodes \cup {OfNode!None} /\ x10' \subseteq OfNode!Configs
           /\ OfNode!NoteOfNode' /\ DrawerAnswers'
<1>1. /\ x1' = n /\ x4' = (IF n = OfNode!None THEN OfNode!None ELSE note)
      /\ x10' = (IF n = x1 THEN x10 ELSE x10 \cup ({x7} \ {OfNode!None}))
    BY DEF OfNode!SetSelectedNode
<1>2. \/ (n = OfNode!None \/ (n = x1 /\ note = x4)) /\ x5' = x5 /\ x6' = x6
      \/ x5' = FALSE /\ x6' = OfNode!None
    BY DEF OfNode!SetSelectedNode, OfNode!SetDraft
<1>3. OfNode!TypeOK /\ OfNode!NoteOfNode /\ DrawerAnswers
    BY DEF DrawerInv
<1>4. x10' \subseteq OfNode!Configs /\ (x7 \notin x10' => x10' = x10 /\ (n = x1 \/ x7 = OfNode!None))
    BY <1>1, <1>3 DEF OfNode!TypeOK
<1>5. x5' \in BOOLEAN /\ x6' \in Nodes \cup {OfNode!None}
    BY <1>2, <1>3 DEF OfNode!TypeOK
<1>6. OfNode!NoteOfNode'
    BY <1>1, <1>2, <1>3 DEF OfNode!NoteOfNode
<1>7. DrawerAnswers'
    BY <1>1, <1>3, <1>4 DEF DrawerAnswers, OfNode!Configs, OfNode!None
<1>8. QED
    BY <1>1, <1>4, <1>5, <1>6, <1>7

LEMMA DrawerStep == ASSUME DrawerInv, OfNode!Next \/ UNCHANGED OfNode!vars PROVE DrawerInv'
<1>1. /\ x1 \in Nodes \cup {OfNode!None} /\ x2 \in [Nodes -> NoteTexts \cup {OfNode!Gone}]
      /\ x3 \in [Nodes -> NoteTexts \cup {OfNode!Gone}]
      /\ x4 \in NoteTexts \cup {OfNode!None} /\ ((x4 = OfNode!None) <=> (x1 = OfNode!None))
      /\ x5 \in BOOLEAN /\ x6 \in Nodes \cup {OfNode!None}
      /\ x7 \in OfNode!Configs \cup {OfNode!None}
      /\ x8 \in [OfNode!Configs -> Nodes \cup {OfNode!None}] /\ calls \in [OfNode!Ops -> SUBSET Nodes]
      /\ busy \subseteq OfNode!Ops /\ x9 \in BOOLEAN /\ x10 \subseteq OfNode!Configs /\ steps \in 0..MostSteps
    BY DEF DrawerInv, OfNode!TypeOK
<1>2. OfNode!NoDeadButton /\ OfNode!NoteOfNode /\ DrawerAnswers
    BY DEF DrawerInv
<1>3. OfNode!Step => steps' \in 0..MostSteps
    BY <1>1 DEF OfNode!Step
<1>4. CASE \E n \in Nodes : OfNode!HandleSelectNode(n)
    <2>1. PICK n \in Nodes : OfNode!HandleSelectNode(n)
        BY <1>4
    <2>2. x3[n] \in NoteTexts /\ OfNode!SetSelectedNode(n, x3[n]) /\ OfNode!Step
          /\ UNCHANGED <<x2, x3, x7, x8, calls, busy, x9>>
        BY <1>1, <2>1 DEF OfNode!HandleSelectNode
    <2>3. n # OfNode!None => x3[n] # OfNode!None
        BY <2>2, TextsAssumption DEF OfNode!None
    <2>4. /\ x1' \in Nodes \cup {OfNode!None} /\ x4' \in NoteTexts \cup {OfNode!None}
          /\ (x4' = OfNode!None) <=> (x1' = OfNode!None)
          /\ x5' \in BOOLEAN /\ x6' \in Nodes \cup {OfNode!None} /\ x10' \subseteq OfNode!Configs
          /\ OfNode!NoteOfNode' /\ DrawerAnswers'
        BY <2>2, <2>3, DrawerSelects
    <2>5. QED
        BY <1>1, <1>2, <1>3, <2>2, <2>4 DEF DrawerInv, OfNode!TypeOK, OfNode!NoDeadButton, OfNode!UnderWay
<1>5. CASE OfNode!CloseDrawer
    <2>1. OfNode!SetSelectedNode(OfNode!None, OfNode!None) /\ UNCHANGED <<x2, x3, x7, x8, calls, busy, x9, steps>>
        BY <1>5 DEF OfNode!CloseDrawer
    <2>2. /\ x1' \in Nodes \cup {OfNode!None} /\ x4' \in NoteTexts \cup {OfNode!None}
          /\ (x4' = OfNode!None) <=> (x1' = OfNode!None)
          /\ x5' \in BOOLEAN /\ x6' \in Nodes \cup {OfNode!None} /\ x10' \subseteq OfNode!Configs
          /\ OfNode!NoteOfNode' /\ DrawerAnswers'
        BY <2>1, DrawerSelects
    <2>3. QED
        BY <1>1, <1>2, <2>1, <2>2 DEF DrawerInv, OfNode!TypeOK, OfNode!NoDeadButton, OfNode!UnderWay
<1>6. CASE \E n \in Nodes, t \in NoteTexts \cup {OfNode!Gone} : OfNode!ChangedElsewhere(n, t)
    <2>1. x2' \in [Nodes -> NoteTexts \cup {OfNode!Gone}] /\ OfNode!Step /\ x9' = TRUE
          /\ UNCHANGED <<x1, x3, x4, x5, x6, x7, x8, calls, busy, x10>>
        BY <1>1, <1>6 DEF OfNode!ChangedElsewhere
    <2>2. QED
        BY <1>1, <1>2, <1>3, <2>1 DEF DrawerInv, OfNode!TypeOK, OfNode!NoDeadButton, OfNode!UnderWay, OfNode!NoteOfNode, DrawerAnswers
<1>7. CASE OfNode!LoadArrives
    <2>1. /\ x9' = FALSE /\ x3' = x2 /\ UNCHANGED <<x2, x7, x8, calls, busy, steps>>
          /\ \/ OfNode!SetSelectedNode(OfNode!None, OfNode!None)
             \/ x1 \in Nodes /\ x2[x1] \in NoteTexts /\ OfNode!SetSelectedNode(x1, x2[x1])
        BY <1>1, <1>7 DEF OfNode!LoadArrives
    <2>2. /\ x1' \in Nodes \cup {OfNode!None} /\ x4' \in NoteTexts \cup {OfNode!None}
          /\ (x4' = OfNode!None) <=> (x1' = OfNode!None)
          /\ x5' \in BOOLEAN /\ x6' \in Nodes \cup {OfNode!None} /\ x10' \subseteq OfNode!Configs
          /\ OfNode!NoteOfNode' /\ DrawerAnswers'
        <3>1. CASE OfNode!SetSelectedNode(OfNode!None, OfNode!None)
            BY <2>1, <3>1, DrawerSelects
        <3>2. CASE x1 \in Nodes /\ x2[x1] \in NoteTexts /\ OfNode!SetSelectedNode(x1, x2[x1])
            <4>1. x1 # OfNode!None => x2[x1] # OfNode!None
                BY <3>2, TextsAssumption DEF OfNode!None
            <4>2. QED
                BY <2>1, <3>2, <4>1, DrawerSelects
        <3>3. QED
            BY <2>1, <3>1, <3>2
    <2>3. QED
        BY <1>1, <1>2, <2>1, <2>2 DEF DrawerInv, OfNode!TypeOK, OfNode!NoDeadButton, OfNode!UnderWay
<1>8. CASE OfNode!EditNote \/ OfNode!TypeNote \/ OfNode!CancelNote
    <2>1. /\ x5' \in BOOLEAN /\ x6' \in {OfNode!None, x1}
          /\ UNCHANGED <<x1, x2, x3, x4, x7, x8, calls, busy, x9, x10, steps>>
        BY <1>1, <1>8 DEF OfNode!EditNote, OfNode!TypeNote, OfNode!CancelNote
    <2>2. QED
        BY <1>1, <1>2, <2>1 DEF DrawerInv, OfNode!TypeOK, OfNode!NoDeadButton, OfNode!UnderWay, OfNode!NoteOfNode, DrawerAnswers
<1>9. CASE \E op \in OfNode!Commands : OfNode!Press(op)
    <2>1. PICK op \in OfNode!Commands : OfNode!Press(op)
        BY <1>9
    <2>2. /\ x1 \in Nodes /\ x7 = OfNode!None /\ calls' = [calls EXCEPT ![op] = {x1}] /\ busy' = busy \cup {op}
          /\ UNCHANGED <<x1, x2, x3, x4, x5, x6, x7, x8, x9, x10, steps>>
        BY <1>1, <2>1 DEF OfNode!Press, OfNode!Drawer
    <2>3. op \in OfNode!Ops /\ calls' \in [OfNode!Ops -> SUBSET Nodes] /\ busy' \subseteq OfNode!Ops
        BY <1>1, <2>2 DEF OfNode!Ops
    <2>4. OfNode!NoDeadButton'
        BY <1>1, <1>2, <2>2, <2>3 DEF OfNode!NoDeadButton, OfNode!UnderWay
    <2>5. DrawerAnswers' /\ OfNode!NoteOfNode'
        BY <1>2, <2>2 DEF DrawerAnswers, OfNode!NoteOfNode, OfNode!Configs, OfNode!None
    <2>6. QED
        BY <1>1, <2>2, <2>3, <2>4, <2>5 DEF DrawerInv, OfNode!TypeOK
<1>10. ASSUME NEW op \in OfNode!Commands, calls' = [calls EXCEPT ![op] = {}], busy' = busy \ {op}
       PROVE  /\ calls' \in [OfNode!Ops -> SUBSET Nodes] /\ busy' \subseteq OfNode!Ops /\ OfNode!NoDeadButton'
              /\ \A c \in OfNode!Configs : calls'[c] = calls[c] /\ (c \in busy' <=> c \in busy)
    <2>1. op \in OfNode!Ops /\ op \notin OfNode!Configs /\ OfNode!Configs \subseteq OfNode!Ops
        BY DEF OfNode!Ops, OfNode!Commands, OfNode!Configs
    <2>2. calls' \in [OfNode!Ops -> SUBSET Nodes] /\ busy' \subseteq OfNode!Ops
        BY <1>1, <1>10, <2>1
    <2>3. OfNode!NoDeadButton'
        BY <1>1, <1>2, <1>10, <2>1 DEF OfNode!NoDeadButton, OfNode!UnderWay
    <2>4. QED
        BY <1>1, <1>10, <2>1, <2>2, <2>3
<1>11. CASE \E op \in OfNode!Commands, b \in BOOLEAN : OfNode!CommandEnds(op, b)
    <2>1. PICK op \in OfNode!Commands, b \in BOOLEAN : OfNode!CommandEnds(op, b)
        BY <1>11
    <2>2. /\ x9' \in BOOLEAN /\ calls' = [calls EXCEPT ![op] = {}] /\ busy' = busy \ {op}
          /\ UNCHANGED <<x1, x2, x3, x4, x5, x6, x7, x8, x10, steps>>
        BY <1>1, <2>1 DEF OfNode!CommandEnds
    <2>3. QED
        BY <1>1, <1>2, <1>10, <2>2 DEF DrawerInv, OfNode!TypeOK, OfNode!NoteOfNode, DrawerAnswers
<1>12. CASE \E t \in NoteTexts : OfNode!NoteSaved(t)
    <2>1. PICK note \in NoteTexts : OfNode!NoteSaved(note)
        BY <1>12
    <2>2. PICK n \in Nodes : n = OfNode!NodeOf("note")
        BY <1>1, <2>1 DEF OfNode!NoteSaved, OfNode!UnderWay, OfNode!NodeOf, OfNode!Ops, OfNode!Commands
    <2>3. /\ x2' \in [Nodes -> NoteTexts \cup {OfNode!Gone}] /\ x9' = TRUE
          /\ x1' = n /\ x4' = note /\ x5' = FALSE /\ x6' = OfNode!None
          /\ calls' = [calls EXCEPT !["note"] = {}] /\ busy' = busy \ {"note"}
          /\ x10' = (IF n = x1 THEN x10 ELSE x10 \cup ({x7} \ {OfNode!None}))
          /\ UNCHANGED <<x3, x7, x8, steps>>
        BY <1>1, <2>1, <2>2 DEF OfNode!NoteSaved
    <2>4. x10' \subseteq OfNode!Configs /\ (x7 \notin x10' => x10' = x10 /\ (n = x1 \/ x7 = OfNode!None))
        BY <1>1, <2>3
    <2>5. "note" \in OfNode!Commands
        BY DEF OfNode!Commands
    <2>6. DrawerAnswers'
        BY <1>1, <1>2, <1>10, <2>3, <2>4, <2>5 DEF DrawerAnswers, OfNode!Configs, OfNode!None
    <2>7. QED
        BY <1>1, <1>2, <1>10, <2>3, <2>4, <2>5, <2>6, TextsAssumption DEF DrawerInv, OfNode!TypeOK, OfNode!NoteOfNode, OfNode!None
<1>13. CASE OfNode!Deleted
    <2>1. /\ x2' \in [Nodes -> NoteTexts \cup {OfNode!Gone}] /\ x9' = TRUE
          /\ OfNode!SetSelectedNode(OfNode!None, OfNode!None) /\ calls' = [calls EXCEPT !["delete"] = {}] /\ busy' = busy \ {"delete"}
          /\ UNCHANGED <<x3, x7, x8, steps>>
        BY <1>1, <1>13 DEF OfNode!Deleted
    <2>2. /\ x1' = OfNode!None /\ x4' = OfNode!None /\ x5' \in BOOLEAN /\ x6' \in Nodes \cup {OfNode!None}
          /\ x10' \subseteq OfNode!Configs
        BY <1>1, <2>1 DEF OfNode!SetSelectedNode, OfNode!SetDraft
    <2>3. "delete" \in OfNode!Commands
        BY DEF OfNode!Commands
    <2>4. QED
        BY <1>1, <1>10, <2>1, <2>2, <2>3 DEF DrawerInv, OfNode!TypeOK, OfNode!NoteOfNode, DrawerAnswers
<1>14. CASE \E c \in OfNode!Configs : OfNode!OpenConfig(c)
    <2>1. PICK c \in OfNode!Configs : OfNode!OpenConfig(c)
        BY <1>14
    <2>2. /\ x1 \in Nodes /\ OfNode!Step /\ x7' = c
          /\ calls' = [calls EXCEPT ![c] = calls[c] \cup {x1}] /\ busy' = busy \cup {c}
          /\ x10' = (IF calls[c] # {} THEN x10 \cup {c} ELSE x10 \ {c})
          /\ UNCHANGED <<x1, x2, x3, x4, x5, x6, x8, x9>>
        BY <1>1, <2>1 DEF OfNode!OpenConfig, OfNode!Drawer, OfNode!Loads, OfNode!UnderWay
    <2>3. c \in OfNode!Ops /\ calls' \in [OfNode!Ops -> SUBSET Nodes] /\ busy' \subseteq OfNode!Ops
        BY <1>1, <2>2 DEF OfNode!Ops
    <2>4. OfNode!NoDeadButton'
        BY <1>1, <1>2, <2>2, <2>3 DEF OfNode!NoDeadButton, OfNode!UnderWay
    <2>5. DrawerAnswers'
        BY <1>1, <2>2, <2>3 DEF DrawerAnswers
    <2>6. QED
        BY <1>1, <1>2, <1>3, <2>2, <2>3, <2>4, <2>5 DEF DrawerInv, OfNode!TypeOK, OfNode!NoteOfNode
<1>15. CASE \E c \in OfNode!Configs, n \in Nodes : OfNode!ConfigArrives(c, n)
    <2>1. PICK c \in OfNode!Configs, n \in Nodes : OfNode!ConfigArrives(c, n)
        BY <1>15
    <2>2. /\ n \in calls[c] /\ x8' = [x8 EXCEPT ![c] = n]
          /\ calls' = [calls EXCEPT ![c] = calls[c] \ {n}] /\ busy' = busy \ {c}
          /\ UNCHANGED <<x1, x2, x3, x4, x5, x6, x7, x9, x10, steps>>
        BY <2>1 DEF OfNode!ConfigArrives
    <2>3. c \in OfNode!Ops /\ calls' \in [OfNode!Ops -> SUBSET Nodes] /\ x8' \in [OfNode!Configs -> Nodes \cup {OfNode!None}]
        BY <1>1, <2>2 DEF OfNode!Ops
    <2>4. OfNode!NoDeadButton'
        BY <1>1, <1>2, <2>2, <2>3 DEF OfNode!NoDeadButton, OfNode!UnderWay
    <2>5. DrawerAnswers'
        <3>1. CASE x7 = c
            BY <1>1, <1>2, <2>2, <2>3, <3>1 DEF DrawerAnswers
        <3>2. CASE x7 # c
            BY <1>1, <1>2, <2>2, <2>3, <3>2 DEF DrawerAnswers, OfNode!Ops
        <3>3. QED
            BY <3>1, <3>2
    <2>6. QED
        BY <1>1, <1>2, <2>2, <2>3, <2>4, <2>5 DEF DrawerInv, OfNode!TypeOK, OfNode!NoteOfNode
<1>16. CASE OfNode!CloseBird \/ OfNode!CloseNftables \/ UNCHANGED OfNode!vars
    <2>1. /\ x7' \in {OfNode!None, x7}
          /\ UNCHANGED <<x1, x2, x3, x4, x5, x6, x8, calls, busy, x9, x10, steps>>
        BY <1>16 DEF OfNode!CloseBird, OfNode!CloseNftables, OfNode!vars
    <2>2. DrawerAnswers'
        BY <1>2, <2>1 DEF DrawerAnswers, OfNode!Configs, OfNode!None
    <2>3. QED
        BY <1>1, <1>2, <2>1, <2>2 DEF DrawerInv, OfNode!TypeOK, OfNode!NoDeadButton, OfNode!UnderWay, OfNode!NoteOfNode
<1>17. QED
    <2>1. OfNode!HandleSaveNote \/ OfNode!HandleRestartAllWg \/ OfNode!HandleRestartBird \/ OfNode!HandleUpdateNodeState \/ OfNode!HandleRefresh
              \/ OfNode!HandleDelete => \E op \in OfNode!Commands : OfNode!Press(op)
        BY DEF OfNode!HandleSaveNote, OfNode!HandleRestartAllWg, OfNode!HandleRestartBird, OfNode!HandleUpdateNodeState, OfNode!HandleRefresh,
               OfNode!HandleDelete, OfNode!Commands
    <2>2. OfNode!WgRestarted \/ OfNode!BirdRestarted \/ OfNode!StateUpdated \/ OfNode!Refreshed \/ (\E op \in OfNode!Commands : OfNode!Fails(op))
              => \E op \in OfNode!Commands, b \in BOOLEAN : OfNode!CommandEnds(op, b)
        BY DEF OfNode!WgRestarted, OfNode!BirdRestarted, OfNode!StateUpdated, OfNode!Refreshed, OfNode!Fails, OfNode!Commands
    <2>3. OfNode!HandleOpenBirdConfig \/ OfNode!HandleOpenNftablesConfig => \E c \in OfNode!Configs : OfNode!OpenConfig(c)
        BY DEF OfNode!HandleOpenBirdConfig, OfNode!HandleOpenNftablesConfig, OfNode!Configs
    <2>4. QED
        BY <1>4, <1>5, <1>6, <1>7, <1>8, <1>9, <1>11, <1>12, <1>13, <1>14, <1>15, <1>16, <2>1, <2>2, <2>3 DEF OfNode!Next

LEMMA DrawerShows == ASSUME DrawerInv PROVE OfNode!TypeOK /\ OfNode!NoDeadButton /\ OfNode!NoteOfNode /\ OfNode!ConfigOfNode
<1>1. OfNode!TypeOK /\ OfNode!NoDeadButton /\ OfNode!NoteOfNode /\ DrawerAnswers
    BY DEF DrawerInv
<1>2. OfNode!ConfigOfNode
    BY <1>1 DEF DrawerAnswers, OfNode!ConfigOfNode
<1>3. QED
    BY <1>1, <1>2

-----------------------------------------------------------------------------
(***************************************************************************)
(* AppsList. x1 is the tab, x2 what the server has, x3 what is shown, x4   *)
(* the dialog, x5 how many requests the server has answered, x6 which of   *)
(* its answers the list shows, x7 whether requests have crossed.           *)
(***************************************************************************)
AppsMade == [AppList!Missing EXCEPT !.there = 1]
AppsNew == {"create", "duplicate"}
AppsTexts == {"rename", "save"}
AppsCalls ==
    [at : {AppList!None, "sent", "done"}, seq : 0..(2 * MoreSteps + 1), before : BOOLEAN,
     list : [AppList!Items -> AppList!Item], failed : BOOLEAN]

(* What the requests hold; one that was carried out has a number.          *)
AppsShapes ==
    /\ calls \in [AppList!Ops -> AppsCalls] /\ busy = {op \in AppList!Ops : calls[op].at # AppList!None}
    /\ \A op \in AppList!Ops : /\ calls[op].at = "done" => (calls[op].failed <=> calls[op].seq = 0)
                               /\ calls[op].at # "done" => calls[op].seq = 0 /\ ~calls[op].failed
                               /\ calls[op].seq <= x5
                               /\ \A o \in AppList!Ops \ {op} : calls[o].seq = calls[op].seq => calls[o].seq = 0
    /\ x6 <= x5

(* A request is served once, and a variable that is changed asks for one   *)
(* load.                                                                   *)
AppsWeight(op) ==
    (IF calls[op].at = "sent" THEN 1 ELSE 0)
    + (IF op \in {"save", "delete"} /\ calls[op].at # AppList!None /\ ~calls[op].failed THEN 1 ELSE 0)
AppsWeights == [op \in AppList!Ops |-> AppsWeight(op)]
AppsSum(f) ==
    f["load"] + f["enable"] + f["publish"] + f["create"] + f["duplicate"] + f["delete"] + f["rename"] + f["save"]
AppsCounted == x5 + AppsSum(AppsWeights) <= 2 * steps + 1

(* An app that was deleted stays so, and a new one is made once.           *)
AppsServer ==
    /\ x2[Old].there \in {0, 1}
    /\ x2[Old].there = 0 => x2[Old] = AppList!Missing
    /\ x2[Old].there = 1 => calls["delete"].seq = 0
    /\ x2[New] \in {AppList!Missing, AppsMade}
    /\ x2[New] = AppList!Missing => /\ \A v \in AppsNew : calls[v].seq = 0
                                    /\ \A w \in AppList!Ops : calls[w].list[New] = AppList!Missing
                                    /\ x3[New] = AppList!Missing
    /\ calls["create"].seq = 0 \/ calls["duplicate"].seq = 0

(* What an answer has of the items is what the server has, unless one that *)
(* was served after it is still to come, or came before it.                *)
AppsLists ==
    ~x7 => \A w \in AppList!Ops : calls[w].seq # 0 =>
        /\ x2[Old].there = 1 =>
               /\ calls[w].list[Old].there = 1
               /\ \A f \in AppList!Switches : \/ calls[w].list[Old][f] = x2[Old][f]
                                              \/ calls[w].seq < x6 \/ calls[w].seq < calls[f].seq
               /\ \/ calls[w].list[Old].text = x2[Old].text
                  \/ calls[w].seq < x6 \/ \E v \in AppsTexts : calls[w].seq < calls[v].seq
        /\ x2[Old].there = 0 =>
               calls[w].list[Old] = AppList!Missing \/ calls[w].seq < x6 \/ calls[w].seq < calls["delete"].seq
        /\ calls[w].list[New] \in {AppList!Missing, AppsMade}
        /\ \/ calls[w].list[New] = x2[New]
           \/ calls[w].seq < x6 \/ \E v \in AppsNew : calls[w].seq < calls[v].seq
        /\ \A v \in AppsNew : calls[w].seq < calls[v].seq => calls[w].list[New] = AppList!Missing
        /\ w \in AppsNew => calls[w].list[New] = AppsMade

(* So has the list, while it is not being loaded, but for what was changed *)
(* and not yet answered.                                                   *)
AppsShown ==
    ~x7 /\ calls["load"].at = AppList!None =>
        /\ x2[Old].there = 1 =>
               /\ x3[Old].there = 1
               /\ \A f \in AppList!Switches : x3[Old][f] = x2[Old][f] \/ calls[f].at # AppList!None
               /\ x3[Old].text = x2[Old].text \/ \E v \in AppsTexts : calls[v].seq # 0
        /\ x2[Old].there = 0 => x3[Old] = AppList!Missing \/ calls["delete"].seq # 0
        /\ x3[New] = x2[New] \/ \E v \in AppsNew : calls[v].seq # 0
        /\ \A v \in AppsNew : calls[v].seq # 0 => calls[v].seq < x6 \/ x3[New] = AppList!Missing

(* A switch is put back to what the server has.                            *)
AppsBefore ==
    ~x7 => \A f \in AppList!Switches :
        calls[f].at # AppList!None /\ calls[f].seq = 0 /\ x2[Old].there = 1 => calls[f].before = x2[Old][f]

AppsInv ==
    AppList!TypeOK /\ AppsShapes /\ AppsCounted /\ AppsServer /\ AppsLists /\ AppsShown /\ AppsBefore

(* What an item is with one field changed.                                 *)
LEMMA AppsItems ==
    /\ \A r \in AppList!Item, f \in AppList!Switches : r[f] \in BOOLEAN /\ [r EXCEPT ![f] = r[f]] = r
    /\ \A r, q \in AppList!Item :
           r.there = q.there /\ r.text = q.text /\ (\A f \in AppList!Switches : r[f] = q[f]) => r = q
    /\ \A r \in AppList!Item, n \in 0..2 :
                   /\ [r EXCEPT !.there = n] \in AppList!Item /\ [r EXCEPT !.there = n].there = n
                   /\ [r EXCEPT !.there = n].text = r.text /\ \A f \in AppList!Switches : [r EXCEPT !.there = n][f] = r[f]
    /\ \A r \in AppList!Item, f \in AppList!Switches, b \in BOOLEAN :
                   /\ [r EXCEPT ![f] = b] \in AppList!Item /\ [r EXCEPT ![f] = b][f] = b
                   /\ [r EXCEPT ![f] = b].text = r.text /\ [r EXCEPT ![f] = b].there = r.there
                   /\ \A g \in AppList!Switches \ {f} : [r EXCEPT ![f] = b][g] = r[g]
    /\ \A r \in AppList!Item : r.there \in 0..2 /\ r.text \in 0..MoreSteps
<1>1. \A r \in AppList!Item, f \in AppList!Switches : r[f] \in BOOLEAN /\ [r EXCEPT ![f] = r[f]] = r
    BY DEF AppList!Item, AppList!Switches
<1>2. \A r, q \in AppList!Item :
          r.there = q.there /\ r.text = q.text /\ (\A f \in AppList!Switches : r[f] = q[f]) => r = q
    BY DEF AppList!Item, AppList!Switches
<1>3. ASSUME NEW r \in AppList!Item, NEW n \in 0..2
      PROVE  /\ [r EXCEPT !.there = n] \in AppList!Item /\ [r EXCEPT !.there = n].there = n
             /\ [r EXCEPT !.there = n].text = r.text /\ \A f \in AppList!Switches : [r EXCEPT !.there = n][f] = r[f]
    BY DEF AppList!Item, AppList!Switches
<1>4. ASSUME NEW r \in AppList!Item, NEW f \in AppList!Switches, NEW b \in BOOLEAN
      PROVE  /\ [r EXCEPT ![f] = b] \in AppList!Item /\ [r EXCEPT ![f] = b][f] = b
             /\ [r EXCEPT ![f] = b].text = r.text /\ [r EXCEPT ![f] = b].there = r.there
             /\ \A g \in AppList!Switches \ {f} : [r EXCEPT ![f] = b][g] = r[g]
    BY DEF AppList!Item, AppList!Switches
<1>5. \A r \in AppList!Item : r.there \in 0..2 /\ r.text \in 0..MoreSteps
    BY DEF AppList!Item
<1>6. QED
    BY <1>1, <1>2, <1>3, <1>4, <1>5

(* No request, and one that is sent, say nothing of the new app.           *)
LEMMA AppsNothing ==
    /\ AppList!Missing \in AppList!Item /\ AppsMade \in AppList!Item /\ AppList!Missing.there = 0 /\ AppsMade.there = 1
    /\ AppList!Missing # AppsMade
    /\ AppList!NoCall \in AppsCalls /\ AppList!NoCall.at = AppList!None /\ AppList!NoCall.seq = 0 /\ AppList!NoCall.failed = FALSE
    /\ AppList!Sent \in AppsCalls /\ AppList!Sent.at = "sent" /\ AppList!Sent.seq = 0 /\ AppList!Sent.failed = FALSE
    /\ AppList!NoCall.list[New] = AppList!Missing /\ AppList!Sent.list[New] = AppList!Missing
<1>1. AppList!Missing \in AppList!Item /\ AppList!Missing.there = 0
    BY DEF AppList!Missing, AppList!Item
<1>2. AppsMade \in AppList!Item /\ AppsMade.there = 1
    BY <1>1 DEF AppsMade, AppList!Item
<1>3. AppList!NoCall \in AppsCalls /\ AppList!NoCall.at = AppList!None /\ AppList!NoCall.seq = 0 /\ AppList!NoCall.failed = FALSE /\ AppList!NoCall.list[New] = AppList!Missing
    BY <1>1 DEF AppList!NoCall, AppsCalls, AppList!Items
<1>4. AppList!Sent \in AppsCalls /\ AppList!Sent.at = "sent" /\ AppList!Sent.seq = 0 /\ AppList!Sent.failed = FALSE /\ AppList!Sent.list[New] = AppList!Missing
    BY <1>3 DEF AppList!Sent, AppsCalls
<1>5. QED
    BY <1>1, <1>2, <1>3, <1>4

(* The types, unfolded.                                                    *)
LEMMA AppsTyped ==
    ASSUME AppsInv
    PROVE  /\ x1 \in {"apps", "variables"} /\ x2 \in [AppList!Items -> AppList!Item] /\ x3 \in [AppList!Items -> AppList!Item]
           /\ x4 \in {AppList!None, "form", "delete", "rename"} /\ calls \in [AppList!Ops -> AppsCalls]
           /\ busy = {op \in AppList!Ops : calls[op].at # AppList!None} /\ x5 \in 0..(2 * MoreSteps + 1)
           /\ x6 \in 0..(2 * MoreSteps + 1) /\ x7 \in BOOLEAN /\ steps \in 0..MoreSteps
           /\ AppsShapes /\ AppsCounted /\ AppsServer /\ AppsLists /\ AppsShown /\ AppsBefore
BY DEF AppsInv, AppList!TypeOK, AppsShapes

(* It holds when the page is opened.                                       *)
LEMMA AppsInit == ASSUME AppList!Init PROVE AppsInv
<1>1. /\ x1 \in {"apps", "variables"} /\ x4 = AppList!None
      /\ x2 = [i \in AppList!Items |-> IF i = Old THEN [AppList!Missing EXCEPT !.there = 1] ELSE AppList!Missing]
      /\ x3 = [i \in AppList!Items |-> AppList!Missing]
      /\ calls = [op \in AppList!Ops |-> IF op = "load" THEN AppList!Sent ELSE AppList!NoCall] /\ busy = {"load"}
      /\ x5 = 0 /\ x6 = 0 /\ x7 = FALSE /\ steps = 0
    BY DEF AppList!Init
<1>2. calls \in [AppList!Ops -> AppsCalls] /\ \A op \in AppList!Ops : calls[op] = IF op = "load" THEN AppList!Sent ELSE AppList!NoCall
    BY <1>1, AppsNothing
<1>3. x2[Old] = AppsMade /\ x2[New] = AppList!Missing /\ x2 \in [AppList!Items -> AppList!Item] /\ x3 \in [AppList!Items -> AppList!Item]
    BY <1>1, AppsNothing, ItemsAssumption DEF AppList!Items, AppsMade
<1>4. \A op \in AppList!Ops : /\ calls[op].seq = 0 /\ calls[op].failed = FALSE /\ calls[op].list[New] = AppList!Missing
                              /\ calls[op].at = IF op = "load" THEN "sent" ELSE AppList!None
    BY <1>2, AppsNothing
<1>5. "load" \in AppList!Ops /\ AppList!Switches \subseteq AppList!Ops /\ AppsNew \subseteq AppList!Ops /\ {"delete", "rename", "save"} \subseteq AppList!Ops
      /\ "load" \notin AppList!Switches
    BY DEF AppList!Ops, AppList!Switches, AppsNew
<1>6. AppsShapes
    BY <1>1, <1>2, <1>4, <1>5 DEF AppsShapes, AppList!None
<1>7. AppsServer
    <2>1. x3[New] = AppList!Missing
        BY <1>1 DEF AppList!Items
    <2>2. QED
        BY <1>3, <1>4, <1>5, <2>1, AppsNothing DEF AppsServer, AppsNew
<1>8. AppsLists /\ AppsShown /\ AppsBefore
    BY <1>4, <1>5 DEF AppsLists, AppsShown, AppsBefore, AppList!None
<1>9. AppsCounted
    <2>1. AppsWeight("load") = 1
        BY <1>4, <1>5 DEF AppsWeight
    <2>2. \A op \in AppList!Ops \ {"load"} : AppsWeight(op) = 0
        BY <1>4 DEF AppsWeight, AppList!None
    <2>3. AppsSum(AppsWeights) = 1
        BY <1>5, <2>1, <2>2 DEF AppsSum, AppsWeights, AppList!Ops
    <2>4. QED
        BY <1>1, <2>3 DEF AppsCounted
<1>10. \A op \in AppList!Ops : /\ calls[op].at \in {AppList!None, "sent", "done"} /\ calls[op].seq \in 0..(2 * MoreSteps + 1)
                               /\ calls[op].list \in [AppList!Items -> AppList!Item]
    BY <1>2 DEF AppsCalls
<1>11. x5 \in 0..(2 * MoreSteps + 1) /\ steps \in 0..MoreSteps
    BY <1>1
<1>12. AppList!TypeOK
    BY <1>1, <1>3, <1>5, <1>10, <1>11 DEF AppList!TypeOK
<1>13. QED
    BY <1>6, <1>7, <1>8, <1>9, <1>12 DEF AppsInv

(* A sum of which one term changes.                                        *)
LEMMA AppsSummed ==
    ASSUME NEW a \in [AppList!Ops -> Nat], NEW b \in [AppList!Ops -> Nat], NEW op \in AppList!Ops, \A o \in AppList!Ops \ {op} : a[o] = b[o]
    PROVE  AppsSum(b) + a[op] = AppsSum(a) + b[op] /\ AppsSum(a) \in Nat /\ AppsSum(b) \in Nat
<1>1. /\ a["load"] \in Nat /\ a["enable"] \in Nat /\ a["publish"] \in Nat /\ a["create"] \in Nat
      /\ a["duplicate"] \in Nat /\ a["delete"] \in Nat /\ a["rename"] \in Nat /\ a["save"] \in Nat
    BY DEF AppList!Ops, AppList!Switches
<1>2. /\ b["load"] \in Nat /\ b["enable"] \in Nat /\ b["publish"] \in Nat /\ b["create"] \in Nat
      /\ b["duplicate"] \in Nat /\ b["delete"] \in Nat /\ b["rename"] \in Nat /\ b["save"] \in Nat
    BY DEF AppList!Ops, AppList!Switches
<1>3. \A o \in AppList!Ops : o # op => a[o] = b[o]
    OBVIOUS
<1>4. CASE op = "load"
    BY <1>1, <1>2, <1>3, <1>4 DEF AppsSum, AppList!Ops
<1>5. CASE op = "enable"
    BY <1>1, <1>2, <1>3, <1>5 DEF AppsSum, AppList!Ops
<1>6. CASE op = "publish"
    BY <1>1, <1>2, <1>3, <1>6 DEF AppsSum, AppList!Ops
<1>7. CASE op = "create"
    BY <1>1, <1>2, <1>3, <1>7 DEF AppsSum, AppList!Ops
<1>8. CASE op = "duplicate"
    BY <1>1, <1>2, <1>3, <1>8 DEF AppsSum, AppList!Ops
<1>9. CASE op = "delete"
    BY <1>1, <1>2, <1>3, <1>9 DEF AppsSum, AppList!Ops
<1>10. CASE op = "rename"
    BY <1>1, <1>2, <1>3, <1>10 DEF AppsSum, AppList!Ops
<1>11. CASE op = "save"
    BY <1>1, <1>2, <1>3, <1>11 DEF AppsSum, AppList!Ops
<1>12. QED
    BY <1>4, <1>5, <1>6, <1>7, <1>8, <1>9, <1>10, <1>11 DEF AppList!Ops

(* A request that changes what it weighs by no more than what was served   *)
(* and was asked.                                                          *)
LEMMA AppsCounts ==
    ASSUME AppsInv, NEW op \in AppList!Ops, x5' \in Nat, steps' \in 0..MoreSteps,
           \A o \in AppList!Ops \ {op} : calls'[o] = calls[o],
           x5' + AppsWeight(op)' + 2 * steps <= x5 + AppsWeight(op) + 2 * steps'
    PROVE  AppsCounted' /\ x5' \in 0..(2 * MoreSteps + 1)
<1>1. x5 \in Nat /\ steps \in Nat /\ AppsCounted
    BY AppsTyped
<1>2. AppsWeights \in [AppList!Ops -> Nat] /\ AppsWeights' \in [AppList!Ops -> Nat]
    BY DEF AppsWeights, AppsWeight
<1>3. \A o \in AppList!Ops \ {op} : AppsWeights[o] = AppsWeights'[o]
    BY DEF AppsWeights, AppsWeight
<1>4. AppsWeights[op] = AppsWeight(op) /\ AppsWeights'[op] = AppsWeight(op)' /\ AppsWeight(op) \in Nat /\ AppsWeight(op)' \in Nat
    BY DEF AppsWeights, AppsWeight
<1>5. /\ AppsSum(AppsWeights') + AppsWeights[op] = AppsSum(AppsWeights) + AppsWeights'[op]
      /\ AppsSum(AppsWeights) \in Nat /\ AppsSum(AppsWeights') \in Nat
    BY <1>2, <1>3, AppsSummed
<1>6. x5 + AppsSum(AppsWeights) <= 2 * steps + 1
    BY <1>1 DEF AppsCounted
<1>7. x5' + AppsSum(AppsWeights') <= 2 * steps' + 1
    BY <1>1, <1>4, <1>5, <1>6
<1>8. AppsCounted'
    BY <1>7 DEF AppsCounted, AppsSum
<1>9. QED
    BY <1>5, <1>7, <1>8

(* The kinds of request are apart.                                         *)
LEMMA AppsOps ==
    /\ AppList!Switches \subseteq AppList!Ops /\ AppsNew \subseteq AppList!Ops /\ AppsTexts \subseteq AppList!Ops /\ {"load", "delete"} \subseteq AppList!Ops
    /\ \A f \in AppList!Switches : f # "load" /\ f # "delete" /\ f \notin AppsNew /\ f \notin AppsTexts
    /\ \A v \in AppsNew : v # "load" /\ v # "delete" /\ v \notin AppsTexts
    /\ \A v \in AppsTexts : v # "load" /\ v # "delete"
    /\ AppList!Ops = AppList!Switches \cup AppsNew \cup AppsTexts \cup {"load", "delete"}
    /\ Old \in AppList!Items /\ New \in AppList!Items /\ Old # New /\ AppList!Items = {Old, New}
BY ItemsAssumption DEF AppList!Ops, AppList!Switches, AppsNew, AppsTexts, AppList!Items

(* What a request holds, and when it was answered.                         *)
LEMMA AppsCallTyped ==
    ASSUME AppsInv, NEW w \in AppList!Ops
    PROVE  /\ calls[w] \in AppsCalls /\ calls[w].at \in {AppList!None, "sent", "done"} /\ calls[w].seq \in Nat
           /\ calls[w].before \in BOOLEAN /\ calls[w].list \in [AppList!Items -> AppList!Item] /\ calls[w].failed \in BOOLEAN
           /\ calls[w].list[Old] \in AppList!Item /\ calls[w].list[New] \in AppList!Item
           /\ calls[w].at = "done" => (calls[w].failed <=> calls[w].seq = 0)
           /\ calls[w].at # "done" => calls[w].seq = 0 /\ ~calls[w].failed
           /\ calls[w].seq <= x5
           /\ \A o \in AppList!Ops \ {w} : calls[o].seq = calls[w].seq => calls[o].seq = 0
<1>1. calls[w] \in AppsCalls
    BY AppsTyped
<1>2. /\ calls[w].at \in {AppList!None, "sent", "done"} /\ calls[w].seq \in Nat /\ calls[w].before \in BOOLEAN
      /\ calls[w].list \in [AppList!Items -> AppList!Item] /\ calls[w].failed \in BOOLEAN
    BY <1>1 DEF AppsCalls
<1>3. calls[w].list[Old] \in AppList!Item /\ calls[w].list[New] \in AppList!Item
    BY <1>2, AppsOps
<1>4. QED
    BY <1>1, <1>2, <1>3, AppsTyped DEF AppsShapes

(* What the server has and the answers to come agree as before where       *)
(* requests are made, and end in order.                                    *)
LEMMA AppsFrame ==
    ASSUME AppsInv, x2' = x2, calls' \in [AppList!Ops -> AppsCalls], x6' \in Nat, x6 <= x6',
           x7 => x7',
           \A o \in AppList!Ops : calls'[o] = calls[o] \/ (calls'[o].seq = 0 /\ (x2[New] = AppList!Missing => calls'[o].list[New] = AppList!Missing)),
           ~x7' => \A o \in AppList!Ops : calls'[o].seq = calls[o].seq \/ calls[o].seq <= x6',
           x2[New] = AppList!Missing => x3'[New] = AppList!Missing
    PROVE  AppsServer' /\ AppsLists'
<1>1. \A o \in AppList!Ops : calls[o].seq \in Nat /\ calls'[o].seq \in Nat
    BY AppsCallTyped DEF AppsCalls
<1>2. AppsServer /\ AppsLists /\ x6 \in Nat
    BY AppsTyped
<1>3. AppsServer'
    <2>1. \A o \in AppList!Ops : calls[o].seq = 0 => calls'[o].seq = 0
        OBVIOUS
    <2>2. x2[New] = AppList!Missing => \A o \in AppList!Ops : calls'[o].list[New] = AppList!Missing
        BY <1>2 DEF AppsServer
    <2>3. x2[Old].there = 1 => calls'["delete"].seq = 0
        BY <1>2, <2>1, AppsOps DEF AppsServer
    <2>4. calls'["create"].seq = 0 \/ calls'["duplicate"].seq = 0
        BY <1>2, <2>1, AppsOps DEF AppsServer, AppsNew
    <2>5. x2[New] = AppList!Missing => \A v \in AppsNew : calls'[v].seq = 0
        BY <1>2, <2>1, AppsOps DEF AppsServer
    <2>6. QED
        BY <1>2, <2>2, <2>3, <2>4, <2>5 DEF AppsServer
<1>4. AppsLists'
    <2>1. SUFFICES ASSUME ~x7', NEW w \in AppList!Ops, calls'[w].seq # 0
          PROVE  /\ x2[Old].there = 1 =>
                        /\ calls'[w].list[Old].there = 1
                        /\ \A f \in AppList!Switches : \/ calls'[w].list[Old][f] = x2[Old][f]
                                                       \/ calls'[w].seq < x6' \/ calls'[w].seq < calls'[f].seq
                        /\ \/ calls'[w].list[Old].text = x2[Old].text
                           \/ calls'[w].seq < x6' \/ \E v \in AppsTexts : calls'[w].seq < calls'[v].seq
                 /\ x2[Old].there = 0 =>
                        \/ calls'[w].list[Old] = AppList!Missing \/ calls'[w].seq < x6'
                        \/ calls'[w].seq < calls'["delete"].seq
                 /\ calls'[w].list[New] \in {AppList!Missing, AppsMade}
                 /\ \/ calls'[w].list[New] = x2[New]
                    \/ calls'[w].seq < x6' \/ \E v \in AppsNew : calls'[w].seq < calls'[v].seq
                 /\ \A v \in AppsNew : calls'[w].seq < calls'[v].seq => calls'[w].list[New] = AppList!Missing
                 /\ w \in AppsNew => calls'[w].list[New] = AppsMade
        BY DEF AppsLists
    <2>2. ~x7 /\ calls'[w] = calls[w] /\ calls[w].seq # 0
        BY <2>1
    <2>3. \A o \in AppList!Ops : calls[w].seq < calls[o].seq => calls[w].seq < x6' \/ calls[w].seq < calls'[o].seq
        BY <1>1, <2>1
    <2>4. \A o \in AppList!Ops : calls[w].seq < calls'[o].seq => calls[w].seq < calls[o].seq
        BY <1>1
    <2>5. calls[w].seq < x6 => calls[w].seq < x6'
        BY <1>1, <1>2
    <2>6. x2[Old].there = 1 =>
              /\ calls[w].list[Old].there = 1
              /\ \A f \in AppList!Switches : \/ calls[w].list[Old][f] = x2[Old][f]
                                             \/ calls[w].seq < x6' \/ calls[w].seq < calls'[f].seq
              /\ \/ calls[w].list[Old].text = x2[Old].text
                 \/ calls[w].seq < x6' \/ \E v \in AppsTexts : calls[w].seq < calls'[v].seq
        BY <1>2, <2>2, <2>3, <2>5, AppsOps DEF AppsLists
    <2>7. x2[Old].there = 0 =>
              \/ calls[w].list[Old] = AppList!Missing \/ calls[w].seq < x6' \/ calls[w].seq < calls'["delete"].seq
        BY <1>2, <2>2, <2>3, <2>5, AppsOps DEF AppsLists
    <2>8. calls[w].list[New] \in {AppList!Missing, AppsMade} /\ (w \in AppsNew => calls[w].list[New] = AppsMade)
        BY <1>2, <2>2 DEF AppsLists
    <2>9. \/ calls[w].list[New] = x2[New]
          \/ calls[w].seq < x6' \/ \E v \in AppsNew : calls[w].seq < calls'[v].seq
        BY <1>2, <2>2, <2>3, <2>5, AppsOps DEF AppsLists
    <2>10. \A v \in AppsNew : calls[w].seq < calls'[v].seq => calls[w].list[New] = AppList!Missing
        BY <1>2, <2>2, <2>4, AppsOps DEF AppsLists
    <2>11. QED
        BY <2>2, <2>6, <2>7, <2>8, <2>9, <2>10
<1>5. QED
    BY <1>3, <1>4

(* What serving a request changes.                                         *)
LEMMA AppsEffect ==
    ASSUME AppsInv, NEW op \in AppList!Ops, AppList!Allowed(op), x2' = AppList!Effect(op)
    PROVE  /\ x2' \in [AppList!Items -> AppList!Item] /\ x2'[Old].there \in {0, 1}
           /\ x2'[Old].there = 1 =>
                  /\ x2[Old].there = 1 /\ op # "delete"
                  /\ \A f \in AppList!Switches : x2'[Old][f] = x2[Old][f] \/ f = op
                  /\ x2'[Old].text = x2[Old].text \/ op \in AppsTexts
           /\ x2'[Old].there = 0 => x2'[Old] = AppList!Missing /\ (x2[Old].there = 0 \/ op = "delete")
           /\ op \in AppsNew => x2[New] = AppList!Missing /\ x2'[New] = AppsMade
           /\ op \notin AppsNew => x2'[New] = x2[New]
<1>1. /\ x2 \in [AppList!Items -> AppList!Item] /\ x2[Old].there \in {0, 1} /\ x2[New] \in {AppList!Missing, AppsMade}
      /\ x2[Old].there = 0 => x2[Old] = AppList!Missing
    BY AppsTyped DEF AppsServer
<1>2. x2[Old] \in AppList!Item /\ x2[New] \in AppList!Item
    BY <1>1, AppsOps
<1>3. CASE op = "load"
    BY <1>1, <1>3, AppsOps DEF AppList!Effect
<1>4. CASE op \in AppList!Switches
    <2>a. op # "load" /\ op \notin {"create", "duplicate"} /\ op # "delete" /\ op \notin {"rename", "save"}
        BY <1>4 DEF AppList!Switches
    <2>b. x2[Old].there = 1
        BY <2>a DEF AppList!Allowed
    <2>c. x2' = [x2 EXCEPT ![Old][op] = ~@]
        BY <1>4, <2>a DEF AppList!Effect
    <2>1. x2' = [x2 EXCEPT ![Old][op] = ~@] /\ x2[Old].there = 1
        BY <2>b, <2>c
    <2>2. x2' = [x2 EXCEPT ![Old] = [x2[Old] EXCEPT ![op] = ~x2[Old][op]]]
        BY <1>1, <2>1, AppsOps
    <2>3. x2'[Old] = [x2[Old] EXCEPT ![op] = ~x2[Old][op]] /\ x2'[New] = x2[New]
        BY <1>1, <2>2, AppsOps
    <2>4. /\ x2'[Old] \in AppList!Item /\ x2'[Old].there = 1 /\ x2'[Old].text = x2[Old].text
          /\ \A f \in AppList!Switches \ {op} : x2'[Old][f] = x2[Old][f]
        <3> DEFINE b == ~x2[Old][op]
        <3>1. b \in BOOLEAN /\ x2'[Old] = [x2[Old] EXCEPT ![op] = b]
            BY <2>3
        <3> HIDE DEF b
        <3>2. /\ [x2[Old] EXCEPT ![op] = b] \in AppList!Item
              /\ [x2[Old] EXCEPT ![op] = b].text = x2[Old].text
              /\ [x2[Old] EXCEPT ![op] = b].there = x2[Old].there
              /\ \A f \in AppList!Switches \ {op} : [x2[Old] EXCEPT ![op] = b][f] = x2[Old][f]
            BY <1>2, <1>4, <3>1 DEF AppList!Item, AppList!Switches
        <3>3. QED
            BY <2>1, <3>1, <3>2
    <2>5. x2' \in [AppList!Items -> AppList!Item]
        BY <1>1, <2>2, <2>3, <2>4
    <2>6. QED
        BY <1>4, <2>1, <2>3, <2>4, <2>5, AppsOps
<1>5. CASE op \in AppsNew
    <2>1. x2' = [x2 EXCEPT ![New].there = 1] /\ x2[New].there = 0
        BY <1>5, AppsOps DEF AppList!Effect, AppList!Allowed, AppsNew, AppList!Switches
    <2>2. x2[New] = AppList!Missing
        BY <1>1, <2>1, AppsNothing
    <2>3. x2' = [x2 EXCEPT ![New] = [x2[New] EXCEPT !.there = 1]]
        BY <1>1, <2>1, AppsOps
    <2>4. x2'[New] = AppsMade /\ x2'[Old] = x2[Old] /\ x2' \in [AppList!Items -> AppList!Item]
        BY <1>1, <2>2, <2>3, AppsOps, AppsNothing DEF AppsMade
    <2>5. QED
        BY <1>1, <1>5, <2>2, <2>4, AppsOps
<1>6. CASE op = "delete"
    <2>1. x2' = [x2 EXCEPT ![Old] = AppList!Missing]
        BY <1>6, AppsOps DEF AppList!Effect, AppsNew, AppList!Switches
    <2>2. x2'[Old] = AppList!Missing /\ x2'[New] = x2[New] /\ x2' \in [AppList!Items -> AppList!Item]
        BY <1>1, <2>1, AppsOps, AppsNothing
    <2>3. QED
        BY <1>6, <2>2, AppsOps, AppsNothing
<1>7. CASE op \in AppsTexts
    <2>1. x2' = [x2 EXCEPT ![Old].text = steps] /\ x2[Old].there = 1
        BY <1>7, AppsOps DEF AppList!Effect, AppList!Allowed, AppsNew, AppList!Switches, AppsTexts
    <2>2. x2' = [x2 EXCEPT ![Old] = [x2[Old] EXCEPT !.text = steps]] /\ steps \in 0..MoreSteps
        BY <1>1, <2>1, AppsOps, AppsTyped
    <2>3. /\ [x2[Old] EXCEPT !.text = steps] \in AppList!Item /\ [x2[Old] EXCEPT !.text = steps].there = 1
          /\ \A f \in AppList!Switches : [x2[Old] EXCEPT !.text = steps][f] = x2[Old][f]
        BY <1>2, <2>1, <2>2 DEF AppList!Item, AppList!Switches
    <2>4. x2'[Old] = [x2[Old] EXCEPT !.text = steps] /\ x2'[New] = x2[New] /\ x2' \in [AppList!Items -> AppList!Item]
        BY <1>1, <2>2, <2>3, AppsOps
    <2>5. QED
        BY <1>7, <2>1, <2>3, <2>4, AppsOps
<1>8. QED
    BY <1>3, <1>4, <1>5, <1>6, <1>7, AppsOps

(* A request the server refuses.                                           *)
LEMMA AppsRefused ==
    ASSUME AppsInv, NEW op \in AppList!Ops, AppList!ServerAnswers(op), ~AppList!Allowed(op)
    PROVE  AppsInv'
<1>1. /\ calls[op].at = "sent" /\ UNCHANGED <<x1, x3, x4, busy, x6, x7, steps, x2, x5>>
      /\ calls' = [calls EXCEPT ![op] = [calls[op] EXCEPT !.at = "done", !.failed = TRUE]]
    BY DEF AppList!ServerAnswers
<1>2. /\ calls[op] \in AppsCalls /\ calls[op].seq = 0 /\ ~calls[op].failed /\ calls \in [AppList!Ops -> AppsCalls]
      /\ \A o \in AppList!Ops : calls[o].seq \in Nat
    BY <1>1, AppsCallTyped, AppsTyped
<1>3. /\ calls' \in [AppList!Ops -> AppsCalls] /\ calls'[op].at = "done" /\ calls'[op].failed = TRUE /\ calls'[op].seq = 0
      /\ calls'[op].list = calls[op].list /\ calls'[op].before = calls[op].before
      /\ \A o \in AppList!Ops \ {op} : calls'[o] = calls[o]
    BY <1>1, <1>2 DEF AppsCalls
<1>4. /\ \A o \in AppList!Ops : calls'[o].seq = calls[o].seq /\ calls'[o].list = calls[o].list /\ calls'[o].before = calls[o].before
      /\ \A o \in AppList!Ops : calls'[o].at = AppList!None <=> calls[o].at = AppList!None
    BY <1>1, <1>2, <1>3 DEF AppList!None
<1>5. AppsServer' /\ AppsLists'
    <2>1. x2[New] = AppList!Missing => x3'[New] = AppList!Missing /\ \A o \in AppList!Ops : calls'[o].list[New] = AppList!Missing
        BY <1>1, <1>4, AppsTyped DEF AppsServer
    <2>2. x6' = x6 /\ x6 \in Nat /\ x7' = x7 /\ x2' = x2
        BY <1>1, AppsTyped
    <2>3. \A o \in AppList!Ops : calls'[o] = calls[o] \/ calls'[o].seq = 0
        BY <1>3
    <2>4. QED
        BY <1>3, <1>4, <2>1, <2>2, <2>3, AppsFrame
<1>6. AppsShapes'
    <2>1. busy' = {o \in AppList!Ops : calls'[o].at # AppList!None}
        BY <1>1, <1>4, AppsTyped
    <2>2. ASSUME NEW o \in AppList!Ops
          PROVE  /\ calls'[o].at = "done" => (calls'[o].failed <=> calls'[o].seq = 0)
                 /\ calls'[o].at # "done" => calls'[o].seq = 0 /\ ~calls'[o].failed
                 /\ calls'[o].seq <= x5'
                 /\ \A p \in AppList!Ops \ {o} : calls'[p].seq = calls'[o].seq => calls'[p].seq = 0
        BY <1>1, <1>3, <1>4, AppsCallTyped
    <2>3. QED
        BY <1>1, <1>3, <2>1, <2>2, AppsTyped DEF AppsShapes
<1>7. AppsShown' /\ AppsBefore'
    <2>1. AppsShown /\ AppsBefore
        BY AppsTyped
    <2>2. AppsShown'
        BY <1>1, <1>4, <2>1, AppsOps DEF AppsShown
    <2>3. AppsBefore'
        BY <1>1, <1>4, <2>1, AppsOps DEF AppsBefore
    <2>4. QED
        BY <2>2, <2>3
<1>8. AppsCounted' /\ AppList!TypeOK'
    <2>1. AppsWeight(op)' = 0 /\ AppsWeight(op) \in Nat
        BY <1>3 DEF AppsWeight
    <2>2. x5' = x5 /\ x5 \in Nat /\ steps' = steps /\ steps \in 0..MoreSteps
        BY <1>1, AppsTyped
    <2>3. AppsCounted' /\ x5' \in 0..(2 * MoreSteps + 1)
        BY <1>3, <2>1, <2>2, AppsCounts
    <2>4. \A o \in AppList!Ops : /\ calls'[o].at \in {AppList!None, "sent", "done"} /\ calls'[o].seq \in 0..(2 * MoreSteps + 1)
                                 /\ calls'[o].list \in [AppList!Items -> AppList!Item]
        BY <1>3 DEF AppsCalls
    <2>5. QED
        BY <1>1, <2>3, <2>4, AppsTyped DEF AppList!TypeOK
<1>9. QED
    BY <1>5, <1>6, <1>7, <1>8 DEF AppsInv

(* A request the server grants.                                            *)
LEMMA AppsServes ==
    ASSUME AppsInv, NEW op \in AppList!Ops, AppList!ServerAnswers(op), AppList!Allowed(op)
    PROVE  AppsInv'
<1>1. /\ calls[op].at = "sent" /\ UNCHANGED <<x1, x3, x4, busy, x6, x7, steps>>
      /\ x2' = AppList!Effect(op) /\ x5' = x5 + 1
      /\ calls' = [calls EXCEPT ![op] = [calls[op] EXCEPT !.at = "done", !.seq = x5 + 1, !.list = x2']]
    BY DEF AppList!ServerAnswers
<1>2. /\ calls[op] \in AppsCalls /\ calls[op].seq = 0 /\ ~calls[op].failed /\ calls \in [AppList!Ops -> AppsCalls]
      /\ \A o \in AppList!Ops : calls[o].seq \in Nat /\ calls[o].seq <= x5
      /\ x5 \in Nat /\ x6 \in Nat /\ x6 <= x5 /\ steps \in 0..MoreSteps
    BY <1>1, AppsCallTyped, AppsTyped DEF AppsShapes
<1>3. /\ x2' \in [AppList!Items -> AppList!Item] /\ x2'[Old].there \in {0, 1}
      /\ x2'[Old].there = 1 =>
             /\ x2[Old].there = 1 /\ op # "delete"
             /\ \A f \in AppList!Switches : x2'[Old][f] = x2[Old][f] \/ f = op
             /\ x2'[Old].text = x2[Old].text \/ op \in AppsTexts
      /\ x2'[Old].there = 0 => x2'[Old] = AppList!Missing /\ (x2[Old].there = 0 \/ op = "delete")
      /\ op \in AppsNew => x2[New] = AppList!Missing /\ x2'[New] = AppsMade
      /\ op \notin AppsNew => x2'[New] = x2[New]
    BY <1>1, AppsEffect
<1>4. /\ calls'[op] = [calls[op] EXCEPT !.at = "done", !.seq = x5 + 1, !.list = x2']
      /\ \A o \in AppList!Ops \ {op} : calls'[o] = calls[o]
    BY <1>1, <1>2
<1>5. /\ calls'[op].at = "done" /\ ~calls'[op].failed /\ calls'[op].seq = x5 + 1 /\ calls'[op].list = x2'
      /\ calls'[op].before = calls[op].before
    BY <1>2, <1>4 DEF AppsCalls
<1>6. AppsCounted' /\ x5 + 1 \in 0..(2 * MoreSteps + 1)
    <2>1. AppsWeight(op)' = IF op \in {"save", "delete"} THEN 1 ELSE 0
        BY <1>5 DEF AppsWeight, AppList!None
    <2>2. AppsWeight(op) = 1 + IF op \in {"save", "delete"} THEN 1 ELSE 0
        BY <1>1, <1>2 DEF AppsWeight, AppList!None
    <2>3. x5' + AppsWeight(op)' + 2 * steps <= x5 + AppsWeight(op) + 2 * steps' /\ steps' = steps /\ x5' \in Nat
        BY <1>1, <1>2, <2>1, <2>2
    <2>4. AppsCounted' /\ x5' \in 0..(2 * MoreSteps + 1)
        BY <1>2, <1>4, <2>3, AppsCounts
    <2>5. QED
        BY <1>1, <2>4
<1>7. calls' \in [AppList!Ops -> AppsCalls]
    <2>1. calls'[op] \in AppsCalls
        BY <1>2, <1>3, <1>4, <1>6 DEF AppsCalls
    <2>2. QED
        BY <1>1, <1>2, <1>4, <2>1
<1>8. /\ \A o \in AppList!Ops \ {op} : calls'[o].seq = calls[o].seq /\ calls'[o].seq <= x5
      /\ \A o \in AppList!Ops : calls'[o].at = AppList!None <=> calls[o].at = AppList!None
      /\ \A o \in AppList!Ops : calls[o].seq # 0 => calls'[o].seq # 0
      /\ calls'[op].seq # 0 /\ calls'[op].seq \in Nat
    BY <1>1, <1>2, <1>4, <1>5 DEF AppList!None
<1>9. AppsShapes' /\ AppList!TypeOK'
    <2>1. busy' = {o \in AppList!Ops : calls'[o].at # AppList!None}
        BY <1>1, <1>8, AppsTyped
    <2>2. ASSUME NEW o \in AppList!Ops
          PROVE  /\ calls'[o].at = "done" => (calls'[o].failed <=> calls'[o].seq = 0)
                 /\ calls'[o].at # "done" => calls'[o].seq = 0 /\ ~calls'[o].failed
                 /\ calls'[o].seq <= x5'
                 /\ \A p \in AppList!Ops \ {o} : calls'[p].seq = calls'[o].seq => calls'[p].seq = 0
        <3>1. CASE o = op
            <4>1. \A p \in AppList!Ops \ {o} : calls'[p].seq # calls'[o].seq
                BY <1>2, <1>5, <1>8, <3>1
            <4>2. QED
                BY <1>1, <1>2, <1>5, <1>8, <3>1, <4>1
        <3>2. CASE o # op
            <4>1. calls'[o] = calls[o] /\ calls[o].seq <= x5 /\ calls[o].seq \in Nat
                BY <1>2, <1>4, <3>2
            <4>2. \A p \in AppList!Ops \ {o} : calls'[p].seq = calls'[o].seq => calls'[p].seq = 0
                <5>1. \A p \in AppList!Ops \ {o} : calls[p].seq = calls[o].seq => calls[p].seq = 0
                    BY AppsCallTyped
                <5>2. \A p \in AppList!Ops \ {op} : calls'[p] = calls[p]
                    BY <1>4
                <5>3. calls'[op].seq # calls[o].seq
                    BY <1>2, <1>5, <4>1
                <5>4. QED
                    BY <4>1, <5>1, <5>2, <5>3
            <4>3. QED
                BY <1>1, <1>2, <4>1, <4>2, AppsCallTyped
        <3>3. QED
            BY <3>1, <3>2
    <2>3. x6' <= x5'
        BY <1>1, <1>2
    <2>4. AppsShapes'
        BY <1>7, <2>1, <2>2, <2>3 DEF AppsShapes
    <2>5. \A o \in AppList!Ops : /\ calls'[o].at \in {AppList!None, "sent", "done"} /\ calls'[o].seq \in 0..(2 * MoreSteps + 1)
                                 /\ calls'[o].list \in [AppList!Items -> AppList!Item]
        BY <1>7 DEF AppsCalls
    <2>6. AppList!TypeOK'
        BY <1>1, <1>3, <1>6, <2>5, AppsTyped DEF AppList!TypeOK
    <2>7. QED
        BY <2>4, <2>6
<1>10. AppsServer'
    <2>1. AppsServer
        BY AppsTyped
    <2>2. x2'[Old].there = 1 => calls'["delete"].seq = 0
        BY <1>3, <1>4, <2>1, AppsOps DEF AppsServer
    <2>3. x2'[New] \in {AppList!Missing, AppsMade}
        BY <1>3, <2>1 DEF AppsServer
    <2>4. x2'[New] = AppList!Missing => /\ \A v \in AppsNew : calls'[v].seq = 0
                                   /\ \A w \in AppList!Ops : calls'[w].list[New] = AppList!Missing
                                   /\ x3'[New] = AppList!Missing
        <3>1. SUFFICES ASSUME x2'[New] = AppList!Missing
              PROVE  /\ \A v \in AppsNew : calls'[v].seq = 0
                     /\ \A w \in AppList!Ops : calls'[w].list[New] = AppList!Missing
                     /\ x3'[New] = AppList!Missing
            OBVIOUS
        <3>2. op \notin AppsNew /\ x2[New] = AppList!Missing
            BY <1>3, <3>1, AppsNothing
        <3>3. \A v \in AppsNew : calls'[v].seq = 0
            BY <1>4, <2>1, <3>2, AppsOps DEF AppsServer
        <3>4. \A w \in AppList!Ops : calls'[w].list[New] = AppList!Missing
            BY <1>4, <1>5, <2>1, <3>1, <3>2 DEF AppsServer
        <3>5. QED
            BY <1>1, <2>1, <3>2, <3>3, <3>4 DEF AppsServer
    <2>5. calls'["create"].seq = 0 \/ calls'["duplicate"].seq = 0
        <3>1. CASE op \in AppsNew
            <4>1. \A v \in AppsNew : calls[v].seq = 0
                BY <1>3, <2>1, <3>1 DEF AppsServer
            <4>2. QED
                BY <1>4, <3>1, <4>1, AppsOps DEF AppsNew
        <3>2. CASE op \notin AppsNew
            BY <1>4, <2>1, <3>2, AppsOps DEF AppsNew, AppsServer
        <3>3. QED
            BY <3>1, <3>2
    <2>6. QED
        BY <1>3, <2>2, <2>3, <2>4, <2>5 DEF AppsServer
<1>11. AppsLists'
    <2>1. SUFFICES ASSUME ~x7', NEW w \in AppList!Ops, calls'[w].seq # 0
          PROVE  /\ x2'[Old].there = 1 =>
                        /\ calls'[w].list[Old].there = 1
                        /\ \A f \in AppList!Switches : \/ calls'[w].list[Old][f] = x2'[Old][f]
                                                       \/ calls'[w].seq < x6' \/ calls'[w].seq < calls'[f].seq
                        /\ \/ calls'[w].list[Old].text = x2'[Old].text
                           \/ calls'[w].seq < x6' \/ \E v \in AppsTexts : calls'[w].seq < calls'[v].seq
                 /\ x2'[Old].there = 0 =>
                        \/ calls'[w].list[Old] = AppList!Missing \/ calls'[w].seq < x6'
                        \/ calls'[w].seq < calls'["delete"].seq
                 /\ calls'[w].list[New] \in {AppList!Missing, AppsMade}
                 /\ \/ calls'[w].list[New] = x2'[New]
                    \/ calls'[w].seq < x6' \/ \E v \in AppsNew : calls'[w].seq < calls'[v].seq
                 /\ \A v \in AppsNew : calls'[w].seq < calls'[v].seq => calls'[w].list[New] = AppList!Missing
                 /\ w \in AppsNew => calls'[w].list[New] = AppsMade
        BY DEF AppsLists
    <2>2. CASE w = op
        <3>1. \A o \in AppList!Ops : ~(calls'[w].seq < calls'[o].seq)
            BY <1>2, <1>5, <1>8, <2>2
        <3>2. x2'[New] \in {AppList!Missing, AppsMade}
            BY <1>10 DEF AppsServer
        <3>3. QED
            BY <1>3, <1>5, <2>2, <3>1, <3>2, AppsOps
    <2>3. CASE w # op
        <3>1. /\ ~x7 /\ calls'[w] = calls[w] /\ calls[w].seq # 0 /\ x6' = x6 /\ calls[w].seq < calls'[op].seq
            BY <1>1, <1>2, <1>4, <1>5, <2>1, <2>3
        <3>2. AppsLists
            BY AppsTyped
        <3>3. x2'[Old].there = 1 =>
                  /\ calls[w].list[Old].there = 1
                  /\ \A f \in AppList!Switches : \/ calls[w].list[Old][f] = x2'[Old][f]
                                                 \/ calls[w].seq < x6' \/ calls[w].seq < calls'[f].seq
                  /\ \/ calls[w].list[Old].text = x2'[Old].text
                     \/ calls[w].seq < x6' \/ \E v \in AppsTexts : calls[w].seq < calls'[v].seq
            <4>1. SUFFICES ASSUME x2'[Old].there = 1
                  PROVE  /\ calls[w].list[Old].there = 1
                         /\ \A f \in AppList!Switches : \/ calls[w].list[Old][f] = x2'[Old][f]
                                                        \/ calls[w].seq < x6' \/ calls[w].seq < calls'[f].seq
                         /\ \/ calls[w].list[Old].text = x2'[Old].text
                            \/ calls[w].seq < x6' \/ \E v \in AppsTexts : calls[w].seq < calls'[v].seq
                OBVIOUS
            <4>2. /\ calls[w].list[Old].there = 1
                  /\ \A f \in AppList!Switches : \/ calls[w].list[Old][f] = x2[Old][f]
                                                 \/ calls[w].seq < x6 \/ calls[w].seq < calls[f].seq
                  /\ \/ calls[w].list[Old].text = x2[Old].text
                     \/ calls[w].seq < x6 \/ \E v \in AppsTexts : calls[w].seq < calls[v].seq
                BY <1>3, <3>1, <3>2, <4>1 DEF AppsLists
            <4>3. ASSUME NEW f \in AppList!Switches
                  PROVE  \/ calls[w].list[Old][f] = x2'[Old][f]
                         \/ calls[w].seq < x6' \/ calls[w].seq < calls'[f].seq
                <5>1. CASE f = op
                    BY <3>1, <5>1
                <5>2. CASE f # op
                    <6>1. calls'[f] = calls[f] /\ x2'[Old][f] = x2[Old][f]
                        BY <1>3, <1>4, <4>1, <5>2, AppsOps
                    <6>2. QED
                        BY <3>1, <4>2, <6>1
                <5>3. QED
                    BY <5>1, <5>2
            <4>4. \/ calls[w].list[Old].text = x2'[Old].text
                  \/ calls[w].seq < x6' \/ \E v \in AppsTexts : calls[w].seq < calls'[v].seq
                <5>1. CASE op \in AppsTexts
                    BY <3>1, <5>1
                <5>2. CASE op \notin AppsTexts
                    <6>1. x2'[Old].text = x2[Old].text /\ \A v \in AppsTexts : calls'[v] = calls[v]
                        BY <1>3, <1>4, <4>1, <5>2, AppsOps
                    <6>2. QED
                        BY <3>1, <4>2, <6>1
                <5>3. QED
                    BY <5>1, <5>2
            <4>5. QED
                BY <4>2, <4>3, <4>4
        <3>4. x2'[Old].there = 0 =>
                  calls[w].list[Old] = AppList!Missing \/ calls[w].seq < x6' \/ calls[w].seq < calls'["delete"].seq
            <4>1. CASE op = "delete"
                BY <3>1, <4>1
            <4>2. CASE op # "delete"
                BY <1>3, <1>4, <3>1, <3>2, <4>2, AppsOps DEF AppsLists
            <4>3. QED
                BY <4>1, <4>2
        <3>5. calls[w].list[New] \in {AppList!Missing, AppsMade} /\ (w \in AppsNew => calls[w].list[New] = AppsMade)
            BY <3>1, <3>2 DEF AppsLists
        <3>6. \/ calls[w].list[New] = x2'[New]
              \/ calls[w].seq < x6' \/ \E v \in AppsNew : calls[w].seq < calls'[v].seq
            <4>1. CASE op \in AppsNew
                BY <3>1, <4>1
            <4>2. CASE op \notin AppsNew
                <5>1. x2'[New] = x2[New] /\ \A v \in AppsNew : calls'[v] = calls[v]
                    BY <1>3, <1>4, <4>2, AppsOps
                <5>2. QED
                    BY <3>1, <3>2, <5>1 DEF AppsLists
            <4>3. QED
                BY <4>1, <4>2
        <3>7. \A v \in AppsNew : calls[w].seq < calls'[v].seq => calls[w].list[New] = AppList!Missing
            <4>1. CASE op \in AppsNew
                BY <1>3, <4>1, AppsTyped DEF AppsServer
            <4>2. CASE op \notin AppsNew
                <5>1. \A v \in AppsNew : calls'[v] = calls[v]
                    BY <1>4, <4>2, AppsOps
                <5>2. QED
                    BY <3>1, <3>2, <5>1 DEF AppsLists
            <4>3. QED
                BY <4>1, <4>2
        <3>8. QED
            BY <3>1, <3>3, <3>4, <3>5, <3>6, <3>7
    <2>4. QED
        BY <2>2, <2>3
<1>12. AppsShown'
    <2>1. SUFFICES ASSUME ~x7', calls'["load"].at = AppList!None
          PROVE  /\ x2'[Old].there = 1 =>
                        /\ x3'[Old].there = 1
                        /\ \A f \in AppList!Switches : x3'[Old][f] = x2'[Old][f] \/ calls'[f].at # AppList!None
                        /\ x3'[Old].text = x2'[Old].text \/ \E v \in AppsTexts : calls'[v].seq # 0
                 /\ x2'[Old].there = 0 => x3'[Old] = AppList!Missing \/ calls'["delete"].seq # 0
                 /\ x3'[New] = x2'[New] \/ \E v \in AppsNew : calls'[v].seq # 0
                 /\ \A v \in AppsNew : calls'[v].seq # 0 => calls'[v].seq < x6' \/ x3'[New] = AppList!Missing
        BY DEF AppsShown
    <2>2. AppsShown /\ ~x7 /\ calls["load"].at = AppList!None /\ x3' = x3 /\ x6' = x6
        BY <1>1, <1>8, <2>1, AppsTyped, AppsOps
    <2>3. x2'[Old].there = 1 =>
              /\ x3[Old].there = 1
              /\ \A f \in AppList!Switches : x3[Old][f] = x2'[Old][f] \/ calls'[f].at # AppList!None
              /\ x3[Old].text = x2'[Old].text \/ \E v \in AppsTexts : calls'[v].seq # 0
        <3>1. SUFFICES ASSUME x2'[Old].there = 1
              PROVE  /\ x3[Old].there = 1
                     /\ \A f \in AppList!Switches : x3[Old][f] = x2'[Old][f] \/ calls'[f].at # AppList!None
                     /\ x3[Old].text = x2'[Old].text \/ \E v \in AppsTexts : calls'[v].seq # 0
            OBVIOUS
        <3>2. /\ x3[Old].there = 1
              /\ \A f \in AppList!Switches : x3[Old][f] = x2[Old][f] \/ calls[f].at # AppList!None
              /\ x3[Old].text = x2[Old].text \/ \E v \in AppsTexts : calls[v].seq # 0
            BY <1>3, <2>2, <3>1 DEF AppsShown
        <3>3. \A f \in AppList!Switches : x3[Old][f] = x2'[Old][f] \/ calls'[f].at # AppList!None
            BY <1>1, <1>3, <1>8, <3>1, <3>2, AppsOps DEF AppList!None
        <3>4. x3[Old].text = x2'[Old].text \/ \E v \in AppsTexts : calls'[v].seq # 0
            BY <1>3, <1>8, <3>1, <3>2, AppsOps
        <3>5. QED
            BY <3>2, <3>3, <3>4
    <2>4. x2'[Old].there = 0 => x3[Old] = AppList!Missing \/ calls'["delete"].seq # 0
        BY <1>3, <1>8, <2>2, AppsOps DEF AppsShown
    <2>5. x3[New] = x2'[New] \/ \E v \in AppsNew : calls'[v].seq # 0
        BY <1>3, <1>8, <2>2, AppsOps DEF AppsShown
    <2>6. \A v \in AppsNew : calls'[v].seq # 0 => calls'[v].seq < x6 \/ x3[New] = AppList!Missing
        <3>1. CASE op \in AppsNew
            BY <1>3, <3>1, AppsTyped DEF AppsServer
        <3>2. CASE op \notin AppsNew
            <4>1. \A v \in AppsNew : calls'[v] = calls[v]
                BY <1>4, <3>2, AppsOps
            <4>2. QED
                BY <2>2, <4>1 DEF AppsShown
        <3>3. QED
            BY <3>1, <3>2
    <2>7. QED
        BY <2>2, <2>3, <2>4, <2>5, <2>6
<1>13. AppsBefore'
    <2>1. SUFFICES ASSUME ~x7', NEW f \in AppList!Switches, calls'[f].at # AppList!None, calls'[f].seq = 0, x2'[Old].there = 1
          PROVE  calls'[f].before = x2'[Old][f]
        BY DEF AppsBefore
    <2>2. f # op
        BY <1>8, <2>1
    <2>3. calls'[f] = calls[f] /\ x2'[Old][f] = x2[Old][f] /\ x2[Old].there = 1 /\ ~x7
        BY <1>1, <1>3, <1>4, <2>1, <2>2, AppsOps
    <2>4. QED
        BY <2>1, <2>3, AppsTyped DEF AppsBefore
<1>14. QED
    BY <1>6, <1>9, <1>10, <1>11, <1>12, <1>13 DEF AppsInv

(* What a request that is made, or that ends, leaves to show: the list.    *)
LEMMA AppsMoves ==
    ASSUME AppsInv, x1' = x1, x2' = x2, x5' = x5, calls' \in [AppList!Ops -> AppsCalls],
           x3' \in [AppList!Items -> AppList!Item], x4' \in {AppList!None, "form", "delete", "rename"},
           busy' = {op \in AppList!Ops : calls'[op].at # AppList!None}, steps' \in 0..MoreSteps, AppsCounted',
           x6' \in Nat, x6 <= x6', x6' <= x5, x7' \in BOOLEAN, x7 => x7',
           \A o \in AppList!Ops : \/ calls'[o] = calls[o]
                         \/ /\ calls'[o].at # "done" /\ calls'[o].seq = 0 /\ ~calls'[o].failed
                            /\ calls'[o].list[New] = AppList!Missing,
           ~x7' => \A o \in AppList!Ops : calls'[o].seq = calls[o].seq \/ calls[o].seq <= x6',
           ~x7' => \A f \in AppList!Switches : \/ calls'[f] = calls[f] \/ calls'[f].at = AppList!None
                                           \/ (x2[Old].there = 1 => calls'[f].before = x2[Old][f]),
           x2[New] = AppList!Missing => x3'[New] = AppList!Missing
    PROVE  AppList!TypeOK' /\ AppsShapes' /\ AppsServer' /\ AppsLists' /\ AppsBefore'
<1>1. AppsServer' /\ AppsLists'
    <2>1. \A o \in AppList!Ops : calls'[o] = calls[o] \/ (calls'[o].seq = 0 /\ (x2[New] = AppList!Missing => calls'[o].list[New] = AppList!Missing))
        OBVIOUS
    <2>2. QED
        BY <2>1, AppsFrame
<1>2. AppsShapes'
    <2>1. ASSUME NEW o \in AppList!Ops
          PROVE  /\ calls'[o].at = "done" => (calls'[o].failed <=> calls'[o].seq = 0)
                 /\ calls'[o].at # "done" => calls'[o].seq = 0 /\ ~calls'[o].failed
                 /\ calls'[o].seq <= x5'
                 /\ \A p \in AppList!Ops \ {o} : calls'[p].seq = calls'[o].seq => calls'[p].seq = 0
        <3>1. x5 \in Nat
            BY AppsTyped
        <3>2. CASE calls'[o] = calls[o]
            <4>1. \A p \in AppList!Ops \ {o} : calls[p].seq = calls[o].seq => calls[p].seq = 0
                BY AppsCallTyped
            <4>2. \A p \in AppList!Ops \ {o} : calls'[p].seq = calls'[o].seq => calls'[p].seq = 0
                BY <3>2, <4>1
            <4>3. QED
                BY <3>2, <4>2, AppsCallTyped
        <3>3. CASE calls'[o].at # "done" /\ calls'[o].seq = 0 /\ ~calls'[o].failed
            BY <3>1, <3>3
        <3>4. QED
            BY <3>2, <3>3
    <2>2. QED
        BY <2>1 DEF AppsShapes
<1>3. AppsBefore'
    <2>1. AppsBefore
        BY AppsTyped
    <2>2. SUFFICES ASSUME ~x7', NEW f \in AppList!Switches, calls'[f].at # AppList!None, calls'[f].seq = 0, x2[Old].there = 1
          PROVE  calls'[f].before = x2[Old][f]
        BY DEF AppsBefore
    <2>3. CASE calls'[f] = calls[f]
        BY <2>1, <2>2, <2>3 DEF AppsBefore
    <2>4. QED
        BY <2>2, <2>3
<1>4. AppList!TypeOK'
    <2>1. \A o \in AppList!Ops : /\ calls'[o].at \in {AppList!None, "sent", "done"} /\ calls'[o].seq \in 0..(2 * MoreSteps + 1)
                                 /\ calls'[o].list \in [AppList!Items -> AppList!Item]
        BY DEF AppsCalls
    <2>2. x2 \in [AppList!Items -> AppList!Item] /\ x5 \in 0..(2 * MoreSteps + 1) /\ x1 \in {"apps", "variables"}
        BY AppsTyped
    <2>3. x6' \in 0..(2 * MoreSteps + 1)
        BY <2>2
    <2>4. QED
        BY <2>1, <2>2, <2>3 DEF AppList!TypeOK
<1>5. QED
    BY <1>1, <1>2, <1>3, <1>4

(* Dialogs that open and close.                                            *)
LEMMA AppsQuiet ==
    ASSUME AppsInv, UNCHANGED <<x1, x2, x3, calls, busy, x5, x6, x7, steps>>,
           x4' \in {AppList!None, "form", "delete", "rename"}
    PROVE  AppsInv'
<1>1. AppList!TypeOK'
    BY AppsTyped DEF AppsInv, AppList!TypeOK
<1>2. AppsShapes'
    BY AppsTyped DEF AppsShapes
<1>3. AppsCounted'
    BY AppsTyped DEF AppsCounted, AppsSum, AppsWeights, AppsWeight
<1>4. AppsServer'
    BY AppsTyped DEF AppsServer
<1>5. AppsLists'
    BY AppsTyped DEF AppsLists
<1>6. AppsShown' /\ AppsBefore'
    BY AppsTyped DEF AppsShown, AppsBefore
<1>7. QED
    BY <1>1, <1>2, <1>3, <1>4, <1>5, <1>6 DEF AppsInv

(* A request is made, and the list is as it was but for a switch.          *)
LEMMA AppsSends ==
    ASSUME AppsInv, NEW op \in AppList!Ops, NEW c \in AppsCalls, steps < MoreSteps, steps' = steps + 1,
           calls[op].at = AppList!None, calls' = [calls EXCEPT ![op] = c], busy' = busy \cup {op},
           UNCHANGED <<x1, x2, x5, x6, x7, x4>>, x3' \in [AppList!Items -> AppList!Item],
           c.at = "sent", c.seq = 0, ~c.failed, c.list[New] = AppList!Missing,
           ~x7 /\ op \in AppList!Switches /\ x2[Old].there = 1 => c.before = x2[Old][op],
           x3'[New] = x3[New]
    PROVE  /\ AppList!TypeOK' /\ AppsShapes' /\ AppsCounted' /\ AppsServer' /\ AppsLists' /\ AppsBefore'
           /\ calls'[op] = c /\ \A o \in AppList!Ops \ {op} : calls'[o] = calls[o]
<1>1. /\ calls \in [AppList!Ops -> AppsCalls] /\ busy = {o \in AppList!Ops : calls[o].at # AppList!None} /\ x5 \in Nat /\ x6 \in Nat
      /\ steps \in 0..MoreSteps /\ x6 <= x5 /\ x7 \in BOOLEAN
      /\ calls[op].seq = 0 /\ ~calls[op].failed /\ x4 \in {AppList!None, "form", "delete", "rename"}
    BY AppsTyped, AppsCallTyped DEF AppsShapes, AppList!None
<1>2. calls' \in [AppList!Ops -> AppsCalls] /\ calls'[op] = c /\ \A o \in AppList!Ops \ {op} : calls'[o] = calls[o]
    BY <1>1
<1>3. AppsCounted'
    <2>1. AppsWeight(op) = 0
        BY <1>1 DEF AppsWeight, AppList!None
    <2>2. AppsWeight(op)' \in 0..2
        BY DEF AppsWeight
    <2>3. /\ x5' \in Nat /\ steps' \in 0..MoreSteps
          /\ x5' + AppsWeight(op)' + 2 * steps <= x5 + AppsWeight(op) + 2 * steps'
        BY <1>1, <2>1, <2>2
    <2>4. QED
        BY <1>2, <2>3, AppsCounts
<1>4. busy' = {o \in AppList!Ops : calls'[o].at # AppList!None}
    BY <1>1, <1>2 DEF AppList!None
<1>5. \A o \in AppList!Ops : \/ calls'[o] = calls[o]
                    \/ /\ calls'[o].at # "done" /\ calls'[o].seq = 0 /\ ~calls'[o].failed
                       /\ calls'[o].list[New] = AppList!Missing
    BY <1>2
<1>6. \A o \in AppList!Ops : calls'[o].seq = calls[o].seq
    BY <1>1, <1>2
<1>7. ~x7' => \A f \in AppList!Switches : \/ calls'[f] = calls[f] \/ calls'[f].at = AppList!None
                                      \/ (x2[Old].there = 1 => calls'[f].before = x2[Old][f])
    BY <1>2, AppsOps
<1>8. steps' \in 0..MoreSteps /\ x6' \in Nat /\ x6 <= x6' /\ x6' <= x5 /\ x7' \in BOOLEAN
    BY <1>1
<1>9. x2[New] = AppList!Missing => x3'[New] = AppList!Missing
    BY AppsTyped DEF AppsServer
<1>10. AppList!TypeOK' /\ AppsShapes' /\ AppsServer' /\ AppsLists' /\ AppsBefore'
    BY <1>1, <1>2, <1>3, <1>4, <1>5, <1>6, <1>7, <1>8, <1>9, AppsMoves
<1>11. QED
    BY <1>2, <1>3, <1>10

(* A request that is sent.                                                 *)
LEMMA AppsAsk ==
    ASSUME AppsInv, NEW op \in AppList!Ops \ AppList!Switches, AppList!Send(op), UNCHANGED <<x3, x4>>
    PROVE  AppsInv'
<1>1. /\ steps < MoreSteps /\ steps' = steps + 1 /\ calls[op].at = AppList!None /\ calls' = [calls EXCEPT ![op] = AppList!Sent]
      /\ busy' = busy \cup {op} /\ UNCHANGED <<x1, x2, x5, x6, x7>>
    BY DEF AppList!Send
<1>2. x3 \in [AppList!Items -> AppList!Item] /\ calls[op].seq = 0
    BY <1>1, AppsTyped, AppsCallTyped DEF AppList!None
<1>3. /\ AppList!TypeOK' /\ AppsShapes' /\ AppsCounted' /\ AppsServer' /\ AppsLists' /\ AppsBefore'
      /\ calls'[op] = AppList!Sent /\ \A o \in AppList!Ops \ {op} : calls'[o] = calls[o]
    BY <1>1, <1>2, AppsNothing, AppsSends
<1>4. /\ \A o \in AppList!Ops : calls'[o].seq = calls[o].seq
      /\ \A o \in AppList!Ops : calls[o].at # AppList!None => calls'[o].at # AppList!None
    BY <1>1, <1>2, <1>3, AppsNothing DEF AppList!None
<1>5. AppsShown'
    BY <1>1, <1>4, AppsTyped, AppsOps DEF AppsShown
<1>6. QED
    BY <1>3, <1>5 DEF AppsInv

(* A switch, shown as turned before it is.                                 *)
LEMMA AppsToggle ==
    ASSUME AppsInv, NEW f \in AppList!Switches, AppList!Toggle(f)
    PROVE  AppsInv'
<1>1. /\ f \notin busy /\ "load" \notin busy /\ x3[Old].there > 0
      /\ steps < MoreSteps /\ steps' = steps + 1
      /\ calls' = [calls EXCEPT ![f] = [AppList!Sent EXCEPT !.before = x3[Old][f]]]
      /\ busy' = busy \cup {f} /\ x3' = [x3 EXCEPT ![Old][f] = ~@]
      /\ UNCHANGED <<x1, x2, x4, x5, x6, x7>>
    BY DEF AppList!Toggle, AppList!FilteredApps
<1>2. calls[f].at = AppList!None /\ calls["load"].at = AppList!None /\ f \in AppList!Ops /\ calls[f].seq = 0 /\ x3 \in [AppList!Items -> AppList!Item]
    BY <1>1, AppsTyped, AppsOps, AppsCallTyped DEF AppList!None
<1>3. x3[Old] \in AppList!Item /\ x3[Old][f] \in BOOLEAN
    BY <1>2, AppsOps, AppsItems
<1> DEFINE c == [AppList!Sent EXCEPT !.before = x3[Old][f]]
<1>4. /\ c \in AppsCalls /\ c.at = "sent" /\ c.seq = 0 /\ ~c.failed /\ c.list[New] = AppList!Missing
      /\ c.before = x3[Old][f]
    BY <1>3, AppsNothing DEF AppsCalls
<1> HIDE DEF c
<1>5. /\ x3'[New] = x3[New] /\ x3'[Old] \in AppList!Item /\ x3'[Old].there = x3[Old].there
      /\ x3'[Old].text = x3[Old].text /\ \A g \in AppList!Switches \ {f} : x3'[Old][g] = x3[Old][g]
      /\ x3' \in [AppList!Items -> AppList!Item]
    <2> DEFINE b == ~x3[Old][f]
    <2>1. b \in BOOLEAN /\ x3' = [x3 EXCEPT ![Old] = [x3[Old] EXCEPT ![f] = b]]
        BY <1>1, <1>2, AppsOps
    <2> HIDE DEF b
    <2>2. /\ [x3[Old] EXCEPT ![f] = b] \in AppList!Item
          /\ [x3[Old] EXCEPT ![f] = b].text = x3[Old].text
          /\ [x3[Old] EXCEPT ![f] = b].there = x3[Old].there
          /\ \A g \in AppList!Switches \ {f} : [x3[Old] EXCEPT ![f] = b][g] = x3[Old][g]
        BY <1>3, <2>1 DEF AppList!Item, AppList!Switches
    <2>3. QED
        BY <1>2, <2>1, <2>2, AppsOps
<1>6. ~x7 /\ x2[Old].there = 1 => x3[Old].there = 1 /\ x3[Old][f] = x2[Old][f]
    BY <1>2, AppsTyped DEF AppsShown
<1>7. /\ AppList!TypeOK' /\ AppsShapes' /\ AppsCounted' /\ AppsServer' /\ AppsLists' /\ AppsBefore'
      /\ calls'[f] = c /\ \A o \in AppList!Ops \ {f} : calls'[o] = calls[o]
    <2>1. calls' = [calls EXCEPT ![f] = c]
        BY <1>1 DEF c
    <2>2. QED
        BY <1>1, <1>2, <1>4, <1>5, <1>6, <2>1, AppsSends
<1>8. /\ \A o \in AppList!Ops : calls'[o].seq = calls[o].seq
      /\ \A o \in AppList!Ops : calls[o].at # AppList!None => calls'[o].at # AppList!None
      /\ calls'[f].at # AppList!None
    BY <1>2, <1>4, <1>7 DEF AppList!None
<1>9. AppsShown'
    <2>1. AppsShown
        BY AppsTyped
    <2>2. SUFFICES ASSUME ~x7
          PROVE  /\ x2[Old].there = 1 =>
                        /\ x3'[Old].there = 1
                        /\ \A g \in AppList!Switches : x3'[Old][g] = x2[Old][g] \/ calls'[g].at # AppList!None
                        /\ x3'[Old].text = x2[Old].text \/ \E v \in AppsTexts : calls'[v].seq # 0
                 /\ x2[Old].there = 0 => x3'[Old] = AppList!Missing \/ calls'["delete"].seq # 0
                 /\ x3'[New] = x2[New] \/ \E v \in AppsNew : calls'[v].seq # 0
                 /\ \A v \in AppsNew : calls'[v].seq # 0 => calls'[v].seq < x6 \/ x3'[New] = AppList!Missing
        BY <1>1 DEF AppsShown
    <2>3. x2[Old].there = 1 =>
              /\ x3'[Old].there = 1
              /\ \A g \in AppList!Switches : x3'[Old][g] = x2[Old][g] \/ calls'[g].at # AppList!None
              /\ x3'[Old].text = x2[Old].text \/ \E v \in AppsTexts : calls'[v].seq # 0
        BY <1>2, <1>5, <1>8, <2>1, <2>2, AppsOps DEF AppsShown
    <2>4. x2[Old].there = 0 => calls'["delete"].seq # 0
        BY <1>1, <1>2, <1>8, <2>1, <2>2, AppsOps, AppsNothing DEF AppsShown
    <2>5. x3'[New] = x2[New] \/ \E v \in AppsNew : calls'[v].seq # 0
        BY <1>2, <1>5, <1>8, <2>1, <2>2, AppsOps DEF AppsShown
    <2>6. \A v \in AppsNew : calls'[v].seq # 0 => calls'[v].seq < x6 \/ x3'[New] = AppList!Missing
        BY <1>2, <1>5, <1>8, <2>1, <2>2, AppsOps DEF AppsShown
    <2>7. QED
        BY <2>3, <2>4, <2>5, <2>6
<1>10. QED
    BY <1>7, <1>9 DEF AppsInv

(* An answer comes: its number is the last seen.                           *)
LEMMA AppsSees ==
    ASSUME AppsInv, NEW op \in AppList!Ops, AppList!Answer(op), AppList!Arrives(op)
    PROVE  /\ calls[op].seq # 0 /\ calls[op].seq \in Nat /\ x6' \in Nat /\ x6 <= x6' /\ x6' <= x5
           /\ x7' \in BOOLEAN /\ (x7 => x7') /\ calls[op].seq <= x6'
           /\ ~x7' => ~x7 /\ ~(calls[op].seq < x6) /\ x6' = calls[op].seq
           /\ UNCHANGED <<x1, x2, x5, steps>> /\ steps \in 0..MoreSteps /\ x5 \in Nat /\ x6 \in Nat
           /\ calls[op].at = "done" /\ ~calls[op].failed
<1>1. /\ x6' = (IF calls[op].seq > x6 THEN calls[op].seq ELSE x6)
      /\ x7' = (x7 \/ calls[op].seq < x6)
      /\ UNCHANGED <<x1, x2, x5, steps>> /\ calls[op].at = "done" /\ ~calls[op].failed
    BY DEF AppList!Answer, AppList!Arrives
<1>2. /\ calls[op].seq \in Nat /\ calls[op].seq <= x5 /\ x6 \in Nat /\ x6 <= x5 /\ x7 \in BOOLEAN
      /\ calls[op].seq # 0 /\ steps \in 0..MoreSteps /\ x5 \in Nat
    BY <1>1, AppsTyped, AppsCallTyped DEF AppsShapes
<1>3. /\ x6' \in Nat /\ x6 <= x6' /\ x6' <= x5 /\ calls[op].seq <= x6'
      /\ ~(calls[op].seq < x6) => x6' = calls[op].seq
    BY <1>1, <1>2
<1>4. /\ x7' \in BOOLEAN /\ (x7 => x7')
      /\ ~x7' => ~x7 /\ ~(calls[op].seq < x6)
    BY <1>1, <1>2
<1>5. QED
    BY <1>1, <1>2, <1>3, <1>4

(* An answer that is taken leaves what is not shown as it should be.       *)
LEMMA AppsEnds ==
    ASSUME AppsInv, NEW op \in AppList!Ops, AppList!Answer(op), AppList!Arrives(op), AppList!Done(op), x3' \in [AppList!Items -> AppList!Item],
           x4' \in {AppList!None, "form", "delete", "rename"}, x2[New] = AppList!Missing => x3'[New] = AppList!Missing
    PROVE  /\ AppList!TypeOK' /\ AppsShapes' /\ AppsCounted' /\ AppsServer' /\ AppsLists' /\ AppsBefore'
           /\ calls'[op] = AppList!NoCall /\ \A o \in AppList!Ops \ {op} : calls'[o] = calls[o]
<1>1. /\ calls \in [AppList!Ops -> AppsCalls] /\ busy = {o \in AppList!Ops : calls[o].at # AppList!None}
      /\ calls' = [calls EXCEPT ![op] = AppList!NoCall] /\ busy' = busy \ {op}
    BY AppsTyped DEF AppList!Done
<1>2. calls' \in [AppList!Ops -> AppsCalls] /\ calls'[op] = AppList!NoCall /\ \A o \in AppList!Ops \ {op} : calls'[o] = calls[o]
    BY <1>1, AppsNothing
<1>3. busy' = {o \in AppList!Ops : calls'[o].at # AppList!None}
    BY <1>1, <1>2, AppsNothing
<1>4. AppsCounted'
    <2>1. AppsWeight(op)' = 0 /\ AppsWeight(op) \in Nat
        BY <1>2, AppsNothing DEF AppsWeight, AppList!None
    <2>2. x5' = x5 /\ steps' = steps /\ x5 \in Nat /\ steps \in 0..MoreSteps
        BY AppsSees
    <2>3. x5' + AppsWeight(op)' + 2 * steps <= x5 + AppsWeight(op) + 2 * steps'
        BY <2>1, <2>2
    <2>4. QED
        BY <1>2, <2>2, <2>3, AppsCounts
<1>5. \A o \in AppList!Ops : \/ calls'[o] = calls[o]
                    \/ /\ calls'[o].at # "done" /\ calls'[o].seq = 0 /\ ~calls'[o].failed
                       /\ calls'[o].list[New] = AppList!Missing
    BY <1>2, AppsNothing DEF AppList!None
<1>6. /\ ~x7' => \A o \in AppList!Ops : calls'[o].seq = calls[o].seq \/ calls[o].seq <= x6'
      /\ ~x7' => \A f \in AppList!Switches : \/ calls'[f] = calls[f] \/ calls'[f].at = AppList!None
                                         \/ (x2[Old].there = 1 => calls'[f].before = x2[Old][f])
    BY <1>2, AppsSees, AppsNothing, AppsOps
<1>7. AppList!TypeOK' /\ AppsShapes' /\ AppsServer' /\ AppsLists' /\ AppsBefore'
    <2>1. /\ x1' = x1 /\ x2' = x2 /\ x5' = x5 /\ steps' \in 0..MoreSteps
          /\ x6' \in Nat /\ x6 <= x6' /\ x6' <= x5 /\ x7' \in BOOLEAN /\ (x7 => x7')
        BY AppsSees
    <2>2. QED
        BY <1>2, <1>3, <1>4, <1>5, <1>6, <2>1, AppsMoves
<1>8. QED
    BY <1>2, <1>4, <1>7

(* What the answer of a request says of the items, when it came in order.  *)
LEMMA AppsSays ==
    ASSUME AppsInv, NEW op \in AppList!Ops, AppList!Answer(op), AppList!Arrives(op), ~x7'
    PROVE  /\ x2[Old].there = 1 =>
                  /\ calls[op].list[Old].there = 1
                  /\ \A f \in AppList!Switches : calls[op].list[Old][f] = x2[Old][f] \/ (f # op /\ calls[f].at # AppList!None)
                  /\ calls[op].list[Old].text = x2[Old].text \/ \E v \in AppsTexts \ {op} : calls[v].seq # 0
           /\ x2[Old].there = 0 =>
                  calls[op].list[Old] = AppList!Missing \/ (op # "delete" /\ calls["delete"].seq # 0)
           /\ calls[op].list[New] = x2[New] \/ \E v \in AppsNew \ {op} : calls[v].seq # 0
           /\ \A v \in AppsNew \ {op} : calls[v].seq # 0 => calls[v].seq < x6' \/ calls[op].list[New] = AppList!Missing
           /\ op \in AppsNew => calls[op].list[New] = AppsMade
<1>1. ~x7 /\ ~(calls[op].seq < x6) /\ x6' = calls[op].seq /\ calls[op].seq # 0 /\ calls[op].seq \in Nat
    BY AppsSees
<1>2. AppsLists
    BY AppsTyped
<1>3. \A o \in AppList!Ops : /\ calls[o].seq \in Nat /\ (calls[op].seq < calls[o].seq => o # op /\ calls[o].seq # 0)
                             /\ calls[o].seq # 0 => calls[o].at # AppList!None
    BY <1>1, AppsCallTyped DEF AppList!None
<1>4. x2[Old].there = 1 =>
          /\ calls[op].list[Old].there = 1
          /\ \A f \in AppList!Switches : calls[op].list[Old][f] = x2[Old][f] \/ calls[op].seq < calls[f].seq
          /\ calls[op].list[Old].text = x2[Old].text \/ \E v \in AppsTexts : calls[op].seq < calls[v].seq
    BY <1>1, <1>2 DEF AppsLists
<1>5. /\ x2[Old].there = 0 => calls[op].list[Old] = AppList!Missing \/ calls[op].seq < calls["delete"].seq
      /\ calls[op].list[New] = x2[New] \/ \E v \in AppsNew : calls[op].seq < calls[v].seq
      /\ \A v \in AppsNew : calls[op].seq < calls[v].seq => calls[op].list[New] = AppList!Missing
      /\ op \in AppsNew => calls[op].list[New] = AppsMade
    BY <1>1, <1>2 DEF AppsLists
<1>6. x2[Old].there = 1 =>
          /\ calls[op].list[Old].there = 1
          /\ \A f \in AppList!Switches : calls[op].list[Old][f] = x2[Old][f] \/ (f # op /\ calls[f].at # AppList!None)
          /\ calls[op].list[Old].text = x2[Old].text \/ \E v \in AppsTexts \ {op} : calls[v].seq # 0
    BY <1>3, <1>4, AppsOps
<1>7. x2[Old].there = 0 => calls[op].list[Old] = AppList!Missing \/ (op # "delete" /\ calls["delete"].seq # 0)
    BY <1>3, <1>5, AppsOps
<1>8. calls[op].list[New] = x2[New] \/ \E v \in AppsNew \ {op} : calls[v].seq # 0
    BY <1>3, <1>5, AppsOps
<1>9. ASSUME NEW v \in AppsNew \ {op}, calls[v].seq # 0
      PROVE  calls[v].seq < x6' \/ calls[op].list[New] = AppList!Missing
    <2>1. v \in AppList!Ops \ {op}
        BY AppsOps
    <2>2. calls[v].seq # calls[op].seq
        BY <1>9, <2>1, AppsCallTyped
    <2>3. QED
        BY <1>1, <1>3, <1>5, <2>1, <2>2
<1>10. QED
    BY <1>5, <1>6, <1>7, <1>8, <1>9

(* The list that was loaded.                                               *)
LEMMA AppsLoaded == ASSUME AppsInv, AppList!LoadArrives PROVE AppsInv'
<1>1. /\ AppList!Answer("load") /\ x3' = calls["load"].list /\ AppList!Done("load") /\ AppList!Arrives("load") /\ x4' = x4
      /\ "load" \in AppList!Ops
    BY AppsOps DEF AppList!LoadArrives, AppList!ReplaceList
<1>2. x3' \in [AppList!Items -> AppList!Item] /\ x4' \in {AppList!None, "form", "delete", "rename"}
    BY <1>1, AppsTyped, AppsCallTyped
<1>3. x2[New] = AppList!Missing => x3'[New] = AppList!Missing
    BY <1>1, AppsTyped DEF AppsServer
<1>4. /\ AppList!TypeOK' /\ AppsShapes' /\ AppsCounted' /\ AppsServer' /\ AppsLists' /\ AppsBefore'
      /\ \A o \in AppList!Ops \ {"load"} : calls'[o] = calls[o]
    BY <1>1, <1>2, <1>3, AppsEnds
<1>5. AppsShown'
    <2>1. x2' = x2
        BY <1>1 DEF AppList!Arrives
    <2>2. SUFFICES ASSUME ~x7'
          PROVE  /\ x2[Old].there = 1 =>
                        /\ x3'[Old].there = 1
                        /\ \A g \in AppList!Switches : x3'[Old][g] = x2[Old][g] \/ calls'[g].at # AppList!None
                        /\ x3'[Old].text = x2[Old].text \/ \E v \in AppsTexts : calls'[v].seq # 0
                 /\ x2[Old].there = 0 => x3'[Old] = AppList!Missing \/ calls'["delete"].seq # 0
                 /\ x3'[New] = x2[New] \/ \E v \in AppsNew : calls'[v].seq # 0
                 /\ \A v \in AppsNew : calls'[v].seq # 0 => calls'[v].seq < x6' \/ x3'[New] = AppList!Missing
        BY <2>1 DEF AppsShown
    <2>3. /\ x2[Old].there = 1 =>
                 /\ calls["load"].list[Old].there = 1
                 /\ \A f \in AppList!Switches : calls["load"].list[Old][f] = x2[Old][f] \/ calls[f].at # AppList!None
                 /\ calls["load"].list[Old].text = x2[Old].text \/ \E v \in AppsTexts : calls[v].seq # 0
          /\ x2[Old].there = 0 => calls["load"].list[Old] = AppList!Missing \/ calls["delete"].seq # 0
          /\ calls["load"].list[New] = x2[New] \/ \E v \in AppsNew : calls[v].seq # 0
          /\ \A v \in AppsNew \ {"load"} : calls[v].seq # 0 => calls[v].seq < x6' \/ calls["load"].list[New] = AppList!Missing
        BY <1>1, <2>2, AppsSays
    <2>4. QED
        BY <1>1, <1>4, <2>3, AppsOps
<1>6. QED
    BY <1>4, <1>5 DEF AppsInv

(* An app is replaced by what the answer has of it.                        *)
LEMMA AppsReplaced ==
    ASSUME AppsInv, NEW op \in AppList!Switches \cup AppsTexts, AppList!Answer(op), AppList!Arrives(op), AppList!Done(op),
           x3' = AppList!ReplaceApp(calls[op].list), x4' \in {AppList!None, "form", "delete", "rename"}
    PROVE  AppsInv'
<1>1. op \in AppList!Ops /\ x3 \in [AppList!Items -> AppList!Item] /\ x3[Old] \in AppList!Item /\ calls[op].list[Old] \in AppList!Item
    BY AppsTyped, AppsCallTyped, AppsOps
<1>2. /\ x3' = [x3 EXCEPT ![Old] = IF x3[Old].there = 0 THEN x3[Old]
                                         ELSE [calls[op].list[Old] EXCEPT !.there = x3[Old].there]]
    BY <1>1, AppsOps DEF AppList!ReplaceApp
<1>3. x3[Old].there \in 0..2
    BY <1>1, AppsItems
<1>4. /\ x3' \in [AppList!Items -> AppList!Item] /\ x3'[New] = x3[New]
      /\ x3[Old].there = 0 => x3'[Old] = x3[Old]
      /\ x3[Old].there # 0 => /\ x3'[Old].there = x3[Old].there
                              /\ x3'[Old].text = calls[op].list[Old].text
                              /\ \A f \in AppList!Switches : x3'[Old][f] = calls[op].list[Old][f]
    <2>1. /\ [calls[op].list[Old] EXCEPT !.there = x3[Old].there] \in AppList!Item
          /\ [calls[op].list[Old] EXCEPT !.there = x3[Old].there].there = x3[Old].there
          /\ [calls[op].list[Old] EXCEPT !.there = x3[Old].there].text = calls[op].list[Old].text
          /\ \A f \in AppList!Switches : [calls[op].list[Old] EXCEPT !.there = x3[Old].there][f] = calls[op].list[Old][f]
        BY <1>1, <1>3 DEF AppList!Item, AppList!Switches
    <2>2. QED
        BY <1>1, <1>2, <2>1, AppsOps
<1>5. x2[New] = AppList!Missing => x3'[New] = AppList!Missing
    <2>1. AppsServer
        BY AppsTyped
    <2>2. x2[New] = AppList!Missing => x3[New] = AppList!Missing
        BY <2>1 DEF AppsServer
    <2>3. QED
        BY <1>4, <2>2
<1>6. /\ AppList!TypeOK' /\ AppsShapes' /\ AppsCounted' /\ AppsServer' /\ AppsLists' /\ AppsBefore'
      /\ \A o \in AppList!Ops \ {op} : calls'[o] = calls[o]
    BY <1>1, <1>4, <1>5, AppsEnds
<1>7. AppsShown'
    <2>1. x2' = x2 /\ op # "load" /\ op # "delete" /\ op \notin AppsNew
        BY AppsOps DEF AppList!Arrives
    <2>2. SUFFICES ASSUME ~x7', calls'["load"].at = AppList!None
          PROVE  /\ x2[Old].there = 1 =>
                        /\ x3'[Old].there = 1
                        /\ \A g \in AppList!Switches : x3'[Old][g] = x2[Old][g] \/ calls'[g].at # AppList!None
                        /\ x3'[Old].text = x2[Old].text \/ \E v \in AppsTexts : calls'[v].seq # 0
                 /\ x2[Old].there = 0 => x3'[Old] = AppList!Missing \/ calls'["delete"].seq # 0
                 /\ x3'[New] = x2[New] \/ \E v \in AppsNew : calls'[v].seq # 0
                 /\ \A v \in AppsNew : calls'[v].seq # 0 => calls'[v].seq < x6' \/ x3'[New] = AppList!Missing
        BY <2>1 DEF AppsShown
    <2>3. x2[Old].there = 1 =>
              /\ \A f \in AppList!Switches : calls[op].list[Old][f] = x2[Old][f] \/ (f # op /\ calls[f].at # AppList!None)
              /\ calls[op].list[Old].text = x2[Old].text \/ \E v \in AppsTexts \ {op} : calls[v].seq # 0
        BY <1>1, <2>2, AppsSays
    <2>4. /\ AppsShown /\ ~x7 /\ calls["load"].at = AppList!None /\ x6 <= x6' /\ x6 \in Nat /\ x6' \in Nat
          /\ \A v \in AppList!Ops : calls[v].seq \in Nat
        BY <1>1, <1>6, <2>1, <2>2, AppsTyped, AppsSees, AppsOps, AppsCallTyped
    <2>5. x2[Old].there = 1 =>
              /\ x3'[Old].there = 1
              /\ \A g \in AppList!Switches : x3'[Old][g] = x2[Old][g] \/ calls'[g].at # AppList!None
              /\ x3'[Old].text = x2[Old].text \/ \E v \in AppsTexts : calls'[v].seq # 0
        <3>1. SUFFICES ASSUME x2[Old].there = 1
              PROVE  /\ x3'[Old].there = 1
                     /\ \A g \in AppList!Switches : x3'[Old][g] = x2[Old][g] \/ calls'[g].at # AppList!None
                     /\ x3'[Old].text = x2[Old].text \/ \E v \in AppsTexts : calls'[v].seq # 0
            OBVIOUS
        <3>2. x3[Old].there = 1
            BY <2>4, <3>1 DEF AppsShown
        <3>3. QED
            BY <1>4, <1>6, <2>3, <3>1, <3>2, AppsOps
    <2>6. x2[Old].there = 0 => x3'[Old] = AppList!Missing \/ calls'["delete"].seq # 0
        BY <1>4, <1>6, <2>1, <2>4, AppsOps, AppsNothing DEF AppsShown
    <2>7. x3'[New] = x2[New] \/ \E v \in AppsNew : calls'[v].seq # 0
        BY <1>4, <1>6, <2>1, <2>4, AppsOps DEF AppsShown
    <2>8. \A v \in AppsNew : calls'[v].seq # 0 => calls'[v].seq < x6' \/ x3'[New] = AppList!Missing
        BY <1>4, <1>6, <2>1, <2>4, AppsOps DEF AppsShown
    <2>9. QED
        BY <2>5, <2>6, <2>7, <2>8
<1>8. QED
    BY <1>6, <1>7 DEF AppsInv

(* An app that was added to the list, or replaced in it.                   *)
LEMMA AppsAppended ==
    ASSUME AppsInv, NEW op \in AppsNew, AppList!Answer(op), AppList!Arrives(op), AppList!Done(op),
           x3' = AppList!AppendApp(calls[op].list), x4' \in {AppList!None, "form", "delete", "rename"}
    PROVE  AppsInv'
<1>1. op \in AppList!Ops /\ x3 \in [AppList!Items -> AppList!Item] /\ x3[New] \in AppList!Item /\ calls[op].list[New] \in AppList!Item
    BY AppsTyped, AppsCallTyped, AppsOps
<1> DEFINE n == IF x3[New].there = 2 THEN 2 ELSE x3[New].there + 1
<1>2. n \in 0..2 /\ (x3[New].there = 0 => n = 1)
    BY <1>1, AppsItems
<1>3. x3' = [x3 EXCEPT ![New] = [calls[op].list[New] EXCEPT !.there = n]]
    BY DEF AppList!AppendApp
<1> HIDE DEF n
<1>4. /\ x3' \in [AppList!Items -> AppList!Item] /\ x3'[Old] = x3[Old]
      /\ x3'[New] = [calls[op].list[New] EXCEPT !.there = n]
    <2>1. [calls[op].list[New] EXCEPT !.there = n] \in AppList!Item
        BY <1>1, <1>2 DEF AppList!Item
    <2>2. QED
        BY <1>1, <1>3, <2>1, AppsOps
<1>5. x2[New] # AppList!Missing /\ x2[New] = AppsMade /\ \A v \in AppsNew \ {op} : calls[v].seq = 0
    <2>1. AppsServer /\ calls[op].seq # 0
        BY <1>1, AppsTyped, AppsSees
    <2>2. x2[New] # AppList!Missing
        BY <2>1 DEF AppsServer
    <2>3. QED
        BY <2>1, <2>2 DEF AppsServer, AppsNew
<1>6. /\ AppList!TypeOK' /\ AppsShapes' /\ AppsCounted' /\ AppsServer' /\ AppsLists' /\ AppsBefore'
      /\ calls'[op] = AppList!NoCall /\ \A o \in AppList!Ops \ {op} : calls'[o] = calls[o]
    BY <1>1, <1>4, <1>5, AppsEnds
<1>7. AppsShown'
    <2>1. x2' = x2 /\ op # "load" /\ op # "delete" /\ op \notin AppsTexts
        BY AppsOps DEF AppList!Arrives
    <2>2. SUFFICES ASSUME ~x7', calls'["load"].at = AppList!None
          PROVE  /\ x2[Old].there = 1 =>
                        /\ x3'[Old].there = 1
                        /\ \A g \in AppList!Switches : x3'[Old][g] = x2[Old][g] \/ calls'[g].at # AppList!None
                        /\ x3'[Old].text = x2[Old].text \/ \E v \in AppsTexts : calls'[v].seq # 0
                 /\ x2[Old].there = 0 => x3'[Old] = AppList!Missing \/ calls'["delete"].seq # 0
                 /\ x3'[New] = x2[New] \/ \E v \in AppsNew : calls'[v].seq # 0
                 /\ \A v \in AppsNew : calls'[v].seq # 0 => calls'[v].seq < x6' \/ x3'[New] = AppList!Missing
        BY <2>1 DEF AppsShown
    <2>3. calls[op].list[New] = AppsMade /\ ~x7 /\ ~(calls[op].seq < x6) /\ calls[op].seq # 0
        BY <1>1, <2>2, AppsSays, AppsSees
    <2>4. AppsShown /\ calls["load"].at = AppList!None
        BY <1>6, <2>1, <2>2, AppsTyped, AppsOps
    <2>5. x3[New] = AppList!Missing
        BY <2>3, <2>4 DEF AppsShown
    <2>6. x3'[New] = AppsMade
        <3>1. n = 1
            BY <1>2, <2>5, AppsNothing
        <3>2. \A r \in AppList!Item : r.there = 1 => [r EXCEPT !.there = 1] = r
            BY DEF AppList!Item
        <3>3. AppsMade \in AppList!Item /\ AppsMade.there = 1
            BY AppsNothing
        <3>4. [AppsMade EXCEPT !.there = 1] = AppsMade
            BY <3>2, <3>3
        <3>5. QED
            BY <1>4, <2>3, <3>1, <3>4
    <2>7. x2[Old].there = 1 =>
              /\ x3'[Old].there = 1
              /\ \A g \in AppList!Switches : x3'[Old][g] = x2[Old][g] \/ calls'[g].at # AppList!None
              /\ x3'[Old].text = x2[Old].text \/ \E v \in AppsTexts : calls'[v].seq # 0
        BY <1>4, <1>6, <2>1, <2>3, <2>4, AppsOps DEF AppsShown
    <2>8. x2[Old].there = 0 => x3'[Old] = AppList!Missing \/ calls'["delete"].seq # 0
        BY <1>4, <1>6, <2>1, <2>3, <2>4, AppsOps DEF AppsShown
    <2>9. \A v \in AppsNew : calls'[v].seq = 0
        BY <1>5, <1>6, AppsOps, AppsNothing
    <2>10. QED
        BY <1>5, <2>6, <2>7, <2>8, <2>9
<1>8. QED
    BY <1>6, <1>7 DEF AppsInv

(* An app that was deleted.                                                *)
LEMMA AppsRemoved == ASSUME AppsInv, AppList!DeletedApp PROVE AppsInv'
<1>1. /\ AppList!Answer("delete") /\ x3' = [x3 EXCEPT ![Old] = AppList!Missing] /\ AppList!Done("delete") /\ AppList!Arrives("delete")
      /\ x4' = (IF x4 = "delete" THEN AppList!None ELSE x4) /\ "delete" \in AppList!Ops
    BY AppsOps DEF AppList!DeletedApp, AppList!RemoveApp
<1>2. /\ x3' \in [AppList!Items -> AppList!Item] /\ x3'[Old] = AppList!Missing /\ x3'[New] = x3[New]
      /\ x4' \in {AppList!None, "form", "delete", "rename"}
    BY <1>1, AppsTyped, AppsOps, AppsNothing
<1>3. AppsServer
    BY AppsTyped
<1>4. x2[Old].there = 0
    BY <1>1, <1>3, AppsSees DEF AppsServer
<1>5. x2[New] = AppList!Missing => x3'[New] = AppList!Missing
    BY <1>2, <1>3 DEF AppsServer
<1>6. /\ AppList!TypeOK' /\ AppsShapes' /\ AppsCounted' /\ AppsServer' /\ AppsLists' /\ AppsBefore'
      /\ \A o \in AppList!Ops \ {"delete"} : calls'[o] = calls[o]
    BY <1>1, <1>2, <1>5, AppsEnds
<1>7. AppsShown'
    <2>1. x2' = x2
        BY <1>1 DEF AppList!Arrives
    <2>2. SUFFICES ASSUME ~x7', calls'["load"].at = AppList!None
          PROVE  /\ x2[Old].there = 1 =>
                        /\ x3'[Old].there = 1
                        /\ \A g \in AppList!Switches : x3'[Old][g] = x2[Old][g] \/ calls'[g].at # AppList!None
                        /\ x3'[Old].text = x2[Old].text \/ \E v \in AppsTexts : calls'[v].seq # 0
                 /\ x2[Old].there = 0 => x3'[Old] = AppList!Missing \/ calls'["delete"].seq # 0
                 /\ x3'[New] = x2[New] \/ \E v \in AppsNew : calls'[v].seq # 0
                 /\ \A v \in AppsNew : calls'[v].seq # 0 => calls'[v].seq < x6' \/ x3'[New] = AppList!Missing
        BY <2>1 DEF AppsShown
    <2>3. AppsShown /\ calls["load"].at = AppList!None /\ ~x7 /\ x6 <= x6' /\ x6 \in Nat /\ x6' \in Nat
        BY <1>1, <1>6, <2>2, AppsTyped, AppsOps, AppsSees
    <2>4. \A v \in AppsNew : calls'[v] = calls[v] /\ calls[v].seq \in Nat
        BY <1>6, AppsOps, AppsCallTyped
    <2>5. x3'[New] = x2[New] \/ \E v \in AppsNew : calls'[v].seq # 0
        BY <1>2, <2>3, <2>4 DEF AppsShown
    <2>6. \A v \in AppsNew : calls'[v].seq # 0 => calls'[v].seq < x6' \/ x3'[New] = AppList!Missing
        BY <1>2, <2>3, <2>4 DEF AppsShown
    <2>7. QED
        BY <1>2, <1>4, <2>5, <2>6
<1>8. QED
    BY <1>6, <1>7 DEF AppsInv

(* A variable that was changed.                                            *)
LEMMA AppsReloads == ASSUME AppsInv, NEW op \in AppList!Ops, AppList!VarChanged(op) PROVE AppsInv'
<1>1. /\ op \in {"save", "delete"} /\ AppList!Answer(op) /\ calls["load"].at = AppList!None /\ "load" \in AppList!Ops /\ op # "load"
      /\ calls' = [calls EXCEPT ![op] = AppList!NoCall, !["load"] = AppList!Sent] /\ busy' = (busy \ {op}) \cup {"load"}
      /\ x4' = (IF x4 = (IF op = "save" THEN "form" ELSE "delete") THEN AppList!None ELSE x4)
      /\ AppList!Arrives(op) /\ x3' = x3
    BY AppsOps DEF AppList!VarChanged
<1>2. /\ calls \in [AppList!Ops -> AppsCalls] /\ busy = {o \in AppList!Ops : calls[o].at # AppList!None}
      /\ x4 \in {AppList!None, "form", "delete", "rename"} /\ x3 \in [AppList!Items -> AppList!Item]
      /\ calls["load"].seq = 0 /\ ~calls["load"].failed
    BY <1>1, AppsTyped, AppsCallTyped DEF AppList!None
<1>3. /\ calls' \in [AppList!Ops -> AppsCalls] /\ calls'[op] = AppList!NoCall /\ calls'["load"] = AppList!Sent
      /\ \A o \in AppList!Ops \ {op, "load"} : calls'[o] = calls[o]
    BY <1>1, <1>2, AppsNothing
<1>4. busy' = {o \in AppList!Ops : calls'[o].at # AppList!None}
    BY <1>1, <1>2, <1>3, AppsNothing DEF AppList!None
<1>5. /\ x5' = x5 /\ steps' = steps /\ x5 \in Nat /\ steps \in 0..MoreSteps /\ x1' = x1 /\ x2' = x2
      /\ calls[op].at = "done" /\ ~calls[op].failed
      /\ x6' \in Nat /\ x6 <= x6' /\ x6' <= x5 /\ x7' \in BOOLEAN /\ (x7 => x7')
      /\ calls[op].seq <= x6'
    BY <1>1, AppsSees
<1>6. AppsCounted'
    <2> DEFINE mid == [AppsWeights EXCEPT ![op] = 0]
    <2>1. AppsWeights \in [AppList!Ops -> Nat] /\ AppsWeights' \in [AppList!Ops -> Nat]
        BY DEF AppsWeights, AppsWeight
    <2>2. mid \in [AppList!Ops -> Nat] /\ mid[op] = 0 /\ \A o \in AppList!Ops \ {op} : AppsWeights[o] = mid[o]
        BY <2>1
    <2>3. AppsWeights[op] = 1 /\ AppsWeights["load"] = 0
        BY <1>1, <1>5 DEF AppsWeights, AppsWeight, AppList!None
    <2>4. AppsWeights'[op] = 0 /\ AppsWeights'["load"] = 1 /\ \A o \in AppList!Ops \ {op, "load"} : AppsWeights'[o] = AppsWeights[o]
        BY <1>1, <1>3, AppsNothing DEF AppsWeights, AppsWeight, AppList!None
    <2>5. \A o \in AppList!Ops \ {"load"} : mid[o] = AppsWeights'[o]
        BY <2>2, <2>4
    <2>6. mid["load"] = 0
        BY <1>1, <2>2, <2>3
    <2> HIDE DEF mid
    <2>7. AppsSum(mid) + 1 = AppsSum(AppsWeights) /\ AppsSum(mid) \in Nat /\ AppsSum(AppsWeights) \in Nat
        <3>1. /\ AppsSum(mid) + AppsWeights[op] = AppsSum(AppsWeights) + mid[op]
              /\ AppsSum(AppsWeights) \in Nat /\ AppsSum(mid) \in Nat
            BY <2>1, <2>2, AppsSummed
        <3>2. QED
            BY <2>2, <2>3, <3>1
    <2>8. AppsSum(AppsWeights') = AppsSum(mid) + 1
        <3>1. /\ AppsSum(AppsWeights') + mid["load"] = AppsSum(mid) + AppsWeights'["load"]
              /\ AppsSum(AppsWeights') \in Nat
            BY <1>1, <2>1, <2>2, <2>5, AppsSummed
        <3>2. QED
            BY <2>4, <2>6, <2>7, <3>1
    <2>9. AppsSum(AppsWeights') = AppsSum(AppsWeights)
        BY <2>7, <2>8
    <2>10. x5 + AppsSum(AppsWeights) <= 2 * steps + 1
        BY AppsTyped DEF AppsCounted
    <2>11. QED
        BY <1>5, <2>9, <2>10 DEF AppsCounted, AppsSum
<1>7. \A o \in AppList!Ops : \/ calls'[o] = calls[o]
                    \/ /\ calls'[o].at # "done" /\ calls'[o].seq = 0 /\ ~calls'[o].failed
                       /\ calls'[o].list[New] = AppList!Missing
    BY <1>3, AppsNothing DEF AppList!None
<1>8. /\ \A o \in AppList!Ops : calls'[o].seq = calls[o].seq \/ calls[o].seq <= x6'
      /\ \A f \in AppList!Switches : calls'[f] = calls[f]
    BY <1>1, <1>2, <1>3, <1>5, AppsNothing, AppsOps DEF AppList!Switches
<1>9. x2[New] = AppList!Missing => x3'[New] = AppList!Missing
    BY <1>1, AppsTyped DEF AppsServer
<1>10. x4' \in {AppList!None, "form", "delete", "rename"} /\ x3' \in [AppList!Items -> AppList!Item] /\ steps' \in 0..MoreSteps
    BY <1>1, <1>2, <1>5
<1>11. AppList!TypeOK' /\ AppsShapes' /\ AppsServer' /\ AppsLists' /\ AppsBefore'
    BY <1>3, <1>4, <1>5, <1>6, <1>7, <1>8, <1>9, <1>10, AppsMoves
<1>12. AppsShown'
    BY <1>3, AppsNothing DEF AppsShown, AppList!None
<1>13. QED
    BY <1>6, <1>11, <1>12 DEF AppsInv

(* An error, which turns a switch back.                                    *)
LEMMA AppsFails == ASSUME AppsInv, NEW op \in AppList!Ops, AppList!Fails(op) PROVE AppsInv'
<1>1. /\ calls[op].at # AppList!None /\ x3' = (IF op \in AppList!Switches THEN AppList!PutBack(op) ELSE x3)
      /\ x7' = (x7 \/ op = "load" \/ calls[op].seq # 0)
      /\ calls' = [calls EXCEPT ![op] = AppList!NoCall] /\ busy' = busy \ {op}
      /\ UNCHANGED <<x1, x2, x4, x5, x6, steps>>
    BY DEF AppList!Fails, AppList!Done
<1>2. /\ calls \in [AppList!Ops -> AppsCalls] /\ busy = {o \in AppList!Ops : calls[o].at # AppList!None}
      /\ x4 \in {AppList!None, "form", "delete", "rename"} /\ x3 \in [AppList!Items -> AppList!Item] /\ x7 \in BOOLEAN
      /\ x5 \in Nat /\ x6 \in Nat /\ x6 <= x5 /\ steps \in 0..MoreSteps
      /\ x3[Old] \in AppList!Item /\ calls[op].before \in BOOLEAN
    BY AppsTyped, AppsCallTyped, AppsOps DEF AppsShapes
<1>3. /\ calls' \in [AppList!Ops -> AppsCalls] /\ calls'[op] = AppList!NoCall /\ \A o \in AppList!Ops \ {op} : calls'[o] = calls[o]
    BY <1>1, <1>2, AppsNothing
<1>4. busy' = {o \in AppList!Ops : calls'[o].at # AppList!None}
    BY <1>1, <1>2, <1>3, AppsNothing
<1>5. /\ x7' \in BOOLEAN /\ (x7 => x7')
      /\ ~x7' => ~x7 /\ op # "load" /\ calls[op].seq = 0
    BY <1>1, <1>2
<1>6. AppsCounted'
    <2>1. AppsWeight(op)' = 0 /\ AppsWeight(op) \in Nat
        BY <1>3, AppsNothing DEF AppsWeight, AppList!None
    <2>2. x5' + AppsWeight(op)' + 2 * steps <= x5 + AppsWeight(op) + 2 * steps'
        BY <1>1, <1>2, <2>1
    <2>3. QED
        BY <1>1, <1>2, <1>3, <2>2, AppsCounts
<1>7. /\ x3' \in [AppList!Items -> AppList!Item] /\ x3'[New] = x3[New]
      /\ op \notin AppList!Switches => x3' = x3
      /\ op \in AppList!Switches =>
             /\ x3[Old].there = 0 => x3'[Old] = x3[Old]
             /\ x3[Old].there # 0 => /\ x3'[Old].there = x3[Old].there /\ x3'[Old].text = x3[Old].text
                                     /\ x3'[Old][op] = calls[op].before
                                     /\ \A g \in AppList!Switches \ {op} : x3'[Old][g] = x3[Old][g]
    <2>1. CASE op \notin AppList!Switches
        BY <1>1, <1>2, <2>1
    <2>2. CASE op \in AppList!Switches
        <3> DEFINE b == IF x3[Old].there = 0 THEN x3[Old][op] ELSE calls[op].before
        <3>1. x3[Old][op] \in BOOLEAN
            BY <1>2, <2>2 DEF AppList!Item, AppList!Switches
        <3>2. b \in BOOLEAN
            BY <1>2, <3>1
        <3>3. x3' = [x3 EXCEPT ![Old] = [x3[Old] EXCEPT ![op] = b]]
            BY <1>1, <1>2, <2>2, AppsOps DEF AppList!PutBack
        <3>4. x3[Old].there = 0 => b = x3[Old][op]
            OBVIOUS
        <3>5. x3[Old].there # 0 => b = calls[op].before
            OBVIOUS
        <3> HIDE DEF b
        <3>6. /\ [x3[Old] EXCEPT ![op] = b] \in AppList!Item /\ [x3[Old] EXCEPT ![op] = b][op] = b
              /\ [x3[Old] EXCEPT ![op] = b].text = x3[Old].text
              /\ [x3[Old] EXCEPT ![op] = b].there = x3[Old].there
              /\ \A g \in AppList!Switches \ {op} : [x3[Old] EXCEPT ![op] = b][g] = x3[Old][g]
            BY <1>2, <2>2, <3>2 DEF AppList!Item, AppList!Switches
        <3>7. [x3[Old] EXCEPT ![op] = x3[Old][op]] = x3[Old]
            BY <1>2, <2>2 DEF AppList!Item, AppList!Switches
        <3>8. x3'[Old] = [x3[Old] EXCEPT ![op] = b] /\ x3' \in [AppList!Items -> AppList!Item] /\ x3'[New] = x3[New]
            BY <1>2, <3>3, <3>6, AppsOps
        <3>9. QED
            BY <2>2, <3>4, <3>5, <3>6, <3>7, <3>8
    <2>3. QED
        BY <2>1, <2>2
<1>8. x2[New] = AppList!Missing => x3'[New] = AppList!Missing
    BY <1>7, AppsTyped DEF AppsServer
<1>9. \A o \in AppList!Ops : \/ calls'[o] = calls[o]
                    \/ /\ calls'[o].at # "done" /\ calls'[o].seq = 0 /\ ~calls'[o].failed
                       /\ calls'[o].list[New] = AppList!Missing
    BY <1>3, AppsNothing DEF AppList!None
<1>10. ~x7' => \A o \in AppList!Ops : calls'[o].seq = calls[o].seq
    BY <1>3, <1>5, AppsNothing
<1>11. \A f \in AppList!Switches : calls'[f] = calls[f] \/ calls'[f].at = AppList!None
    BY <1>3, AppsOps, AppsNothing
<1>12. AppList!TypeOK' /\ AppsShapes' /\ AppsServer' /\ AppsLists' /\ AppsBefore'
    BY <1>1, <1>2, <1>3, <1>4, <1>5, <1>6, <1>7, <1>8, <1>9, <1>10, <1>11, AppsMoves
<1>13. AppsShown'
    <2>1. SUFFICES ASSUME ~x7', calls'["load"].at = AppList!None
          PROVE  /\ x2[Old].there = 1 =>
                        /\ x3'[Old].there = 1
                        /\ \A g \in AppList!Switches : x3'[Old][g] = x2[Old][g] \/ calls'[g].at # AppList!None
                        /\ x3'[Old].text = x2[Old].text \/ \E v \in AppsTexts : calls'[v].seq # 0
                 /\ x2[Old].there = 0 => x3'[Old] = AppList!Missing \/ calls'["delete"].seq # 0
                 /\ x3'[New] = x2[New] \/ \E v \in AppsNew : calls'[v].seq # 0
                 /\ \A v \in AppsNew : calls'[v].seq # 0 => calls'[v].seq < x6' \/ x3'[New] = AppList!Missing
        BY <1>1 DEF AppsShown
    <2>2. /\ AppsShown /\ AppsBefore /\ ~x7 /\ calls["load"].at = AppList!None /\ x6' = x6
          /\ \A o \in AppList!Ops : calls'[o].seq = calls[o].seq
          /\ calls[op].seq = 0 /\ \A o \in AppList!Ops \ {op} : calls'[o] = calls[o]
        BY <1>1, <1>3, <1>5, <1>10, <2>1, AppsTyped, AppsOps
    <2>3. x2[Old].there = 1 =>
              /\ x3'[Old].there = 1
              /\ \A g \in AppList!Switches : x3'[Old][g] = x2[Old][g] \/ calls'[g].at # AppList!None
              /\ x3'[Old].text = x2[Old].text \/ \E v \in AppsTexts : calls'[v].seq # 0
        <3>1. SUFFICES ASSUME x2[Old].there = 1
              PROVE  /\ x3'[Old].there = 1
                     /\ \A g \in AppList!Switches : x3'[Old][g] = x2[Old][g] \/ calls'[g].at # AppList!None
                     /\ x3'[Old].text = x2[Old].text \/ \E v \in AppsTexts : calls'[v].seq # 0
            OBVIOUS
        <3>2. /\ x3[Old].there = 1
              /\ \A g \in AppList!Switches : x3[Old][g] = x2[Old][g] \/ calls[g].at # AppList!None
              /\ x3[Old].text = x2[Old].text \/ \E v \in AppsTexts : calls[v].seq # 0
            BY <2>2, <3>1 DEF AppsShown
        <3>3. op \in AppList!Switches => calls[op].before = x2[Old][op]
            BY <1>1, <2>2, <3>1 DEF AppsBefore
        <3>4. x3'[Old].there = 1 /\ x3'[Old].text = x3[Old].text
            BY <1>7, <3>2
        <3>5. \A g \in AppList!Switches : x3'[Old][g] = x2[Old][g] \/ calls'[g].at # AppList!None
            BY <1>7, <2>2, <3>2, <3>3, AppsOps
        <3>6. QED
            BY <2>2, <3>2, <3>4, <3>5, AppsOps
    <2>4. x2[Old].there = 0 => x3'[Old] = AppList!Missing \/ calls'["delete"].seq # 0
        BY <1>7, <2>2, AppsOps, AppsNothing DEF AppsShown
    <2>5. x3'[New] = x2[New] \/ \E v \in AppsNew : calls'[v].seq # 0
        BY <1>7, <2>2, AppsOps DEF AppsShown
    <2>6. \A v \in AppsNew : calls'[v].seq # 0 => calls'[v].seq < x6' \/ x3'[New] = AppList!Missing
        BY <1>7, <2>2, AppsOps DEF AppsShown
    <2>7. QED
        BY <2>3, <2>4, <2>5, <2>6
<1>14. QED
    BY <1>6, <1>12, <1>13 DEF AppsInv

(* Every step of the page keeps it.                                        *)
LEMMA AppsStep == ASSUME AppsInv, AppList!Next \/ UNCHANGED AppList!vars PROVE AppsInv'
<1>1. "load" \in AppList!Ops \ AppList!Switches /\ "duplicate" \in AppList!Ops \ AppList!Switches /\ "create" \in AppList!Ops \ AppList!Switches
      /\ "save" \in AppList!Ops \ AppList!Switches /\ "delete" \in AppList!Ops \ AppList!Switches /\ "rename" \in AppList!Ops \ AppList!Switches
    BY DEF AppList!Ops, AppList!Switches
<1>2. x4 \in {AppList!None, "form", "delete", "rename"}
    BY AppsTyped
<1>3. CASE AppList!Refresh
    BY <1>1, <1>3, AppsAsk DEF AppList!Refresh
<1>4. CASE AppList!OpenApp \/ AppList!OpenVar \/ AppList!OpenRename \/ AppList!OpenDelete \/ AppList!Close
    <2>1. UNCHANGED <<x1, x2, x3, calls, busy, x5, x6, x7, steps>>
        BY <1>4 DEF AppList!OpenApp, AppList!OpenVar, AppList!OpenRename, AppList!OpenDelete, AppList!Open, AppList!Close
    <2>2. x4' \in {AppList!None, "form", "delete", "rename"}
        BY <1>4 DEF AppList!OpenApp, AppList!OpenVar, AppList!OpenRename, AppList!OpenDelete, AppList!Open, AppList!Close
    <2>3. QED
        BY <2>1, <2>2, AppsQuiet
<1>5. CASE AppList!HandleTogglePublished
    BY <1>5, AppsToggle DEF AppList!HandleTogglePublished, AppList!Switches
<1>6. CASE AppList!HandleToggleApp
    BY <1>6, AppsToggle DEF AppList!HandleToggleApp, AppList!Switches
<1>7. CASE AppList!HandleDuplicateApp
    BY <1>1, <1>7, AppsAsk DEF AppList!HandleDuplicateApp
<1>8. CASE AppList!CreateApp
    BY <1>1, <1>8, AppsAsk DEF AppList!CreateApp
<1>9. CASE AppList!UpdateApp
    BY <1>1, <1>9, AppsAsk DEF AppList!UpdateApp
<1>10. CASE AppList!HandleSaveVariable
    BY <1>1, <1>10, AppsAsk DEF AppList!HandleSaveVariable
<1>11. CASE AppList!HandleDelete
    BY <1>1, <1>11, AppsAsk DEF AppList!HandleDelete
<1>12. CASE AppList!HandleRename
    BY <1>1, <1>12, AppsAsk DEF AppList!HandleRename
<1>13. CASE AppList!LoadArrives
    BY <1>13, AppsLoaded
<1>14. ASSUME NEW op \in AppList!Switches, AppList!SwitchArrives(op) PROVE AppsInv'
    <2>1. AppList!Answer(op) /\ x3' = AppList!ReplaceApp(calls[op].list) /\ AppList!Done(op) /\ AppList!Arrives(op) /\ x4' = x4
        BY <1>14 DEF AppList!SwitchArrives
    <2>2. QED
        BY <1>2, <2>1, AppsReplaced
<1>15. ASSUME NEW op \in {"create", "duplicate", "rename", "save"}, AppList!AppArrives(op) PROVE AppsInv'
    <2>1. AppList!Answer(op) /\ AppList!Done(op) /\ AppList!Arrives(op) /\ x4' \in {x4, AppList!None}
        BY <1>15 DEF AppList!AppArrives
    <2>2. x4' \in {AppList!None, "form", "delete", "rename"}
        BY <1>2, <2>1
    <2>3. CASE op \in AppsNew
        <3>1. x3' = AppList!AppendApp(calls[op].list)
            BY <1>15, <2>3 DEF AppList!AppArrives, AppsNew
        <3>2. QED
            BY <2>1, <2>2, <2>3, <3>1, AppsAppended
    <2>4. CASE op \notin AppsNew
        <3>1. x3' = AppList!ReplaceApp(calls[op].list) /\ op \in AppsTexts
            BY <1>15, <2>4 DEF AppList!AppArrives, AppsNew, AppsTexts
        <3>2. QED
            BY <2>1, <2>2, <3>1, AppsReplaced
    <2>5. QED
        BY <2>3, <2>4
<1>16. CASE AppList!DeletedApp
    BY <1>16, AppsRemoved
<1>17. ASSUME NEW op \in AppList!Ops, AppList!ServerAnswers(op) PROVE AppsInv'
    BY <1>17, AppsServes, AppsRefused
<1>18. ASSUME NEW op \in AppList!Ops, AppList!VarChanged(op) PROVE AppsInv'
    BY <1>18, AppsReloads
<1>19. ASSUME NEW op \in AppList!Ops, AppList!Fails(op) PROVE AppsInv'
    BY <1>19, AppsFails
<1>20. CASE UNCHANGED AppList!vars
    BY <1>2, <1>20, AppsQuiet DEF AppList!vars
<1>21. QED
    BY <1>3, <1>4, <1>5, <1>6, <1>7, <1>8, <1>9, <1>10, <1>11, <1>12, <1>13, <1>14, <1>15, <1>16, <1>17, <1>18,
       <1>19, <1>20 DEF AppList!Next

(* From the invariant to what is stated of the screen.                     *)
LEMMA AppsShows == ASSUME AppsInv PROVE AppList!TypeOK /\ AppList!NoDeadButton /\ AppList!InOrderIsCurrent
<1>1. AppList!TypeOK
    BY DEF AppsInv
<1>2. AppList!NoDeadButton
    BY AppsTyped DEF AppList!NoDeadButton
<1>3. ASSUME AppList!Quiet, ~x7 PROVE x3 = x2
    <2>1. /\ \A op \in AppList!Ops : calls[op].at = AppList!None /\ calls[op].seq = 0
          /\ x3 \in [AppList!Items -> AppList!Item] /\ x2 \in [AppList!Items -> AppList!Item] /\ AppsShown /\ AppsServer
        BY <1>3, AppsTyped, AppsCallTyped DEF AppList!Quiet, AppList!None
    <2>2. x3[New] = x2[New]
        BY <1>3, <2>1, AppsOps DEF AppsShown
    <2>3. CASE x2[Old].there = 1
        <3>1. x3[Old].there = 1 /\ (\A f \in AppList!Switches : x3[Old][f] = x2[Old][f]) /\ x3[Old].text = x2[Old].text
            BY <1>3, <2>1, <2>3, AppsOps DEF AppsShown
        <3>2. x3[Old] \in AppList!Item /\ x2[Old] \in AppList!Item
            BY <2>1, AppsOps
        <3>3. x3[Old] = x2[Old]
            BY <2>3, <3>1, <3>2, AppsItems
        <3>4. QED
            BY <2>1, <2>2, <3>3, AppsOps
    <2>4. CASE x2[Old].there = 0
        <3>1. x3[Old] = AppList!Missing
            BY <1>3, <2>1, <2>4, AppsOps DEF AppsShown
        <3>2. x2[Old] = AppList!Missing
            BY <2>1, <2>4 DEF AppsServer
        <3>3. QED
            BY <2>1, <2>2, <3>1, <3>2, AppsOps
    <2>5. QED
        BY <2>1, <2>3, <2>4 DEF AppsServer
<1>4. QED
    BY <1>1, <1>2, <1>3 DEF AppList!InOrderIsCurrent

-----------------------------------------------------------------------------
(***************************************************************************)
(* EventsView. x1 is what the server has, x2 the list, x3 the filters, x4  *)
(* whether the search was typed, x5 whether the dialog that clears the     *)
(* list is open, x6 the count of unread events, x7 whether requests have   *)
(* crossed.                                                                *)
(***************************************************************************)
EventKinds == {"load", "count", "read", "readAll", "delete", "clear"}
EventCalls ==
    [kind : EventKinds, event : AllEvents \cup {Events!AnEvent}, mode : Events!Filters, served : BOOLEAN,
     got : [list : Events!Listings, count : 0..Events!Cardinality(AllEvents)]]

(* What fits the filters, and is still there.                              *)
EventFits(e) == Events!OfType(e, x3.type) /\ x1[e] \in {"unread", "read"}
EventsFit == \A e \in AllEvents : x2[e] # "none" => EventFits(e)

(* As long as requests do not overlap, one at most is under way besides    *)
(* counts; what it is to show, or leaves, fits the filters.                *)
EventsOrder ==
    ~x7 =>
        /\ \A c, d \in calls : c.kind # "count" /\ d.kind # "count" => c = d
        /\ (\A c \in calls : c.kind = "count") => EventsFit
        /\ \A c \in calls : c.kind = "load" =>
               /\ c.mode = x3
               /\ c.served => \A e \in AllEvents : c.got.list[e] # "none" => EventFits(e)
        /\ \A c \in calls : c.kind \in {"read", "readAll"} => EventsFit
        /\ \A c \in calls : c.kind = "clear" /\ ~c.served => EventsFit
        /\ \A c \in calls : c.kind = "delete" =>
               \A e \in AllEvents : x2[e] # "none" => EventFits(e) \/ (c.served /\ e = c.event)

EventsInv == Events!TypeOK /\ calls \subseteq EventCalls /\ Events!NoDeadButton /\ EventsOrder

(* How many events there may be.                                           *)
LEMMA EventsCounted ==
    /\ Events!Cardinality(AllEvents) \in Nat
    /\ \A S \in SUBSET AllEvents :
           /\ Events!Cardinality(S) \in 0..Events!Cardinality(AllEvents)
           /\ \A e \in AllEvents \ S : Events!Cardinality(S) + 1 \in 0..Events!Cardinality(AllEvents)
<1>1. Cardinality(AllEvents) \in Nat
    BY EventsAssumption, FS_CardinalityType
<1>2. ASSUME NEW S \in SUBSET AllEvents PROVE Cardinality(S) \in 0..Cardinality(AllEvents)
    <2>1. IsFiniteSet(S) /\ Cardinality(S) <= Cardinality(AllEvents)
        BY EventsAssumption, FS_Subset
    <2>2. Cardinality(S) \in Nat
        BY <2>1, FS_CardinalityType
    <2>3. QED
        BY <1>1, <2>1, <2>2
<1>3. ASSUME NEW S \in SUBSET AllEvents, NEW e \in AllEvents \ S
      PROVE  Cardinality(S) + 1 \in 0..Cardinality(AllEvents)
    <2>1. IsFiniteSet(S)
        BY EventsAssumption, FS_Subset
    <2>2. Cardinality(S \cup {e}) = Cardinality(S) + 1
        BY <2>1, FS_AddElement
    <2>3. S \cup {e} \in SUBSET AllEvents
        OBVIOUS
    <2>4. QED
        BY <1>2, <2>2, <2>3
<1>4. \A S : Events!Cardinality(S) = Cardinality(S)
    BY DEF Events!Cardinality, Cardinality
<1>5. QED
    BY <1>1, <1>2, <1>3, <1>4

(* The requests are of their type.                                         *)
LEMMA EventsNothing ==
    ASSUME x3 \in Events!Filters
    PROVE  /\ Events!NoAnswer \in [list : Events!Listings, count : 0..Events!Cardinality(AllEvents)]
           /\ Events!Count \in EventCalls /\ Events!Count.kind = "count"
           /\ \A filter \in Events!Filters :
                  /\ Events!Fetch(filter) \in EventCalls /\ Events!Fetch(filter).kind = "load"
                  /\ Events!Fetch(filter).mode = filter /\ Events!Fetch(filter).served = FALSE
           /\ \A k \in EventKinds, e \in AllEvents \cup {Events!AnEvent} :
                  /\ Events!Call(k, e) \in EventCalls /\ Events!Call(k, e).kind = k
                  /\ Events!Call(k, e).event = e /\ Events!Call(k, e).served = FALSE
<1>1. Events!NoAnswer \in [list : Events!Listings, count : 0..Events!Cardinality(AllEvents)]
    BY EventsCounted DEF Events!NoAnswer, Events!Listings
<1>2. ASSUME NEW k \in EventKinds, NEW e \in AllEvents \cup {Events!AnEvent}
      PROVE  /\ Events!Call(k, e) \in EventCalls /\ Events!Call(k, e).kind = k
             /\ Events!Call(k, e).event = e /\ Events!Call(k, e).served = FALSE
    BY <1>1 DEF Events!Call, EventCalls
<1>3. Events!Call("load", Events!AnEvent) \in EventCalls /\ Events!Call("count", Events!AnEvent) \in EventCalls
    BY <1>2 DEF EventKinds
<1>4. ASSUME NEW filter \in Events!Filters
      PROVE  /\ Events!Fetch(filter) \in EventCalls /\ Events!Fetch(filter).kind = "load"
             /\ Events!Fetch(filter).mode = filter /\ Events!Fetch(filter).served = FALSE
    <2>1. Events!Fetch(filter) = [Events!Call("load", Events!AnEvent) EXCEPT !.mode = filter]
        BY DEF Events!Fetch
    <2>2. Events!Call("load", Events!AnEvent).kind = "load" /\ Events!Call("load", Events!AnEvent).served = FALSE
        BY DEF Events!Call
    <2>3. QED
        BY <1>3, <2>1, <2>2 DEF EventCalls
<1>5. Events!Count \in EventCalls /\ Events!Count.kind = "count"
    BY <1>2, <1>3 DEF Events!Count, EventKinds
<1>6. QED
    BY <1>1, <1>2, <1>4, <1>5

(* It holds when the view is opened.                                       *)
LEMMA EventsInit == ASSUME Events!Init PROVE EventsInv
<1>1. /\ x1 \in [AllEvents -> {"none", "unread", "read"}] /\ x2 = [e \in AllEvents |-> "none"]
      /\ x3 = [type |-> "all", unread |-> FALSE] /\ x4 = FALSE /\ x5 = FALSE /\ x6 = 0
      /\ busy = {"load"} /\ calls = {Events!Fetch(x3), Events!Count} /\ x7 = FALSE /\ steps = 0
    BY DEF Events!Init
<1>2. x3 \in Events!Filters
    BY <1>1 DEF Events!Filters, Events!Types
<1>3. /\ Events!Fetch(x3) \in EventCalls /\ Events!Fetch(x3).kind = "load" /\ Events!Fetch(x3).mode = x3 /\ ~Events!Fetch(x3).served
      /\ Events!Count \in EventCalls /\ Events!Count.kind = "count"
    BY <1>2, EventsNothing
<1>4. x6 \in 0..Events!Cardinality(AllEvents) /\ steps \in 0..MaxSteps /\ x2 \in Events!Listings
    BY <1>1, EventsCounted DEF Events!Listings
<1>5. \A c \in EventCalls : c.kind \in EventKinds /\ c.mode \in Events!Filters
    BY DEF EventCalls
<1>6. Events!TypeOK /\ calls \subseteq EventCalls
    BY <1>1, <1>2, <1>3, <1>4, <1>5 DEF Events!TypeOK, EventKinds
<1>7. Events!NoDeadButton
    BY <1>1, <1>3 DEF Events!NoDeadButton
<1>8. EventsOrder
    BY <1>1, <1>3 DEF EventsOrder, EventsFit
<1>9. QED
    BY <1>6, <1>7, <1>8 DEF EventsInv

(* The types, unfolded.                                                    *)
LEMMA EventsTyped ==
    ASSUME EventsInv
    PROVE  /\ x1 \in [AllEvents -> {"none", "unread", "read", "gone"}] /\ x2 \in Events!Listings /\ x3 \in Events!Filters
           /\ x4 \in BOOLEAN /\ x5 \in BOOLEAN /\ x6 \in 0..Events!Cardinality(AllEvents)
           /\ busy \subseteq {"load", "refresh", "clear"} /\ x7 \in BOOLEAN /\ steps \in 0..MaxSteps
           /\ calls \subseteq EventCalls /\ Events!NoDeadButton /\ EventsOrder
BY DEF EventsInv, Events!TypeOK

(* A request of the page is sent.                                          *)
LEMMA EventsAsked ==
    ASSUME EventsInv, NEW c \in EventCalls, c.served = FALSE, c.kind # "count", Events!Asks(c),
           UNCHANGED <<x1, x2>>, c.kind # "load" => x3' = x3,
           c.kind = "load" => c.mode = x3',
           \/ busy' \in {busy \cup {"load"}, busy \cup {"refresh"}} /\ c.kind = "load"
           \/ busy' = busy
           \/ busy' = busy \cup {"clear"} /\ c.kind = "clear"
    PROVE  calls' \subseteq EventCalls /\ Events!NoDeadButton' /\ EventsOrder' /\ x7' \in BOOLEAN
<1>1. /\ x2 \in Events!Listings /\ calls \subseteq EventCalls /\ Events!NoDeadButton /\ EventsOrder
      /\ x7 \in BOOLEAN /\ busy \subseteq {"load", "refresh", "clear"}
    BY EventsTyped
<1>2. calls' = calls \cup {c} /\ x7' = (x7 \/ \E d \in calls : d.kind # "count")
    BY DEF Events!Asks
<1>3. calls' \subseteq EventCalls /\ x7' \in BOOLEAN
    BY <1>1, <1>2
<1>4. Events!NoDeadButton'
    <2>1. busy' \cap {"load", "refresh"} # {} => \E d \in calls' : d.kind = "load"
        BY <1>1, <1>2 DEF Events!NoDeadButton
    <2>2. "clear" \in busy' => \E d \in calls' : d.kind = "clear"
        BY <1>1, <1>2 DEF Events!NoDeadButton
    <2>3. QED
        BY <2>1, <2>2 DEF Events!NoDeadButton
<1>5. ASSUME ~x7' PROVE EventsOrder'
    <2>1. ~x7 /\ \A d \in calls : d.kind = "count"
        BY <1>1, <1>2, <1>5
    <2>2. EventsFit
        BY <1>1, <2>1 DEF EventsOrder
    <2>3. \A d \in calls' : d.kind # "count" => d = c
        BY <1>2, <2>1
    <2>4. c \in calls'
        BY <1>2
    <2>5. c.kind # "load" => EventsFit'
        BY <2>2 DEF EventsFit, EventFits, Events!OfType
    <2>6. c.kind = "delete" => \A e \in AllEvents : x2'[e] # "none" => EventFits(e)'
        BY <2>5 DEF EventsFit
    <2>7. QED
        BY <2>3, <2>4, <2>5, <2>6 DEF EventsOrder
<1>6. QED
    BY <1>3, <1>4, <1>5 DEF EventsOrder

(* An answer arrives: the page counts again, and shows what it made.       *)
LEMMA EventsEnd ==
    ASSUME EventsInv, NEW c \in calls, c.kind # "count", Events!Counts(c) \/ calls' = calls \ {c},
           UNCHANGED <<x1, x3>>, x7 => x7',
           busy' \subseteq busy, c.kind = "load" => busy' \cap {"load", "refresh"} = {},
           c.kind = "clear" => "clear" \notin busy',
           ~x7' => EventsFit'
    PROVE  calls' \subseteq EventCalls /\ Events!NoDeadButton' /\ EventsOrder'
<1>1. /\ calls \subseteq EventCalls /\ Events!NoDeadButton /\ EventsOrder /\ x3 \in Events!Filters
      /\ busy \subseteq {"load", "refresh", "clear"}
    BY EventsTyped
<1>2. Events!Count \in EventCalls /\ Events!Count.kind = "count"
    BY <1>1, EventsNothing
<1>3. calls' \subseteq (calls \ {c}) \cup {Events!Count} /\ calls \ {c} \subseteq calls'
    BY DEF Events!Counts
<1>4. calls' \subseteq EventCalls
    BY <1>1, <1>2, <1>3
<1>5. Events!NoDeadButton'
    <2>1. ASSUME busy' \cap {"load", "refresh"} # {} PROVE \E d \in calls' : d.kind = "load"
        <3>1. c.kind # "load" /\ busy \cap {"load", "refresh"} # {}
            BY <2>1
        <3>2. PICK d \in calls : d.kind = "load"
            BY <1>1, <3>1 DEF Events!NoDeadButton
        <3>3. QED
            BY <1>3, <3>1, <3>2
    <2>2. ASSUME "clear" \in busy' PROVE \E d \in calls' : d.kind = "clear"
        <3>1. c.kind # "clear" /\ "clear" \in busy
            BY <2>2
        <3>2. PICK d \in calls : d.kind = "clear"
            BY <1>1, <3>1 DEF Events!NoDeadButton
        <3>3. QED
            BY <1>3, <3>1, <3>2
    <2>3. QED
        BY <2>1, <2>2 DEF Events!NoDeadButton
<1>6. ASSUME ~x7' PROVE EventsOrder'
    <2>1. ~x7
        BY <1>6
    <2>2. \A d \in calls : d.kind # "count" => d = c
        BY <1>1, <2>1 DEF EventsOrder
    <2>3. \A d \in calls' : d.kind = "count"
        BY <1>2, <1>3, <2>2
    <2>4. EventsFit'
        BY <1>6
    <2>5. QED
        BY <2>3, <2>4 DEF EventsOrder
<1>7. QED
    BY <1>4, <1>5, <1>6 DEF EventsOrder

(* A request reaches the server.                                           *)
LEMMA EventsServed ==
    ASSUME EventsInv, NEW c \in calls, Events!Serve(c)
    PROVE  EventsInv'
<1>1. /\ x1 \in [AllEvents -> {"none", "unread", "read", "gone"}] /\ x2 \in Events!Listings /\ x3 \in Events!Filters
      /\ x4 \in BOOLEAN /\ x5 \in BOOLEAN /\ x6 \in 0..Events!Cardinality(AllEvents)
      /\ busy \subseteq {"load", "refresh", "clear"} /\ x7 \in BOOLEAN /\ steps \in 0..MaxSteps
      /\ calls \subseteq EventCalls /\ Events!NoDeadButton /\ EventsOrder
    BY EventsTyped
<1> DEFINE got == [list |-> Events!Listing(Events!GetEvents(c.mode))', count |-> Events!Cardinality(Events!Unread)']
<1> DEFINE d == [c EXCEPT !.served = TRUE, !.got = [list |-> Events!Listing(Events!GetEvents(c.mode)), count |-> Events!Cardinality(Events!Unread)]]
<1>2. ~c.served /\ x1' = Events!Changed(c) /\ calls' = (calls \ {c}) \cup {d}
      /\ UNCHANGED <<x2, x3, x4, x5, x6, busy, x7, steps>>
    BY DEF Events!Serve
<1>3. c \in EventCalls
    BY <1>1
<1>4. Events!Listing(Events!GetEvents(c.mode)) \in Events!Listings /\ Events!Cardinality(Events!Unread) \in 0..Events!Cardinality(AllEvents)
    <2>1. \A e \in Events!GetEvents(c.mode) : x1[e] \in {"unread", "read"}
        BY DEF Events!GetEvents
    <2>2. Events!Listing(Events!GetEvents(c.mode)) \in Events!Listings
        BY <2>1 DEF Events!Listing, Events!Listings
    <2>3. Events!Unread \in SUBSET AllEvents
        BY DEF Events!Unread
    <2>4. QED
        BY <2>2, <2>3, EventsCounted
<1>5. d \in EventCalls /\ d.kind = c.kind /\ d.mode = c.mode /\ d.event = c.event /\ d.served = TRUE
      /\ d.got.list = Events!Listing(Events!GetEvents(c.mode))
    BY <1>3, <1>4 DEF EventCalls
<1>6. x1' \in [AllEvents -> {"none", "unread", "read", "gone"}]
    BY <1>1, <1>2 DEF Events!Changed
<1>7. \A k \in EventCalls : k.kind \in EventKinds /\ k.mode \in Events!Filters
    BY DEF EventCalls
<1>8. calls' \subseteq EventCalls
    BY <1>1, <1>2, <1>5
<1>9. Events!TypeOK'
    BY <1>1, <1>2, <1>6, <1>7, <1>8 DEF Events!TypeOK, EventKinds
<1>10. Events!NoDeadButton'
    BY <1>1, <1>2, <1>5 DEF Events!NoDeadButton
<1>11. ASSUME ~x7' PROVE EventsOrder'
    <2>1. /\ \A k, m \in calls : k.kind # "count" /\ m.kind # "count" => k = m
          /\ (\A k \in calls : k.kind = "count") => EventsFit
          /\ \A k \in calls : k.kind = "load" =>
               /\ k.mode = x3
               /\ k.served => \A e \in AllEvents : k.got.list[e] # "none" => EventFits(e)
          /\ \A k \in calls : k.kind \in {"read", "readAll"} => EventsFit
          /\ \A k \in calls : k.kind = "clear" /\ ~k.served => EventsFit
          /\ \A k \in calls : k.kind = "delete" =>
               \A e \in AllEvents : x2[e] # "none" => EventFits(e) \/ (k.served /\ e = k.event)
        BY <1>1, <1>2, <1>11 DEF EventsOrder
    <2>2. \A k, m \in calls' : k.kind # "count" /\ m.kind # "count" => k = m
        BY <1>2, <1>5, <2>1
    <2>3. CASE c.kind = "count"
        <3>1. x1' = x1
            BY <1>2, <2>3 DEF Events!Changed
        <3>2. \A k \in calls' : k.kind # "count" => k \in calls
            BY <1>2, <1>5, <2>3
        <3>3. \A k \in calls : k.kind # "count" => k \in calls'
            BY <1>2, <2>3
        <3>4. (EventsFit' <=> EventsFit) /\ \A e \in AllEvents : EventFits(e)' <=> EventFits(e)
            BY <1>2, <3>1 DEF EventsFit, EventFits, Events!OfType
        <3>5. (\A k \in calls' : k.kind = "count") => EventsFit'
            BY <2>1, <3>3, <3>4
        <3>6. \A k \in calls' : k.kind = "load" =>
               /\ k.mode = x3'
               /\ k.served => \A e \in AllEvents : k.got.list[e] # "none" => EventFits(e)'
            BY <1>2, <2>1, <3>2, <3>4
        <3>7. \A k \in calls' : /\ k.kind \in {"read", "readAll"} => EventsFit'
                                /\ k.kind = "clear" /\ ~k.served => EventsFit'
            BY <2>1, <3>2, <3>4
        <3>8. \A k \in calls' : k.kind = "delete" =>
               \A e \in AllEvents : x2'[e] # "none" => EventFits(e)' \/ (k.served /\ e = k.event)
            BY <1>2, <2>1, <3>2, <3>4
        <3>9. QED
            BY <2>2, <3>5, <3>6, <3>7, <3>8 DEF EventsOrder
    <2>4. CASE c.kind # "count"
        <3>1. \A k \in calls' : k.kind # "count" => k = d
            BY <1>2, <1>5, <2>1, <2>4
        <3>2. d \in calls' /\ d.kind # "count"
            BY <1>2, <1>5, <2>4
        <3>3. c.kind = "load" => d.mode = x3' /\ \A e \in AllEvents : d.got.list[e] # "none" => EventFits(e)'
            <4>1. SUFFICES ASSUME c.kind = "load", NEW e \in AllEvents, Events!Listing(Events!GetEvents(c.mode))[e] # "none"
                           PROVE  EventFits(e)'
                BY <1>2, <1>5, <2>1
            <4>2. e \in Events!GetEvents(x3)
                BY <2>1, <4>1 DEF Events!Listing
            <4>3. EventFits(e)
                BY <4>2 DEF Events!GetEvents, EventFits
            <4>4. x1' = x1
                BY <1>2, <4>1 DEF Events!Changed
            <4>5. QED
                BY <1>2, <4>3, <4>4 DEF EventFits, Events!OfType
        <3>4. c.kind \in {"read", "readAll"} => EventsFit'
            <4>1. SUFFICES ASSUME c.kind \in {"read", "readAll"}, NEW e \in AllEvents, x2[e] # "none"
                           PROVE  EventFits(e)'
                BY <1>2 DEF EventsFit
            <4>2. EventFits(e)
                BY <2>1, <4>1 DEF EventsFit
            <4>3. x1'[e] \in {x1[e], "read"}
                BY <1>1, <1>2, <4>1 DEF Events!Changed
            <4>4. QED
                BY <1>2, <4>2, <4>3 DEF EventFits, Events!OfType
        <3>5. c.kind = "delete" => \A e \in AllEvents : x2'[e] # "none" => EventFits(e)' \/ e = d.event
            <4>1. SUFFICES ASSUME c.kind = "delete", NEW e \in AllEvents, x2[e] # "none", e # c.event
                           PROVE  EventFits(e)'
                BY <1>2, <1>5
            <4>2. EventFits(e)
                BY <1>2, <2>1, <4>1
            <4>3. x1'[e] = x1[e]
                BY <1>1, <1>2, <4>1 DEF Events!Changed
            <4>4. QED
                BY <1>2, <4>2, <4>3 DEF EventFits, Events!OfType
        <3>6. QED
            BY <1>5, <2>2, <3>1, <3>2, <3>3, <3>4, <3>5 DEF EventsOrder
    <2>5. QED
        BY <2>3, <2>4
<1>12. QED
    <2>1. EventsOrder'
        BY <1>11 DEF EventsOrder
    <2>2. QED
        BY <1>8, <1>9, <1>10, <2>1 DEF EventsInv

(* Every step of the view keeps it.                                        *)
LEMMA EventsStep == ASSUME EventsInv, Events!Next \/ UNCHANGED Events!vars PROVE EventsInv'
<1>1. /\ x1 \in [AllEvents -> {"none", "unread", "read", "gone"}] /\ x2 \in Events!Listings /\ x3 \in Events!Filters
      /\ x4 \in BOOLEAN /\ x5 \in BOOLEAN /\ x6 \in 0..Events!Cardinality(AllEvents)
      /\ busy \subseteq {"load", "refresh", "clear"} /\ x7 \in BOOLEAN /\ steps \in 0..MaxSteps
      /\ calls \subseteq EventCalls /\ Events!NoDeadButton /\ EventsOrder
    BY EventsTyped
<1>2. /\ \A k \in EventCalls : /\ k.kind \in EventKinds /\ k.mode \in Events!Filters /\ k.served \in BOOLEAN
                               /\ k.got.list \in Events!Listings /\ k.got.count \in 0..Events!Cardinality(AllEvents)
      /\ Events!Count \in EventCalls /\ Events!Count.kind = "count"
    BY <1>1, EventsNothing DEF EventCalls
<1>3. ASSUME UNCHANGED <<x1, x3>>, x2' \in Events!Listings, x4' \in BOOLEAN, x5' \in BOOLEAN,
             x6' \in 0..Events!Cardinality(AllEvents), busy' \subseteq busy, calls' \subseteq EventCalls,
             x7' \in BOOLEAN, steps' \in 0..MaxSteps, Events!NoDeadButton', EventsOrder'
      PROVE  EventsInv'
    BY <1>1, <1>2, <1>3 DEF EventsInv, Events!TypeOK, EventKinds
\* Steps that leave the requests but counts, and what is shown of the x2.
<1>4. ASSUME UNCHANGED <<x2, x3, busy, x7>>, calls' \subseteq EventCalls,
             \A e \in AllEvents : x1[e] \in {"unread", "read"} => x1'[e] \in {"unread", "read"},
             \A k \in calls : k.kind # "count" => k \in calls',
             \A k \in calls' : k.kind # "count" => k \in calls
      PROVE  Events!NoDeadButton' /\ EventsOrder'
    <2>1. Events!NoDeadButton'
        <3>1. busy' \cap {"load", "refresh"} # {} => \E k \in calls' : k.kind = "load"
            BY <1>1, <1>4 DEF Events!NoDeadButton
        <3>2. "clear" \in busy' => \E k \in calls' : k.kind = "clear"
            BY <1>1, <1>4 DEF Events!NoDeadButton
        <3>3. QED
            BY <3>1, <3>2 DEF Events!NoDeadButton
    <2>2. ASSUME ~x7 PROVE EventsOrder'
        <3>1. /\ \A k, m \in calls : k.kind # "count" /\ m.kind # "count" => k = m
              /\ (\A k \in calls : k.kind = "count") => EventsFit
              /\ \A k \in calls : k.kind = "load" =>
                   /\ k.mode = x3
                   /\ k.served => \A e \in AllEvents : k.got.list[e] # "none" => EventFits(e)
              /\ \A k \in calls : k.kind \in {"read", "readAll"} => EventsFit
              /\ \A k \in calls : k.kind = "clear" /\ ~k.served => EventsFit
              /\ \A k \in calls : k.kind = "delete" =>
                   \A e \in AllEvents : x2[e] # "none" => EventFits(e) \/ (k.served /\ e = k.event)
            BY <1>1, <2>2 DEF EventsOrder
        <3>2. \A e \in AllEvents : EventFits(e) => EventFits(e)'
            BY <1>4 DEF EventFits, Events!OfType
        <3>3. EventsFit => EventsFit'
            BY <1>4, <3>2 DEF EventsFit
        <3>4. /\ \A k, m \in calls' : k.kind # "count" /\ m.kind # "count" => k = m
              /\ (\A k \in calls' : k.kind = "count") => EventsFit'
              /\ \A k \in calls' : k.kind \in {"read", "readAll"} => EventsFit'
              /\ \A k \in calls' : k.kind = "clear" /\ ~k.served => EventsFit'
            BY <1>4, <3>1, <3>3
        <3>5. \A k \in calls' : k.kind = "load" =>
                   /\ k.mode = x3'
                   /\ k.served => \A e \in AllEvents : k.got.list[e] # "none" => EventFits(e)'
            BY <1>4, <3>1, <3>2
        <3>6. \A k \in calls' : k.kind = "delete" =>
                   \A e \in AllEvents : x2'[e] # "none" => EventFits(e)' \/ (k.served /\ e = k.event)
            BY <1>4, <3>1, <3>2
        <3>7. QED
            BY <3>4, <3>5, <3>6 DEF EventsOrder
    <2>3. QED
        BY <1>1, <1>4, <2>1, <2>2 DEF EventsOrder
<1>5. ASSUME NEW e \in AllEvents, Events!BroadcastEventCreated(e) PROVE EventsInv'
    <2>1. /\ Events!Step /\ x1[e] = "none" /\ x1' = [x1 EXCEPT ![e] = "unread"]
          /\ x6' = Events!Cardinality(Events!Unread) + 1
          /\ UNCHANGED <<x2, x3, x4, x5, busy, calls, x7>>
        BY <1>5 DEF Events!BroadcastEventCreated
    <2>2. Events!Unread \in SUBSET AllEvents /\ e \in AllEvents \ Events!Unread
        BY <2>1 DEF Events!Unread
    <2>3. x6' \in 0..Events!Cardinality(AllEvents)
        BY <2>1, <2>2, EventsCounted
    <2>4. x1' \in [AllEvents -> {"none", "unread", "read", "gone"}]
          /\ \A o \in AllEvents : x1[o] \in {"unread", "read"} => x1'[o] \in {"unread", "read"}
        BY <1>1, <2>1
    <2>5. Events!NoDeadButton' /\ EventsOrder'
        BY <1>1, <1>4, <2>1, <2>4
    <2>6. steps' \in 0..MaxSteps
        BY <1>1, <2>1 DEF Events!Step
    <2>7. QED
        BY <1>1, <1>2, <2>1, <2>3, <2>4, <2>5, <2>6 DEF EventsInv, Events!TypeOK, EventKinds
<1>6. CASE Events!RefreshUnreadEventsCount \/ Events!EditSearch \/ Events!SetClearDialogOpen \/ UNCHANGED Events!vars \/ \E c \in calls : Events!CountArrives(c)
    <2>1. UNCHANGED <<x1, x2, x3, busy, x7>>
        BY <1>6
           DEF Events!RefreshUnreadEventsCount, Events!EditSearch, Events!SetClearDialogOpen, Events!CountArrives, Events!vars
    <2>2. /\ calls' \subseteq EventCalls
          /\ \A k \in calls : k.kind # "count" => k \in calls'
          /\ \A k \in calls' : k.kind # "count" => k \in calls
        BY <1>1, <1>2, <1>6
           DEF Events!RefreshUnreadEventsCount, Events!EditSearch, Events!SetClearDialogOpen, Events!CountArrives, Events!vars
    <2>3. steps' \in 0..MaxSteps
        BY <1>1, <1>6
           DEF Events!RefreshUnreadEventsCount, Events!EditSearch, Events!SetClearDialogOpen, Events!CountArrives,
               Events!vars, Events!Step
    <2>4. x4' \in BOOLEAN /\ x5' \in BOOLEAN
        BY <1>1, <1>6
           DEF Events!RefreshUnreadEventsCount, Events!EditSearch, Events!SetClearDialogOpen, Events!CountArrives, Events!vars
    <2>5. x6' \in 0..Events!Cardinality(AllEvents)
        BY <1>1, <1>2, <1>6
           DEF Events!RefreshUnreadEventsCount, Events!EditSearch, Events!SetClearDialogOpen, Events!CountArrives, Events!vars
    <2>6. Events!NoDeadButton' /\ EventsOrder'
        BY <1>4, <2>1, <2>2
    <2>7. QED
        BY <1>1, <1>3, <2>1, <2>2, <2>3, <2>4, <2>5, <2>6
<1>7. ASSUME Events!Step, NEW c \in EventCalls, c.served = FALSE, c.kind # "count", Events!Asks(c),
             UNCHANGED <<x1, x2, x4, x5, x6>>, x3' \in Events!Filters, c.kind # "load" => x3' = x3,
             c.kind = "load" => c.mode = x3',
             \/ busy' \in {busy \cup {"load"}, busy \cup {"refresh"}} /\ c.kind = "load"
             \/ busy' = busy
             \/ busy' = busy \cup {"clear"} /\ c.kind = "clear"
      PROVE  EventsInv'
    <2>2. calls' \subseteq EventCalls /\ Events!NoDeadButton' /\ EventsOrder' /\ x7' \in BOOLEAN
        BY <1>7, EventsAsked
    <2>3. steps' \in 0..MaxSteps
        BY <1>1, <1>7 DEF Events!Step
    <2>4. busy' \subseteq {"load", "refresh", "clear"}
        BY <1>1, <1>7
    <2>5. QED
        BY <1>1, <1>2, <1>7, <2>2, <2>3, <2>4 DEF EventsInv, Events!TypeOK, EventKinds
<1>8. ASSUME NEW filter \in Events!Filters, Events!Sets(filter) PROVE EventsInv'
    <2>1. /\ Events!Fetch(filter) \in EventCalls /\ Events!Fetch(filter).kind = "load"
          /\ Events!Fetch(filter).mode = filter /\ Events!Fetch(filter).served = FALSE
        BY <1>1, EventsNothing
    <2>2. /\ Events!Step /\ Events!Asks(Events!Fetch(filter)) /\ x3' = filter /\ busy' = busy \cup {"load"}
          /\ UNCHANGED <<x1, x2, x4, x5, x6>>
        BY <1>8 DEF Events!Sets
    <2>3. QED
        BY <1>7, <2>1, <2>2
<1>9. CASE (\E t \in Events!Types : Events!SelectType(t)) \/ Events!ToggleUnreadOnly
    <2>1. CASE Events!ToggleUnreadOnly
        <3>1. [x3 EXCEPT !.unread = ~@] \in Events!Filters
            BY <1>1 DEF Events!Filters
        <3>2. QED
            BY <1>8, <2>1, <3>1 DEF Events!ToggleUnreadOnly
    <2>2. ASSUME NEW t \in Events!Types, Events!SelectType(t) PROVE EventsInv'
        <3>1. [x3 EXCEPT !.type = IF t = x3.type THEN "all" ELSE t] \in Events!Filters
            BY <1>1 DEF Events!Filters, Events!Types
        <3>2. QED
            BY <1>8, <2>2, <3>1 DEF Events!SelectType
    <2>3. QED
        BY <1>9, <2>1, <2>2
<1>10. CASE Events!HandleRefresh
    <2>1. /\ Events!Fetch(x3) \in EventCalls /\ Events!Fetch(x3).kind = "load"
          /\ Events!Fetch(x3).mode = x3 /\ Events!Fetch(x3).served = FALSE
        BY <1>1, EventsNothing
    <2>2. /\ Events!Step /\ Events!Asks(Events!Fetch(x3)) /\ x3' = x3 /\ busy' = busy \cup {"refresh"}
          /\ UNCHANGED <<x1, x2, x4, x5, x6>>
        BY <1>10 DEF Events!HandleRefresh
    <2>3. QED
        BY <1>1, <1>7, <2>1, <2>2
<1>11. ASSUME NEW k \in {"read", "readAll", "delete", "clear"}, NEW e \in AllEvents \cup {Events!AnEvent}, Events!Press(Events!Call(k, e)),
              busy' = busy \/ (busy' = busy \cup {"clear"} /\ k = "clear")
       PROVE  EventsInv'
    <2>1. /\ Events!Call(k, e) \in EventCalls /\ Events!Call(k, e).kind = k /\ Events!Call(k, e).served = FALSE
        <3>1. k \in EventKinds
            BY DEF EventKinds
        <3>2. QED
            BY <1>1, <3>1, EventsNothing
    <2>2. Events!Step /\ Events!Asks(Events!Call(k, e)) /\ UNCHANGED <<x1, x2, x3, x4, x5, x6>>
        BY <1>11 DEF Events!Press
    <2>3. QED
        <3>1. k # "load" /\ k # "count"
            OBVIOUS
        <3>2. UNCHANGED <<x1, x2, x4, x5, x6>> /\ x3' \in Events!Filters /\ x3' = x3
            BY <1>1, <2>2
        <3>3. CASE busy' = busy
            BY <1>7, <2>1, <2>2, <3>1, <3>2, <3>3
        <3>4. CASE busy' = busy \cup {"clear"} /\ k = "clear"
            BY <1>7, <2>1, <2>2, <3>1, <3>2, <3>4
        <3>5. QED
            BY <1>11, <3>3, <3>4
<1>12. CASE Events!HandleMarkAllRead \/ Events!HandleClearAll \/ \E e \in AllEvents : Events!HandleMarkAsRead(e) \/ Events!HandleDeleteEvent(e)
    <2>1. CASE Events!HandleMarkAllRead
        BY <1>11, <2>1 DEF Events!HandleMarkAllRead
    <2>2. CASE Events!HandleClearAll
        BY <1>11, <2>2 DEF Events!HandleClearAll
    <2>3. ASSUME NEW e \in AllEvents, Events!HandleMarkAsRead(e) PROVE EventsInv'
        BY <1>11, <2>3 DEF Events!HandleMarkAsRead
    <2>4. ASSUME NEW e \in AllEvents, Events!HandleDeleteEvent(e) PROVE EventsInv'
        BY <1>11, <2>4 DEF Events!HandleDeleteEvent
    <2>5. QED
        BY <1>12, <2>1, <2>2, <2>3, <2>4
<1>13. ASSUME NEW c \in calls, c.kind # "count", Events!Counts(c) \/ calls' = calls \ {c}, x7 => x7',
              UNCHANGED <<x1, x3, x4, x6, steps>>, x7' \in BOOLEAN, x5' \in BOOLEAN,
              x2' \in Events!Listings, busy' \subseteq busy, c.kind = "load" => busy' \cap {"load", "refresh"} = {},
              c.kind = "clear" => "clear" \notin busy', ~x7' => EventsFit'
       PROVE  EventsInv'
    <2>1. calls' \subseteq EventCalls /\ Events!NoDeadButton' /\ EventsOrder'
        BY <1>13, EventsEnd
    <2>2. QED
        BY <1>1, <1>3, <1>13, <2>1
\* What fitted still does, in a x2 from which something was taken.
<1>14. ASSUME UNCHANGED <<x1, x3>>, \A e \in AllEvents : x2'[e] # "none" => EventFits(e)
       PROVE  EventsFit'
    BY <1>14 DEF EventsFit, EventFits, Events!OfType
<1>15. ASSUME NEW c \in calls, Events!FetchArrives(c) PROVE EventsInv'
    <2>1. /\ c.kind = "load" /\ c.served /\ x2' = c.got.list /\ Events!Counts(c) /\ busy' = busy \ {"load", "refresh"}
          /\ UNCHANGED <<x1, x3, x4, x5, x6, x7, steps>>
        BY <1>15 DEF Events!FetchArrives, Events!Arrived
    <2>2. c \in EventCalls
        BY <1>1
    <2>3. ~x7 => EventsFit'
        BY <1>1, <1>14, <2>1 DEF EventsOrder
    <2>4. QED
        BY <1>1, <1>2, <1>13, <2>1, <2>2, <2>3
<1>16. ASSUME NEW c \in calls, Events!MarkArrives(c) \/ Events!MarkAllArrives(c) PROVE EventsInv'
    <2>1. /\ c.kind \in {"read", "readAll"} /\ Events!Counts(c)
          /\ UNCHANGED <<x1, x3, x4, x5, x6, busy, x7, steps>>
        BY <1>16 DEF Events!MarkArrives, Events!MarkAllArrives, Events!Arrived
    <2>2. x2' \in Events!Listings /\ \A e \in AllEvents : x2'[e] # "none" => x2[e] # "none"
        BY <1>1, <1>16 DEF Events!MarkArrives, Events!MarkAllArrives, Events!Listings
    <2>3. ~x7 => EventsFit'
        BY <1>1, <1>14, <2>1, <2>2 DEF EventsOrder, EventsFit
    <2>4. QED
        BY <1>1, <1>13, <2>1, <2>2, <2>3
<1>17. ASSUME NEW c \in calls, Events!DeleteArrives(c) PROVE EventsInv'
    <2>1. /\ c.kind = "delete" /\ Events!Counts(c) /\ x2' = [x2 EXCEPT ![c.event] = "none"]
          /\ UNCHANGED <<x1, x3, x4, x5, x6, busy, x7, steps>>
        BY <1>17 DEF Events!DeleteArrives, Events!Arrived
    <2>2. x2' \in Events!Listings /\ \A e \in AllEvents : x2'[e] # "none" => x2[e] # "none" /\ e # c.event
        BY <1>1, <2>1 DEF Events!Listings
    <2>3. ~x7 => EventsFit'
        BY <1>1, <1>14, <2>1, <2>2 DEF EventsOrder
    <2>4. QED
        BY <1>1, <1>13, <2>1, <2>2, <2>3
<1>18. ASSUME NEW c \in calls, Events!ClearArrives(c) PROVE EventsInv'
    <2>1. /\ c.kind = "clear" /\ Events!Counts(c) /\ x2' = [e \in AllEvents |-> "none"] /\ x5' = FALSE
          /\ busy' = busy \ {"clear"} /\ UNCHANGED <<x1, x3, x4, x6, x7, steps>>
        BY <1>18 DEF Events!ClearArrives, Events!Arrived
    <2>2. x2' \in Events!Listings /\ EventsFit'
        BY <2>1 DEF Events!Listings, EventsFit
    <2>3. QED
        BY <1>1, <1>13, <2>1, <2>2
<1>19. ASSUME NEW c \in calls, Events!Fails(c) PROVE EventsInv'
    <2>1. /\ calls' = calls \ {c}
          /\ busy' = busy \ (IF c.kind = "load" THEN {"load", "refresh"}
                             ELSE IF c.kind = "clear" THEN {"clear"} ELSE {})
          /\ x7' = (x7 \/ c.kind = "load" \/ (c.served /\ c.kind \in {"delete", "clear"}))
          /\ UNCHANGED <<x1, x2, x3, x4, x5, x6, steps>>
        BY <1>19 DEF Events!Fails
    <2>2. CASE c.kind = "count"
        <3>1. /\ x7' = x7 /\ busy' = busy
            BY <1>1, <2>1, <2>2
        <3>2. /\ calls' \subseteq EventCalls
              /\ \A k \in calls : k.kind # "count" => k \in calls'
              /\ \A k \in calls' : k.kind # "count" => k \in calls
            BY <1>1, <2>1, <2>2
        <3>3. Events!NoDeadButton' /\ EventsOrder'
            BY <1>4, <2>1, <3>1, <3>2
        <3>4. QED
            BY <1>1, <1>3, <2>1, <3>1, <3>2, <3>3
    <2>3. CASE c.kind # "count"
        <3>1. c \in EventCalls /\ c.kind \in EventKinds
            BY <1>1, <1>2
        <3>2. ~x7' => EventsFit
            <4>1. SUFFICES ASSUME ~x7, c.kind # "load", ~(c.served /\ c.kind \in {"delete", "clear"}) PROVE EventsFit
                BY <2>1
            <4>2. c.kind = "delete" => \A e \in AllEvents : x2[e] # "none" => EventFits(e)
                BY <1>1, <4>1 DEF EventsOrder
            <4>3. c.kind \in {"read", "readAll", "clear"} => EventsFit
                BY <1>1, <2>1, <4>1 DEF EventsOrder
            <4>4. QED
                BY <2>3, <3>1, <4>1, <4>2, <4>3 DEF EventsFit, EventKinds
        <3>3. ~x7' => EventsFit'
            BY <1>14, <2>1, <3>2 DEF EventsFit
        <3>4. busy' \subseteq busy /\ (c.kind = "load" => busy' \cap {"load", "refresh"} = {})
              /\ (c.kind = "clear" => "clear" \notin busy')
            BY <2>1
        <3>5. x7' \in BOOLEAN /\ (x7 => x7')
            BY <1>1, <2>1
        <3>6. QED
            BY <1>1, <1>13, <2>1, <2>3, <3>3, <3>4, <3>5
    <2>4. QED
        BY <2>2, <2>3
<1>20. QED
    BY <1>5, <1>6, <1>9, <1>10, <1>12, <1>15, <1>16, <1>17, <1>18, <1>19, EventsServed DEF Events!Next

(* From the invariant to what is stated of the screen.                     *)
LEMMA EventsShows == ASSUME EventsInv PROVE Events!TypeOK /\ Events!NoDeadButton /\ Events!ListOfFilters
<1>1. Events!ListOfFilters
    BY DEF EventsInv, EventsOrder, EventsFit, EventFits, Events!ListOfFilters
<1>2. QED
    BY <1>1 DEF EventsInv

-----------------------------------------------------------------------------
(***************************************************************************)
(* PingTableView. x1 is what the server has, x2 the history, x3 the runs   *)
(* held by the page, x4 the one shown, x5 the type of the table, x6        *)
(* whether the menu of the history or the export is open, x7 whether the   *)
(* operator's requests overlapped or a run was not shown.                  *)
(***************************************************************************)
(* The requests of which the operator has one at a time.                   *)
PingKinds == {"init", "initTask", "prefetch", "poll", "run", "cancel", "current",
              "type", "task", "history", "delete", "next"}
PingOps == PingKinds \ {"prefetch", "poll", "history"}
PingCalls ==
    [kind : PingKinds, arg : Runs \cup {0}, type : Ping!Types, got : Ping!Servers \cup {Ping!NoAnswer},
     list : SUBSET Runs, shown : Runs \cup {0}]

(* A run that was started is known, with its type, for good.               *)
PingStarted(r) == x1.runs[r].status # "none"
PingServed(s) == s \in Ping!Servers /\ (s.current # 0 => s.runs[s.current].status \notin {"none", "deleted"})
PingCalled(c) ==
    /\ c \in PingCalls
    /\ c.arg # 0 => PingStarted(c.arg)
    /\ c.kind = "delete" => c.arg # 0
    /\ \A r \in c.list : PingStarted(r)
    /\ c.got # Ping!NoAnswer =>
        /\ PingServed(c.got)
        /\ \A r \in Runs : c.got.runs[r].status # "none" => PingStarted(r)
        /\ c.arg # 0 /\ c.kind \in {"initTask", "prefetch", "task", "next"} =>
               c.got.runs[c.arg].status # "deleted"
PingShown ==
    /\ x2 \subseteq Runs /\ x3 \in [Runs -> Ping!Statuses] /\ x5 \in Ping!Types
    /\ x4 \in [id : Runs \cup {0}, status : Ping!Statuses] /\ x6 \in {"none", "history", "export"}
    /\ busy \subseteq {"load", "action"} /\ x7 \in BOOLEAN /\ steps \in 0..MaxSteps
    /\ x4.id # 0 => PingStarted(x4.id)
    /\ \A r \in x2 : PingStarted(r)

(* What the one request of the operator is for is of the type chosen.      *)
PingOfTab(c) ==
    /\ c.kind \in {"run", "type"} => c.type = x5
    /\ c.kind \in {"initTask", "task", "delete", "next"} => c.arg # 0 /\ Ping!TypeOf(c.arg) = x5
    /\ c.kind \in {"init", "initTask"} => x4.id = 0
    /\ c.kind \in {"type", "task"} => "load" \in busy
PingAlone ==
    x7 \/ \A c, d \in calls : c.kind \in PingOps /\ d.kind \in PingOps => c = d
PingTabbed ==
    x7 \/ /\ \A c \in calls : PingOfTab(c)
          /\ \/ x4.id = 0 \/ Ping!TypeOf(x4.id) = x5
             \/ \E c \in calls : c.kind \in {"type", "task"}

PingInv ==
    /\ PingServed(x1) /\ PingShown /\ (\A c \in calls : PingCalled(c))
    /\ Ping!NoDeadButton /\ PingAlone /\ PingTabbed

(* There is a last among the runs of any set.                              *)
LEMMA PingLast ==
    ASSUME NEW n \in Nat, NEW S, S \subseteq 1..n, S # {}
    PROVE  \E r \in S : \A q \in S : q <= r
<1> DEFINE R == OpToRel(<, Nat)
           T == {n - x : x \in S}
<1>1. IsWellFoundedOn(R, Nat)
    BY NatLessThanWellFounded, Zenon
<1>2. T \subseteq Nat /\ T # {}
    <2>1. \A x \in S : n - x \in Nat
        OBVIOUS
    <2>2. QED
        BY <2>1
<1>3. \A x, y \in Nat : x < y => <<x, y>> \in R
    BY DEF OpToRel
<1> HIDE DEF R, T
<1>4. PICK m \in T : \A y \in T : ~(<<y, m>> \in R)
    BY <1>1, <1>2, WFMin
<1>5. PICK r \in S : m = n - r
    BY DEF T
<1>6. ASSUME NEW q \in S PROVE q <= r
    <2>1. n - q \in T
        BY DEF T
    <2>2. ~(n - q < n - r)
        BY <1>2, <1>3, <1>4, <1>5, <2>1
    <2>3. QED
        BY <2>2
<1>7. QED
    BY <1>6

(* Runs are numbered from one.                                             *)
LEMMA PingRuns == Cardinality(Runs) \in Nat /\ 0 \notin Runs
BY RunsAssumption, FS_CardinalityType

(* The newest run of a type is one of that type.                           *)
LEMMA PingNewest ==
    ASSUME NEW runs, runs \subseteq Runs, NEW t
    PROVE  Ping!Newest(runs, t) \in runs \cup {0} /\ (Ping!Newest(runs, t) # 0 => Ping!TypeOf(Ping!Newest(runs, t)) = t)
<1> DEFINE found == {r \in runs : Ping!TypeOf(r) = t}
<1>1. CASE found = {}
    BY <1>1 DEF Ping!Newest
<1>2. CASE found # {}
    <2>1. \E r \in found : \A q \in found : q <= r
        BY <1>2, RunsAssumption, PingRuns, PingLast
    <2>2. Ping!Newest(runs, t) = CHOOSE r \in found : \A q \in found : q <= r
        BY <1>2 DEF Ping!Newest
    <2>3. Ping!Newest(runs, t) \in found
        BY <2>1, <2>2
    <2>4. QED
        BY <2>3
<1>3. QED
    BY <1>1, <1>2

(* What the server says of a run, and of what runs, can be shown.          *)
LEMMA PingTask ==
    ASSUME NEW s, PingServed(s)
    PROVE  /\ s.current \in Runs \cup {0} /\ s.runs \in [Runs -> [type : Ping!Types, status : Ping!Statuses \cup {"deleted"}]]
           /\ Ping!Task(s, s.current) \in [id : Runs \cup {0}, status : Ping!Statuses]
           /\ Ping!Task(s, s.current).id = s.current
           /\ \A r \in Runs : s.runs[r].status # "deleted" =>
                  Ping!Task(s, r) \in [id : Runs \cup {0}, status : Ping!Statuses] /\ Ping!Task(s, r).id = r
           /\ Ping!Task(s, 0) = Ping!NoTask
<1>1. /\ s.current \in Runs \cup {0} /\ s.runs \in [Runs -> [type : Ping!Types, status : Ping!Statuses \cup {"deleted"}]]
      /\ s.current # 0 => s.runs[s.current].status # "deleted"
    BY DEF PingServed, Ping!Servers
<1>2. \A r \in Runs : s.runs[r].status \in Ping!Statuses \cup {"deleted"}
    BY <1>1
<1>3. Ping!Task(s, 0) = Ping!NoTask
    BY DEF Ping!Task
<1>4. Ping!NoTask \in [id : Runs \cup {0}, status : Ping!Statuses] /\ Ping!NoTask.id = 0
    BY DEF Ping!NoTask, Ping!Statuses
<1>5. ASSUME NEW r \in Runs, s.runs[r].status # "deleted"
      PROVE  Ping!Task(s, r) \in [id : Runs \cup {0}, status : Ping!Statuses] /\ Ping!Task(s, r).id = r
    <2>1. r # 0
        BY PingRuns
    <2>2. Ping!Task(s, r) = [id |-> r, status |-> s.runs[r].status]
        BY <2>1 DEF Ping!Task
    <2>3. s.runs[r].status \in Ping!Statuses
        BY <1>2, <1>5
    <2>4. QED
        BY <2>2, <2>3
<1>6. Ping!Task(s, s.current) \in [id : Runs \cup {0}, status : Ping!Statuses] /\ Ping!Task(s, s.current).id = s.current
    BY <1>1, <1>3, <1>4, <1>5
<1>7. QED
    BY <1>1, <1>3, <1>5, <1>6

(* What a request asks with.                                               *)
LEMMA PingCall ==
    ASSUME NEW k \in PingKinds, NEW a \in Runs \cup {0}
    PROVE  /\ Ping!Call(k, a) \in PingCalls /\ Ping!Call(k, a).kind = k /\ Ping!Call(k, a).arg = a
           /\ Ping!Call(k, a).got = Ping!NoAnswer /\ Ping!Call(k, a).list = {}
BY DEF Ping!Call, PingCalls, Ping!Types

(* A request for a type is one.                                            *)
LEMMA PingTyped ==
    ASSUME NEW k \in PingKinds, NEW t \in Ping!Types
    PROVE  /\ Ping!OfType(k, t) \in PingCalls /\ Ping!OfType(k, t).kind = k /\ Ping!OfType(k, t).arg = 0
           /\ Ping!OfType(k, t).type = t /\ Ping!OfType(k, t).got = Ping!NoAnswer /\ Ping!OfType(k, t).list = {}
<1> DEFINE c == Ping!Call(k, 0)
<1>1. /\ c \in PingCalls /\ c.kind = k /\ c.arg = 0 /\ c.got = Ping!NoAnswer /\ c.list = {}
    BY PingCall
<1>2. Ping!OfType(k, t) = [c EXCEPT !.type = t]
    BY DEF Ping!OfType
<1> HIDE DEF c
<1>3. QED
    BY <1>1, <1>2 DEF PingCalls

(* It holds when the dialog is opened.                                     *)
LEMMA PingInit == ASSUME Ping!Init PROVE PingInv
<1>1. PICK n \in Runs \cup {0}, types \in [Runs -> Ping!Types], last \in {"completed", "running"} :
          \E current \in {0, n} :
             /\ last = "running" => current = n /\ n # 0
             /\ x1 = [runs |-> [r \in Runs |-> [type |-> types[r],
                                                   status |-> IF r < n THEN "completed"
                                                              ELSE IF r = n THEN last ELSE "none"]],
                          current |-> current]
    BY DEF Ping!Init
<1>2. PICK current \in {0, n} :
          x1 = [runs |-> [r \in Runs |-> [type |-> types[r],
                                             status |-> IF r < n THEN "completed"
                                                        ELSE IF r = n THEN last ELSE "none"]],
                    current |-> current]
    BY <1>1
<1>3. n \in Int /\ Runs \subseteq Int
    <2>1. Cardinality(Runs) \in Nat
        BY RunsAssumption, FS_CardinalityType
    <2>2. QED
        BY <2>1, RunsAssumption
<1>4. PingServed(x1)
    <2>1. x1.current = current /\ \A r \in Runs : /\ x1.runs[r].type = types[r]
                                                     /\ x1.runs[r].status = IF r < n THEN "completed" ELSE IF r = n THEN last ELSE "none"
        BY <1>2
    <2>2. x1 \in Ping!Servers
        BY <1>2 DEF Ping!Servers, Ping!Statuses
    <2>3. x1.current # 0 => x1.current = n /\ n \in Runs
        BY <2>1
    <2>4. x1.current # 0 => x1.runs[x1.current].status = last
        BY <1>3, <2>1, <2>3
    <2>5. QED
        BY <2>2, <2>4 DEF PingServed
<1>5. /\ x2 = {} /\ x3 = [r \in Runs |-> "none"] /\ x4 = Ping!NoTask /\ x5 = "e2e" /\ x6 = "none"
      /\ busy = {"load"} /\ calls = {Ping!Call("init", 0)} /\ x7 = FALSE /\ steps = 0
    BY DEF Ping!Init
<1>6. PingShown
    <2>1. x4 \in [id : Runs \cup {0}, status : Ping!Statuses] /\ x4.id = 0
        BY <1>5 DEF Ping!NoTask, Ping!Statuses
    <2>2. x3 \in [Runs -> Ping!Statuses]
        BY <1>5 DEF Ping!Statuses
    <2>3. steps \in 0..MaxSteps
        BY <1>5
    <2>4. x5 \in Ping!Types /\ x2 \subseteq Runs
        BY <1>5 DEF Ping!Types
    <2>5. /\ x6 \in {"none", "history", "export"} /\ busy \subseteq {"load", "action"}
          /\ x7 \in BOOLEAN /\ \A r \in x2 : PingStarted(r)
        BY <1>5
    <2>6. QED
        BY <2>1, <2>2, <2>3, <2>4, <2>5 DEF PingShown
<1>7. /\ Ping!Call("init", 0) \in PingCalls /\ Ping!Call("init", 0).kind = "init" /\ Ping!Call("init", 0).arg = 0
      /\ Ping!Call("init", 0).got = Ping!NoAnswer /\ Ping!Call("init", 0).list = {}
    BY PingCall DEF PingKinds
<1>8. \A c \in calls : PingCalled(c)
    BY <1>5, <1>7 DEF PingCalled
<1>9. Ping!NoDeadButton
    BY <1>5, <1>7 DEF Ping!NoDeadButton
<1>10. PingAlone
    BY <1>5 DEF PingAlone
<1>11. x4.id = 0
    BY <1>5 DEF Ping!NoTask
<1>12. PingTabbed
    BY <1>5, <1>7, <1>11 DEF PingTabbed, PingOfTab
<1>13. QED
    BY <1>4, <1>6, <1>8, <1>9, <1>10, <1>12 DEF PingInv

(* The invariant, unfolded.                                                *)
LEMMA PingHas ==
    ASSUME PingInv
    PROVE  /\ PingServed(x1) /\ (\A c \in calls : PingCalled(c)) /\ Ping!NoDeadButton /\ PingAlone /\ PingTabbed
           /\ x2 \subseteq Runs /\ x3 \in [Runs -> Ping!Statuses] /\ x5 \in Ping!Types
           /\ x4 \in [id : Runs \cup {0}, status : Ping!Statuses] /\ x4.id \in Runs \cup {0}
           /\ x6 \in {"none", "history", "export"}
           /\ busy \subseteq {"load", "action"} /\ x7 \in BOOLEAN /\ steps \in 0..MaxSteps
           /\ (x4.id # 0 => PingStarted(x4.id)) /\ (\A r \in x2 : PingStarted(r))
           /\ (\A c \in calls : c \in PingCalls /\ c.kind \in PingKinds /\ c.arg \in Runs \cup {0}
                             /\ c.type \in Ping!Types /\ c.list \subseteq Runs)
<1>1. /\ PingServed(x1) /\ PingShown /\ (\A c \in calls : PingCalled(c)) /\ Ping!NoDeadButton /\ PingAlone /\ PingTabbed
    BY DEF PingInv
<1>2. ASSUME NEW c \in calls
      PROVE  c \in PingCalls /\ c.kind \in PingKinds /\ c.arg \in Runs \cup {0} /\ c.type \in Ping!Types /\ c.list \subseteq Runs
    BY <1>1 DEF PingCalled, PingCalls
<1>3. x4.id \in Runs \cup {0}
    BY <1>1 DEF PingShown
<1>4. QED
    BY <1>1, <1>2, <1>3 DEF PingShown

(* What a step leaves known: nothing of the server changes, and requests   *)
(* come and go.                                                            *)
LEMMA PingFrame ==
    ASSUME PingInv, x1' = x1,
           x2' \subseteq Runs, x3' \in [Runs -> Ping!Statuses], x5' \in Ping!Types,
           x4' \in [id : Runs \cup {0}, status : Ping!Statuses], x6' \in {"none", "history", "export"},
           busy' \subseteq {"load", "action"}, x7' \in BOOLEAN, steps' \in 0..MaxSteps,
           x4'.id # 0 => PingStarted(x4'.id), \A r \in x2' : PingStarted(r),
           \A c \in calls' : c \in calls \/ (PingCalled(c) /\ c.got = Ping!NoAnswer)
    PROVE  PingServed(x1)' /\ PingShown' /\ (\A c \in calls : PingCalled(c))'
<1>1. PingServed(x1) /\ \A c \in calls : PingCalled(c)
    BY PingHas
<1>2. \A r : PingStarted(r)' = PingStarted(r)
    BY DEF PingStarted
<1>3. PingServed(x1)'
    BY <1>1 DEF PingServed, Ping!Servers, Ping!Types, Ping!Statuses
<1>4. PingShown'
    <2>1. (x4.id # 0 => PingStarted(x4.id))' /\ (\A r \in x2 : PingStarted(r))'
        BY DEF PingStarted
    <2>2. QED
        BY <2>1 DEF PingShown, Ping!Statuses, Ping!Types
<1>5. \A c \in calls' : PingCalled(c)
    BY <1>1
<1>6. \A c \in calls' : PingCalled(c)'
    BY <1>5 DEF PingCalled, PingStarted, PingServed, PingCalls, Ping!Servers, Ping!NoAnswer, PingKinds, Ping!Types, Ping!Statuses
<1>7. QED
    BY <1>3, <1>4, <1>6

(* A step that is no request of the operator, and no answer to one.        *)
LEMMA PingQuiet ==
    ASSUME PingInv, UNCHANGED <<x1, x5>>, x4'.id = x4.id, busy' = busy, x7' \in BOOLEAN, x7 => x7',
           \A c \in calls' : c \in calls \/ c.kind \notin PingOps,
           \A c \in calls : c \in calls' \/ c.kind \notin PingOps
    PROVE  Ping!NoDeadButton' /\ PingAlone' /\ PingTabbed'
<1>1. Ping!NoDeadButton /\ PingAlone /\ PingTabbed
    BY PingHas
<1>2. /\ \A k \in {"init", "initTask", "run", "cancel", "current", "type", "task", "delete", "next"} : k \in PingOps
    BY DEF PingOps, PingKinds
<1>3. \A c \in calls : c.kind \in {"init", "initTask", "run", "cancel", "current", "type", "task", "delete", "next"} => c \in calls'
    BY <1>2
<1>4. \A c \in calls' : c.kind \in {"init", "initTask", "run", "cancel", "current", "type", "task", "delete", "next"} => c \in calls
    BY <1>2
<1>5. Ping!NoDeadButton'
    BY <1>1, <1>3 DEF Ping!NoDeadButton
<1>6. PingAlone'
    BY <1>1 DEF PingAlone, PingOps, PingKinds
<1>7. PingTabbed'
    <2>1. SUFFICES ASSUME ~x7'
          PROVE  /\ \A c \in calls' : PingOfTab(c)'
                 /\ \/ x4'.id = 0 \/ Ping!TypeOf(x4'.id) = x5
                    \/ \E c \in calls' : c.kind \in {"type", "task"}
        BY DEF PingTabbed, Ping!TypeOf
    <2>2. /\ \A c \in calls : PingOfTab(c)
          /\ x4.id = 0 \/ Ping!TypeOf(x4.id) = x5 \/ \E c \in calls : c.kind \in {"type", "task"}
        BY <1>1, <2>1 DEF PingTabbed
    <2>3. ASSUME NEW c \in calls' PROVE PingOfTab(c)'
        <3>1. CASE c \in calls
            <4>1. PingOfTab(c)
                BY <2>2, <3>1
            <4>2. QED
                BY <4>1 DEF PingOfTab, Ping!TypeOf
        <3>2. CASE c \notin calls
            BY <1>4, <3>2 DEF PingOfTab
        <3>3. QED
            BY <3>1, <3>2
    <2>4. QED
        BY <1>3, <2>2, <2>3
<1>8. QED
    BY <1>5, <1>6, <1>7

(* A request of the operator is made, is answered for good, or is followed *)
(* by another one.                                                         *)
LEMMA PingAsked ==
    ASSUME PingInv, x1' = x1, x7' \in BOOLEAN,
           NEW n, x7' \/ \A c \in calls' : c.kind \in PingOps => c = n,
           x7' \/ (n \in calls' => PingOfTab(n)'),
           x7' \/ x4'.id = 0 \/ Ping!TypeOf(x4'.id) = x5' \/ (n \in calls' /\ n.kind \in {"type", "task"})
    PROVE  PingAlone' /\ PingTabbed'
<1>1. PingAlone'
    BY DEF PingAlone, PingOps, PingKinds
<1>2. PingTabbed'
    <2>1. SUFFICES ASSUME ~x7'
          PROVE  /\ \A c \in calls' : PingOfTab(c)'
                 /\ \/ x4'.id = 0 \/ Ping!TypeOf(x4'.id) = x5'
                    \/ \E c \in calls' : c.kind \in {"type", "task"}
        BY DEF PingTabbed, Ping!TypeOf
    <2>2. ASSUME NEW c \in calls' PROVE PingOfTab(c)'
        <3>1. CASE c.kind \in PingOps
            <4>1. c = n
                BY <2>1, <3>1
            <4>2. QED
                BY <2>1, <4>1
        <3>2. CASE c.kind \notin PingOps
            BY <3>2 DEF PingOfTab, PingOps, PingKinds
        <3>3. QED
            BY <3>1, <3>2
    <2>3. QED
        BY <2>1, <2>2
<1>3. QED
    BY <1>1, <1>2

(* An operator's request under way is the only one, unless they crossed.   *)
LEMMA PingOnly ==
    ASSUME PingInv, NEW c \in calls, c.kind \in PingOps, x7 => x7'
    PROVE  x7' \/ (PingOfTab(c) /\ \A d \in calls \ {c} : d.kind \notin PingOps)
BY PingHas DEF PingAlone, PingTabbed

(* The button of a request answered for good is free again.                *)
LEMMA PingFrees ==
    ASSUME PingInv, NEW c, \A d \in calls \ {c} : d \in calls', busy' \subseteq busy,
           c.kind \in {"init", "initTask", "type", "task"} =>
               "load" \notin busy' \/ \E n \in calls' : n.kind \in {"init", "initTask", "type", "task"},
           c.kind \in {"run", "cancel", "current"} =>
               "action" \notin busy' \/ \E n \in calls' : n.kind \in {"run", "cancel", "current"}
    PROVE  Ping!NoDeadButton'
BY PingHas DEF Ping!NoDeadButton

(* The server moves on, and forgets neither a run nor its type.            *)
LEMMA PingServer ==
    ASSUME PingInv, PingServed(x1)', UNCHANGED <<x2, x3, x4, x5, x6, busy, x7, steps>>,
           \A r \in Runs : PingStarted(r) => PingStarted(r)' /\ x1'.runs[r].type = x1.runs[r].type
    PROVE  /\ PingShown' /\ \A c \in calls : PingCalled(c)' /\ (PingOfTab(c) => PingOfTab(c)')
           /\ x4.id = 0 \/ Ping!TypeOf(x4.id) = x5 => x4'.id = 0 \/ Ping!TypeOf(x4.id)' = x5'
<1>1. PingShown'
    BY PingHas DEF PingShown, Ping!Statuses, Ping!Types
<1>2. ASSUME NEW c \in calls PROVE PingCalled(c)' /\ (PingOfTab(c) => PingOfTab(c)')
    <2>1. /\ PingCalled(c) /\ c \in PingCalls /\ c.arg \in Runs \cup {0} /\ c.list \subseteq Runs
        BY PingHas
    <2>2. /\ c.arg # 0 => PingStarted(c.arg)
          /\ c.kind = "delete" => c.arg # 0
          /\ \A r \in c.list : PingStarted(r)
          /\ c.got # Ping!NoAnswer =>
                /\ PingServed(c.got)
                /\ \A r \in Runs : c.got.runs[r].status # "none" => PingStarted(r)
                /\ c.arg # 0 /\ c.kind \in {"initTask", "prefetch", "task", "next"} =>
                      c.got.runs[c.arg].status # "deleted"
        BY <2>1 DEF PingCalled
    <2>3. /\ c.arg # 0 => PingStarted(c.arg)'
          /\ \A r \in c.list : PingStarted(r)'
          /\ \A r \in Runs : c.got # Ping!NoAnswer /\ c.got.runs[r].status # "none" => PingStarted(r)'
        BY <2>1, <2>2
    <2>4. PingCalled(c)'
        <3>1. /\ (c \in PingCalls)' /\ (c.got # Ping!NoAnswer)' = (c.got # Ping!NoAnswer)
              /\ PingServed(c.got)' = PingServed(c.got)
            BY <2>1 DEF PingCalls, PingServed, Ping!NoAnswer, Ping!Servers, PingKinds, Ping!Types, Ping!Statuses
        <3>2. QED
            BY <2>2, <2>3, <3>1 DEF PingCalled, PingStarted
    <2>5. PingOfTab(c) => PingOfTab(c)'
        BY <2>1, <2>2 DEF PingOfTab, Ping!TypeOf
    <2>6. QED
        BY <2>4, <2>5
<1>3. x4.id = 0 \/ Ping!TypeOf(x4.id) = x5 => x4'.id = 0 \/ Ping!TypeOf(x4.id)' = x5'
    BY PingHas DEF Ping!TypeOf
<1>4. QED
    BY <1>1, <1>2, <1>3

(* A run is started if none is running, is cancelled, or is deleted.       *)
LEMMA PingWork ==
    ASSUME PingInv, NEW t \in Ping!Types, NEW a,
           Ping!RunPingTable(t) \/ Ping!CancelPingTable \/ (a \in Runs /\ Ping!DeletePingTableTask(a)) \/ x1' = x1
    PROVE  /\ PingServed(x1)'
           /\ \A r \in Runs : PingStarted(r) => PingStarted(r)' /\ x1'.runs[r].type = x1.runs[r].type
<1> DEFINE Run == [type : Ping!Types, status : Ping!Statuses \cup {"deleted"}]
<1>1. /\ x1 \in [runs : [Runs -> Run], current : Runs \cup {0}]
      /\ x1.current # 0 => x1.runs[x1.current].status \notin {"none", "deleted"}
    BY PingHas DEF PingServed, Ping!Servers
<1>2. /\ x1.runs \in [Runs -> Run] /\ x1.current \in Runs \cup {0}
      /\ \A r \in Runs : x1.runs[r] \in Run
    BY <1>1
<1>3. SUFFICES /\ x1' \in [runs : [Runs -> Run], current : Runs \cup {0}]
               /\ x1'.current # 0 => x1'.runs[x1'.current].status \notin {"none", "deleted"}
               /\ \A r \in Runs : x1.runs[r].status # "none" =>
                     x1'.runs[r].status # "none" /\ x1'.runs[r].type = x1.runs[r].type
    <2>1. PingServed(x1') => PingServed(x1)'
        BY DEF PingServed, Ping!Servers, Ping!Types, Ping!Statuses
    <2>2. QED
        BY <2>1 DEF PingServed, PingStarted, Ping!Servers
<1>4. CASE x1' = x1
    BY <1>1, <1>4
<1>5. ASSUME NEW q \in Runs, x1.runs[q].status = "none",
             x1' = [x1 EXCEPT !.runs[q] = [type |-> t, status |-> "running"], !.current = q]
      PROVE  /\ x1' \in [runs : [Runs -> Run], current : Runs \cup {0}]
             /\ x1'.current # 0 => x1'.runs[x1'.current].status \notin {"none", "deleted"}
             /\ \A r \in Runs : x1.runs[r].status # "none" =>
                   x1'.runs[r].status # "none" /\ x1'.runs[r].type = x1.runs[r].type
    <2>1. [type |-> t, status |-> "running"] \in Run
        BY DEF Ping!Statuses
    <2>2. /\ x1'.current = q
          /\ x1'.runs = [x1.runs EXCEPT ![q] = [type |-> t, status |-> "running"]]
          /\ x1' = [runs |-> x1'.runs, current |-> x1'.current]
        BY <1>1, <1>5
    <2>3. x1'.runs \in [Runs -> Run]
        BY <1>2, <2>1, <2>2
    <2>4. x1'.runs[q].status = "running" /\ \A r \in Runs \ {q} : x1'.runs[r] = x1.runs[r]
        BY <1>2, <2>2
    <2>5. QED
        BY <1>5, <2>2, <2>3, <2>4
<1>6. CASE Ping!RunPingTable(t)
    BY <1>4, <1>5, <1>6 DEF Ping!RunPingTable
<1>7. ASSUME NEW q \in Runs, NEW st \in Ping!Statuses \cup {"deleted"}, NEW cur \in Runs \cup {0},
             st # "none", cur # 0 => cur = x1.current, cur = q => st # "deleted",
             x1' = [x1 EXCEPT !.runs[q].status = st, !.current = cur]
      PROVE  /\ x1' \in [runs : [Runs -> Run], current : Runs \cup {0}]
             /\ x1'.current # 0 => x1'.runs[x1'.current].status \notin {"none", "deleted"}
             /\ \A r \in Runs : x1.runs[r].status # "none" =>
                   x1'.runs[r].status # "none" /\ x1'.runs[r].type = x1.runs[r].type
    <2> DEFINE run == [x1.runs[q] EXCEPT !.status = st]
    <2>1. run \in Run /\ run.status = st /\ run.type = x1.runs[q].type
        BY <1>2
    <2>2. /\ x1'.current = cur
          /\ x1'.runs = [x1.runs EXCEPT ![q].status = st]
          /\ x1' = [runs |-> x1'.runs, current |-> x1'.current]
        BY <1>1, <1>7
    <2>3. x1'.runs[q] = run /\ \A r \in Runs \ {q} : x1'.runs[r] = x1.runs[r]
        BY <1>2, <2>2
    <2>4. x1'.runs \in [Runs -> Run]
        <3>1. \A r \in Runs : x1'.runs[r] \in Run
            BY <1>2, <2>1, <2>3
        <3>2. x1'.runs = [r \in Runs |-> x1'.runs[r]]
            BY <1>2, <2>2
        <3>3. QED
            BY <3>1, <3>2
    <2> HIDE DEF run
    <2>5. x1'.current # 0 => x1'.runs[x1'.current].status \notin {"none", "deleted"}
        <3>1. CASE cur = q
            BY <1>7, <2>1, <2>2, <2>3, <3>1
        <3>2. CASE cur # q /\ cur # 0
            <4>1. cur \in Runs \ {q} /\ cur = x1.current
                BY <1>7, <3>2
            <4>2. x1'.runs[cur] = x1.runs[cur]
                BY <2>3, <4>1
            <4>3. QED
                BY <1>1, <2>2, <3>2, <4>1, <4>2
        <3>3. QED
            BY <2>2, <3>1, <3>2
    <2>6. x1' \in [runs : [Runs -> Run], current : Runs \cup {0}]
        BY <2>2, <2>4
    <2>7. ASSUME NEW r \in Runs, x1.runs[r].status # "none"
          PROVE  x1'.runs[r].status # "none" /\ x1'.runs[r].type = x1.runs[r].type
        BY <1>7, <2>1, <2>3, <2>7
    <2>8. QED
        BY <2>5, <2>6, <2>7
<1>8. CASE Ping!CancelPingTable
    <2>1. CASE Ping!Running(x1)
        <3>1. x1' = [x1 EXCEPT !.runs[x1.current].status = "cancelled"]
            BY <1>8, <2>1 DEF Ping!CancelPingTable
        <3>2. x1' = [x1 EXCEPT !.runs[x1.current].status = "cancelled", !.current = x1.current]
            BY <1>1, <3>1
        <3>3. x1.current \in Runs /\ "cancelled" \in Ping!Statuses \cup {"deleted"}
            BY <1>2, <2>1 DEF Ping!Running, Ping!Statuses
        <3>4. "cancelled" # "none" /\ "cancelled" # "deleted"
            OBVIOUS
        <3>5. PICK cur : cur = x1.current
            OBVIOUS
        <3>6. cur \in Runs \cup {0} /\ x1' = [x1 EXCEPT !.runs[cur].status = "cancelled", !.current = cur]
            BY <3>2, <3>3, <3>5
        <3>7. QED
            BY <1>7, <3>3, <3>4, <3>5, <3>6
    <2>2. CASE ~Ping!Running(x1)
        BY <1>4, <1>8, <2>2 DEF Ping!CancelPingTable
    <2>3. QED
        BY <2>1, <2>2
<1>9. CASE a \in Runs /\ Ping!DeletePingTableTask(a)
    <2>1. a # 0
        BY <1>9, PingRuns
    <2>2. PICK cur \in Runs \cup {0} : cur = IF x1.current = a THEN 0 ELSE x1.current
        BY <1>2
    <2>3. (cur # 0 => cur = x1.current) /\ (cur = a => FALSE)
        BY <2>1, <2>2
    <2>4. x1' = [x1 EXCEPT !.runs[a].status = "deleted", !.current = cur]
        BY <1>9, <2>2 DEF Ping!DeletePingTableTask
    <2>5. a \in Runs /\ "deleted" \in Ping!Statuses \cup {"deleted"} /\ "deleted" # "none"
        BY <1>9
    <2>6. QED
        BY <1>7, <2>3, <2>4, <2>5
<1>10. QED
    BY <1>4, <1>6, <1>8, <1>9

(* The server answers.                                                     *)
LEMMA PingServes == ASSUME PingInv, NEW c \in calls, Ping!Serve(c) PROVE PingInv'
<1>1. /\ c.got = Ping!NoAnswer
      /\ c.arg \in Runs /\ c.kind # "poll" => x1.runs[c.arg].status # "deleted"
      /\ CASE c.kind = "run" -> Ping!RunPingTable(c.type)
           [] c.kind = "cancel" -> Ping!CancelPingTable
           [] c.kind = "delete" -> Ping!DeletePingTableTask(c.arg)
           [] OTHER -> x1' = x1
      /\ calls' = (calls \ {c}) \cup {[c EXCEPT !.got = x1']}
      /\ UNCHANGED <<x2, x3, x4, x5, x6, busy, x7, steps>>
    BY DEF Ping!Serve
<1>2. /\ c \in PingCalls /\ PingCalled(c) /\ c.type \in Ping!Types /\ c.arg \in Runs \cup {0} /\ c.kind \in PingKinds
    BY PingHas
<1>3. c.kind = "delete" => c.arg \in Runs
    BY <1>2 DEF PingCalled
<1>4. \/ Ping!RunPingTable(c.type) \/ Ping!CancelPingTable \/ (c.arg \in Runs /\ Ping!DeletePingTableTask(c.arg))
      \/ x1' = x1
    BY <1>1, <1>3
<1>5. /\ PingServed(x1)'
      /\ \A r \in Runs : PingStarted(r) => PingStarted(r)' /\ x1'.runs[r].type = x1.runs[r].type
    BY <1>2, <1>4, PingWork
<1>6. /\ PingShown' /\ \A d \in calls : PingCalled(d)' /\ (PingOfTab(d) => PingOfTab(d)')
      /\ x4.id = 0 \/ Ping!TypeOf(x4.id) = x5 => x4'.id = 0 \/ Ping!TypeOf(x4.id)' = x5'
    BY <1>1, <1>5, PingServer
<1>7. x1' \in Ping!Servers
    BY <1>5 DEF PingServed, Ping!Servers, Ping!Types, Ping!Statuses
<1>8. PICK n : n = [c EXCEPT !.got = x1']
    OBVIOUS
<1>9. /\ n \in PingCalls /\ n.kind = c.kind /\ n.arg = c.arg /\ n.type = c.type /\ n.list = c.list
      /\ n.got = x1'
    BY <1>2, <1>7, <1>8 DEF PingCalls
<1>10. calls' = (calls \ {c}) \cup {n}
    BY <1>1, <1>8
<1>11. PingCalled(n)'
    <2>1. PingCalled(c)'
        BY <1>6
    <2>2. PingServed(x1')
        BY <1>5 DEF PingServed, Ping!Servers, Ping!Types, Ping!Statuses
    <2>3. c.arg # 0 /\ c.kind \in {"initTask", "prefetch", "task", "next"} => x1'.runs[c.arg].status # "deleted"
        BY <1>1, <1>2
    <2>4. /\ n.arg # 0 => PingStarted(n.arg)'
          /\ n.kind = "delete" => n.arg # 0
          /\ \A r \in n.list : PingStarted(r)'
        BY <1>9, <2>1 DEF PingCalled, PingStarted
    <2>5. \A r \in Runs : n.got.runs[r].status # "none" => PingStarted(r)'
        BY <1>9 DEF PingStarted
    <2>6. /\ PingServed(n.got)
          /\ n.arg # 0 /\ n.kind \in {"initTask", "prefetch", "task", "next"} => n.got.runs[n.arg].status # "deleted"
        BY <1>9, <2>2, <2>3
    <2>7. (n \in PingCalls)' /\ PingServed(n.got)' = PingServed(n.got)
        BY <1>9 DEF PingCalls, PingServed, Ping!NoAnswer, Ping!Servers, PingKinds, Ping!Types, Ping!Statuses
    <2>8. QED
        BY <2>4, <2>5, <2>6, <2>7 DEF PingCalled, PingStarted, Ping!NoAnswer
<1>12. \A d \in calls' : PingCalled(d)'
    BY <1>6, <1>10, <1>11
<1>13. Ping!NoDeadButton'
    BY <1>1, <1>9, <1>10, PingHas DEF Ping!NoDeadButton
<1>14. PingAlone'
    BY <1>1, <1>9, <1>10, PingHas DEF PingAlone, PingOps, PingKinds
<1>15. PingTabbed'
    <2>1. SUFFICES ASSUME ~x7
          PROVE  /\ \A d \in calls' : PingOfTab(d)'
                 /\ \/ x4'.id = 0 \/ Ping!TypeOf(x4.id)' = x5'
                    \/ \E d \in calls' : d.kind \in {"type", "task"}
        BY <1>1 DEF PingTabbed, Ping!TypeOf
    <2>2. /\ \A d \in calls : PingOfTab(d)
          /\ x4.id = 0 \/ Ping!TypeOf(x4.id) = x5 \/ \E d \in calls : d.kind \in {"type", "task"}
        BY <2>1, PingHas DEF PingTabbed
    <2>3. \A d \in calls : PingOfTab(d)'
        BY <1>6, <2>2
    <2>4. PingOfTab(n)'
        BY <1>9, <2>3 DEF PingOfTab, Ping!TypeOf
    <2>5. (\E d \in calls : d.kind \in {"type", "task"}) => \E d \in calls' : d.kind \in {"type", "task"}
        BY <1>9, <1>10
    <2>6. QED
        BY <1>6, <1>10, <2>2, <2>3, <2>4, <2>5
<1>16. QED
    BY <1>5, <1>6, <1>12, <1>13, <1>14, <1>15 DEF PingInv

(* A run ends on the server.                                               *)
LEMMA PingEnds == ASSUME PingInv, Ping!RunEnds PROVE PingInv'
<1>1. /\ Ping!Running(x1) /\ x1' = [x1 EXCEPT !.runs[x1.current].status = "completed"]
      /\ UNCHANGED <<x2, x3, x4, x5, x6, busy, calls, x7, steps>>
    BY DEF Ping!RunEnds
<1> DEFINE Run == [type : Ping!Types, status : Ping!Statuses \cup {"deleted"}]
           cur == x1.current
           run == [x1.runs[cur] EXCEPT !.status = "completed"]
<1>2. /\ x1 \in [runs : [Runs -> Run], current : Runs \cup {0}]
      /\ x1.runs \in [Runs -> Run] /\ cur \in Runs /\ x1.runs[cur] \in Run
      /\ x1.runs[cur].status # "none"
    BY <1>1, PingHas DEF PingServed, Ping!Servers, Ping!Running
<1>3. run \in Run /\ run.status = "completed" /\ run.type = x1.runs[cur].type
    BY <1>2 DEF Ping!Statuses
<1>4. /\ x1'.current = cur /\ x1'.runs = [x1.runs EXCEPT ![cur].status = "completed"]
      /\ x1' = [runs |-> x1'.runs, current |-> x1'.current]
    BY <1>1, <1>2
<1>5. x1'.runs[cur] = run /\ \A r \in Runs \ {cur} : x1'.runs[r] = x1.runs[r]
    BY <1>2, <1>4
<1>6. x1'.runs \in [Runs -> Run]
    <2>1. \A r \in Runs : x1'.runs[r] \in Run
        BY <1>2, <1>3, <1>5
    <2>2. x1'.runs = [r \in Runs |-> x1'.runs[r]]
        BY <1>2, <1>4
    <2>3. QED
        BY <2>1, <2>2
<1> HIDE DEF run
<1>7. PingServed(x1)'
    <2>1. x1' \in Ping!Servers
        BY <1>2, <1>4, <1>6 DEF Ping!Servers
    <2>2. x1'.runs[x1'.current].status = "completed"
        BY <1>3, <1>4, <1>5
    <2>3. QED
        BY <2>1, <2>2 DEF PingServed, Ping!Servers, Ping!Types, Ping!Statuses
<1>8. \A r \in Runs : PingStarted(r) => PingStarted(r)' /\ x1'.runs[r].type = x1.runs[r].type
    BY <1>3, <1>5 DEF PingStarted
<1>9. /\ PingShown' /\ \A d \in calls : PingCalled(d)' /\ (PingOfTab(d) => PingOfTab(d)')
      /\ x4.id = 0 \/ Ping!TypeOf(x4.id) = x5 => x4'.id = 0 \/ Ping!TypeOf(x4.id)' = x5'
    BY <1>1, <1>7, <1>8, PingServer
<1>10. Ping!NoDeadButton' /\ PingAlone'
    BY <1>1, PingHas DEF Ping!NoDeadButton, PingAlone, PingOps, PingKinds
<1>11. PingTabbed'
    <2>1. SUFFICES ASSUME ~x7
          PROVE  /\ \A d \in calls' : PingOfTab(d)'
                 /\ \/ x4'.id = 0 \/ Ping!TypeOf(x4.id)' = x5'
                    \/ \E d \in calls' : d.kind \in {"type", "task"}
        BY <1>1 DEF PingTabbed, Ping!TypeOf
    <2>2. /\ \A d \in calls : PingOfTab(d)
          /\ x4.id = 0 \/ Ping!TypeOf(x4.id) = x5 \/ \E d \in calls : d.kind \in {"type", "task"}
        BY <2>1, PingHas DEF PingTabbed
    <2>3. QED
        BY <1>1, <1>9, <2>2
<1>12. QED
    BY <1>1, <1>7, <1>9, <1>10, <1>11 DEF PingInv

(* What an answer tells can be shown.                                      *)
LEMMA PingGot ==
    ASSUME PingInv, NEW c \in calls, c.got # Ping!NoAnswer
    PROVE  /\ \A h \in Ping!Histories(c.got) : h \subseteq Runs /\ \A r \in h : PingStarted(r)
           /\ \A a \in Ping!Actives(c.got) : /\ a \in [id : Runs \cup {0}, status : Ping!Statuses]
                                             /\ a.id \in Runs \cup {0} /\ (a.id # 0 => PingStarted(a.id))
           /\ Ping!Task(c.got, c.got.current) \in [id : Runs \cup {0}, status : Ping!Statuses]
           /\ Ping!Task(c.got, c.got.current).id = c.got.current
           /\ c.got.current \in Runs \cup {0} /\ (c.got.current # 0 => PingStarted(c.got.current))
           /\ c.kind \in {"initTask", "prefetch", "task", "next"} =>
                  /\ Ping!Task(c.got, c.arg) \in [id : Runs \cup {0}, status : Ping!Statuses]
                  /\ Ping!Task(c.got, c.arg).id = c.arg
           /\ c.arg # 0 => PingStarted(c.arg)
<1>1. /\ PingServed(c.got) /\ c.arg \in Runs \cup {0} /\ (c.arg # 0 => PingStarted(c.arg))
      /\ \A r \in Runs : c.got.runs[r].status # "none" => PingStarted(r)
      /\ c.arg # 0 /\ c.kind \in {"initTask", "prefetch", "task", "next"} =>
             c.got.runs[c.arg].status # "deleted"
    <2>1. PingCalled(c) /\ c.arg \in Runs \cup {0}
        BY PingHas
    <2>2. QED
        BY <2>1 DEF PingCalled
<1>2. /\ Ping!Task(c.got, c.got.current) \in [id : Runs \cup {0}, status : Ping!Statuses]
      /\ Ping!Task(c.got, c.got.current).id = c.got.current /\ c.got.current \in Runs \cup {0}
      /\ Ping!Task(c.got, 0) = Ping!NoTask
      /\ \A r \in Runs : c.got.runs[r].status # "deleted" =>
             Ping!Task(c.got, r) \in [id : Runs \cup {0}, status : Ping!Statuses] /\ Ping!Task(c.got, r).id = r
    BY <1>1, PingTask
<1>3. c.got.current # 0 => PingStarted(c.got.current)
    BY <1>1, <1>2 DEF PingServed
<1>4. Ping!NoTask \in [id : Runs \cup {0}, status : Ping!Statuses] /\ Ping!NoTask.id = 0
    BY DEF Ping!NoTask, Ping!Statuses
<1>5. \A h \in Ping!Histories(c.got) : h \subseteq Runs /\ \A r \in h : PingStarted(r)
    BY <1>1 DEF Ping!Histories, Ping!GetPingTableHistory
<1>6. \A a \in Ping!Actives(c.got) : /\ a \in [id : Runs \cup {0}, status : Ping!Statuses]
                               /\ a.id \in Runs \cup {0} /\ (a.id # 0 => PingStarted(a.id))
    BY <1>2, <1>3, <1>4 DEF Ping!Actives
<1>7. c.kind \in {"initTask", "prefetch", "task", "next"} =>
          /\ Ping!Task(c.got, c.arg) \in [id : Runs \cup {0}, status : Ping!Statuses]
          /\ Ping!Task(c.got, c.arg).id = c.arg
    BY <1>1, <1>2, <1>4
<1>8. QED
    BY <1>1, <1>2, <1>3, <1>5, <1>6, <1>7

(* What is held of a run that is shown.                                    *)
LEMMA PingCached ==
    ASSUME PingInv, NEW task \in [id : Runs \cup {0}, status : Ping!Statuses]
    PROVE  Ping!Cached(task) \in [Runs -> Ping!Statuses]
BY PingHas DEF Ping!Cached

(* A request that is sent for a run there is.                              *)
LEMMA PingAsk ==
    ASSUME PingInv, NEW k \in PingKinds \ {"delete"}, NEW a \in Runs \cup {0}, a # 0 => PingStarted(a)
    PROVE  PingCalled(Ping!Call(k, a)) /\ Ping!Call(k, a).got = Ping!NoAnswer /\ Ping!Call(k, a).kind = k /\ Ping!Call(k, a).arg = a
BY PingCall DEF PingCalled

(* Those sent ahead for the other types.                                   *)
LEMMA PingAhead ==
    ASSUME PingInv, NEW h \in SUBSET Runs, \A r \in h : PingStarted(r), NEW t, NEW n \in Ping!Prefetch(h, t)
    PROVE  PingCalled(n) /\ n.got = Ping!NoAnswer /\ n.kind = "prefetch"
<1> DEFINE other == Ping!Newest(h, CHOOSE o \in Ping!Types : o # t)
<1>1. n = Ping!Call("prefetch", other) /\ other # 0
    BY DEF Ping!Prefetch
<1>2. other \in h \cup {0}
    BY PingNewest
<1>3. PingStarted(other) /\ other \in Runs \cup {0}
    BY <1>1, <1>2
<1> HIDE DEF other
<1>4. QED
    BY <1>1, <1>3, PingAsk DEF PingKinds

(* The list the dialog opens with.                                         *)
LEMMA PingInitArrives == ASSUME PingInv, NEW c \in calls, Ping!InitArrives(c) PROVE PingInv'
<1>1. c.kind = "init" /\ c.got # Ping!NoAnswer
    BY DEF Ping!InitArrives, Ping!Arrived
<1>2. PICK h \in Ping!Histories(c.got), a \in Ping!Actives(c.got) :
        LET latest == IF Ping!Newest(h, "e2e") # 0 THEN Ping!Newest(h, "e2e") ELSE Ping!Newest(h, "link")
        IN  /\ x2' = h
            /\ \/ /\ a.id # 0 /\ (a.status = "running" \/ Ping!Newest(h, "e2e") = 0)
                  /\ x5' = Ping!TypeOf(a.id) /\ Ping!Show(a) /\ busy' = busy \ {"load"}
                  /\ Ping!DoneThen(c, Ping!Prefetch(h, x5'))
               \/ /\ ~(a.id # 0 /\ (a.status = "running" \/ Ping!Newest(h, "e2e") = 0))
                  /\ latest # 0 /\ x5' = Ping!TypeOf(latest) /\ Ping!DoneThen(c, {Ping!Call("initTask", latest)})
                  /\ UNCHANGED <<x3, x4, busy>>
               \/ /\ a.id = 0 /\ latest = 0 /\ busy' = busy \ {"load"} /\ Ping!Done(c)
                  /\ UNCHANGED <<x3, x4, x5>>
    BY DEF Ping!InitArrives
<1> DEFINE latest == IF Ping!Newest(h, "e2e") # 0 THEN Ping!Newest(h, "e2e") ELSE Ping!Newest(h, "link")
<1>3. UNCHANGED <<x1, x6, x7, steps>> /\ x2' = h
    BY <1>2 DEF Ping!InitArrives
<1>4. /\ h \subseteq Runs /\ (\A r \in h : PingStarted(r)) /\ a \in [id : Runs \cup {0}, status : Ping!Statuses]
      /\ a.id \in Runs \cup {0} /\ (a.id # 0 => PingStarted(a.id))
    BY <1>1, PingGot
<1>5. latest \in h \cup {0}
    <2>1. Ping!Newest(h, "e2e") \in h \cup {0} /\ Ping!Newest(h, "link") \in h \cup {0}
        BY <1>4, PingNewest
    <2>2. QED
        BY <2>1
<1>6. \A r \in Runs : Ping!TypeOf(r) \in Ping!Types
    BY PingHas DEF PingServed, Ping!Servers, Ping!TypeOf
<1>7. c.kind \in PingOps /\ (x7' \/ (x4.id = 0 /\ \A d \in calls \ {c} : d.kind \notin PingOps))
    BY <1>1, <1>3, PingOnly DEF PingOps, PingKinds, PingOfTab
<1> HIDE DEF latest
<1>8. CASE /\ a.id # 0 /\ x5' = Ping!TypeOf(a.id) /\ Ping!Show(a) /\ busy' = busy \ {"load"}
           /\ Ping!DoneThen(c, Ping!Prefetch(h, x5'))
    <2>1. /\ x4' = a /\ x3' \in [Runs -> Ping!Statuses] /\ calls' = (calls \ {c}) \cup Ping!Prefetch(h, x5')
          /\ x5' = Ping!TypeOf(a.id) /\ x5' \in Ping!Types
        BY <1>4, <1>6, <1>8, PingCached DEF Ping!Show, Ping!DoneThen
    <2>2. \A n \in Ping!Prefetch(h, x5') : PingCalled(n) /\ n.got = Ping!NoAnswer /\ n.kind = "prefetch"
        BY <1>4, PingAhead
    <2>3. PingServed(x1)' /\ PingShown' /\ (\A d \in calls : PingCalled(d))'
        BY <1>3, <1>4, <1>8, <2>1, <2>2, PingFrame, PingHas
    <2>4. Ping!NoDeadButton'
        BY <1>1, <1>8, <2>1, PingFrees
    <2>5. \A d \in calls' : d.kind \in PingOps => x7'
        BY <1>3, <1>7, <2>1, <2>2 DEF PingOps
    <2>6. PingAlone' /\ PingTabbed'
        <3>1. x4'.id = a.id /\ Ping!TypeOf(x4'.id) = x5' /\ x7' \in BOOLEAN
            BY <1>3, <2>1, PingHas
        <3>2. x7' \/ ((c \in calls') => FALSE)
            BY <1>1, <2>5 DEF PingOps, PingKinds
        <3>3. QED
            BY <1>3, <2>5, <3>1, <3>2, PingAsked
    <2>7. QED
        BY <2>3, <2>4, <2>6 DEF PingInv
<1>9. CASE /\ latest # 0 /\ x5' = Ping!TypeOf(latest) /\ Ping!DoneThen(c, {Ping!Call("initTask", latest)})
           /\ UNCHANGED <<x3, x4, busy>>
    <2>1. PICK n : n = Ping!Call("initTask", latest)
        OBVIOUS
    <2>2. /\ PingCalled(n) /\ n.got = Ping!NoAnswer /\ n.kind = "initTask" /\ n.arg = latest
          /\ latest \in Runs
        BY <1>4, <1>5, <1>9, <2>1, PingAsk DEF PingKinds
    <2>3. calls' = (calls \ {c}) \cup {n} /\ x5' = Ping!TypeOf(latest) /\ x5' \in Ping!Types
        BY <1>6, <1>9, <2>1, <2>2 DEF Ping!DoneThen
    <2>4. PingServed(x1)' /\ PingShown' /\ (\A d \in calls : PingCalled(d))'
        BY <1>3, <1>4, <1>9, <2>2, <2>3, PingFrame, PingHas
    <2>5. Ping!NoDeadButton'
        BY <1>1, <1>9, <2>2, <2>3, PingFrees
    <2>6. PingAlone' /\ PingTabbed'
        <3>1. x7' \/ PingOfTab(n)'
            BY <1>3, <1>7, <1>9, <2>2, <2>3 DEF PingOfTab, Ping!TypeOf
        <3>2. x7' \/ (\A d \in calls' : d.kind \in PingOps => d = n)
            BY <1>3, <1>7, <2>3
        <3>3. x7' \/ x4'.id = 0
            BY <1>3, <1>7, <1>9
        <3>4. QED
            BY <1>3, <3>1, <3>2, <3>3, PingAsked, PingHas
    <2>7. QED
        BY <2>4, <2>5, <2>6 DEF PingInv
<1>10. CASE busy' = busy \ {"load"} /\ Ping!Done(c) /\ UNCHANGED <<x3, x4, x5>>
    <2>1. calls' = calls \ {c}
        BY <1>10 DEF Ping!Done
    <2>2. PingServed(x1)' /\ PingShown' /\ (\A d \in calls : PingCalled(d))'
        BY <1>3, <1>4, <1>10, <2>1, PingFrame, PingHas
    <2>3. Ping!NoDeadButton'
        BY <1>1, <1>10, <2>1, PingFrees
    <2>4. PingAlone' /\ PingTabbed'
        <3>1. x7' \/ (\A d \in calls' : d.kind \in PingOps => d = c)
            BY <1>3, <1>7, <2>1
        <3>2. x7' \/ x4'.id = 0
            BY <1>3, <1>7, <1>10
        <3>3. c \notin calls'
            BY <2>1
        <3>4. QED
            BY <1>3, <3>1, <3>2, <3>3, PingAsked, PingHas
    <2>5. QED
        BY <2>2, <2>3, <2>4 DEF PingInv
<1>11. QED
    BY <1>2, <1>8, <1>9, <1>10 DEF latest

(* A request of the operator is answered for good.                         *)
LEMMA PingDone ==
    ASSUME PingInv, NEW c \in calls, c.kind \in PingOps, x1' = x1,
           x7 => x7', x7' \in BOOLEAN,
           \A d \in calls' : d \in calls \ {c} \/ d.kind \notin PingOps,
           x7' \/ x4'.id = 0 \/ Ping!TypeOf(x4'.id) = x5'
    PROVE  PingAlone' /\ PingTabbed'
<1>1. x7' \/ \A d \in calls \ {c} : d.kind \notin PingOps
    BY PingOnly
<1>2. x7' \/ \A d \in calls' : d.kind \in PingOps => d = c
    BY <1>1
<1>3. x7' \/ (c \in calls' => PingOfTab(c)')
    BY <1>1
<1>4. QED
    BY <1>2, <1>3, PingAsked

(* And the run it shows.                                                   *)
LEMMA PingInitTask == ASSUME PingInv, NEW c \in calls, Ping!InitTaskArrives(c) PROVE PingInv'
<1>1. /\ c.kind = "initTask" /\ c.got # Ping!NoAnswer /\ x4' = Ping!Task(c.got, c.arg)
      /\ x3' = Ping!Cached(Ping!Task(c.got, c.arg)) /\ busy' = busy \ {"load"}
      /\ calls' = (calls \ {c}) \cup Ping!Prefetch(x2, Ping!TypeOf(c.arg))
      /\ UNCHANGED <<x1, x2, x5, x6, x7, steps>>
    BY DEF Ping!InitTaskArrives, Ping!Arrived, Ping!Show, Ping!DoneThen
<1>2. /\ x4' \in [id : Runs \cup {0}, status : Ping!Statuses] /\ x3' \in [Runs -> Ping!Statuses]
      /\ x4'.id = c.arg /\ (c.arg # 0 => PingStarted(c.arg))
    BY <1>1, PingGot, PingCached
<1>3. \A n \in Ping!Prefetch(x2, Ping!TypeOf(c.arg)) : PingCalled(n) /\ n.got = Ping!NoAnswer /\ n.kind = "prefetch"
    BY PingHas, PingAhead
<1>4. PingServed(x1)' /\ PingShown' /\ (\A d \in calls : PingCalled(d))'
    BY <1>1, <1>2, <1>3, PingFrame, PingHas
<1>5. Ping!NoDeadButton'
    BY <1>1, PingFrees
<1>6. PingAlone' /\ PingTabbed'
    <2>1. c.kind \in PingOps /\ "prefetch" \notin PingOps
        BY <1>1 DEF PingOps, PingKinds
    <2>2. x7' \/ PingOfTab(c)
        BY <1>1, <2>1, PingOnly
    <2>3. x7' \/ Ping!TypeOf(x4'.id) = x5'
        BY <1>1, <1>2, <2>2 DEF PingOfTab
    <2>4. QED
        BY <1>1, <1>3, <2>1, <2>3, PingDone, PingHas
<1>7. QED
    BY <1>4, <1>5, <1>6 DEF PingInv

(* A run that was asked for ahead.                                         *)
LEMMA PingPrefetch == ASSUME PingInv, NEW c \in calls, Ping!PrefetchArrives(c) PROVE PingInv'
<1>1. /\ c.kind = "prefetch" /\ c.got # Ping!NoAnswer /\ x3' = Ping!Cached(Ping!Task(c.got, c.arg)) /\ calls' = calls \ {c}
      /\ UNCHANGED <<x1, x2, x4, x5, x6, busy, x7, steps>>
    BY DEF Ping!PrefetchArrives, Ping!Arrived, Ping!Done
<1>2. x3' \in [Runs -> Ping!Statuses]
    BY <1>1, PingGot, PingCached
<1>3. PingServed(x1)' /\ PingShown' /\ (\A d \in calls : PingCalled(d))'
    BY <1>1, <1>2, PingFrame, PingHas
<1>4. Ping!NoDeadButton' /\ PingAlone' /\ PingTabbed'
    BY <1>1, PingQuiet, PingHas DEF PingOps
<1>5. QED
    BY <1>3, <1>4 DEF PingInv

(* The stream of the run shown.                                            *)
LEMMA PingStream == ASSUME PingInv, Ping!StreamArrives PROVE PingInv'
<1>1. /\ x1.current # 0 /\ x3' = Ping!Cached(Ping!Task(x1, x1.current))
      /\ x4' = IF x4.id = x1.current THEN Ping!Task(x1, x1.current) ELSE x4
      /\ UNCHANGED <<x1, x2, x5, x6, busy, calls, x7, steps>>
    BY DEF Ping!StreamArrives
<1>2. /\ Ping!Task(x1, x1.current) \in [id : Runs \cup {0}, status : Ping!Statuses]
      /\ Ping!Task(x1, x1.current).id = x1.current
    BY PingTask, PingHas
<1>3. x3' \in [Runs -> Ping!Statuses]
    BY <1>1, <1>2, PingCached
<1>4. x4' \in [id : Runs \cup {0}, status : Ping!Statuses] /\ x4'.id = x4.id
    BY <1>1, <1>2, PingHas
<1>5. PingServed(x1)' /\ PingShown' /\ (\A d \in calls : PingCalled(d))'
    BY <1>1, <1>3, <1>4, PingFrame, PingHas
<1>6. Ping!NoDeadButton' /\ PingAlone' /\ PingTabbed'
    BY <1>1, <1>4, PingQuiet, PingHas
<1>7. QED
    BY <1>5, <1>6 DEF PingInv

(* The poll of its status, and what it answers.                            *)
LEMMA PingPoll == ASSUME PingInv, Ping!Poll PROVE PingInv'
<1>1. PICK n : n = Ping!Call("poll", x4.id)
    OBVIOUS
<1>2. /\ calls' = calls \cup {n} /\ UNCHANGED <<x1, x2, x3, x4, x5, x6, busy, x7, steps>>
    BY <1>1 DEF Ping!Poll
<1>3. PingCalled(n) /\ n.got = Ping!NoAnswer /\ n.kind = "poll"
    BY <1>1, PingAsk, PingHas DEF PingKinds
<1>4. PingServed(x1)' /\ PingShown' /\ (\A d \in calls : PingCalled(d))'
    BY <1>2, <1>3, PingFrame, PingHas
<1>5. Ping!NoDeadButton' /\ PingAlone' /\ PingTabbed'
    BY <1>2, <1>3, PingQuiet, PingHas DEF PingOps
<1>6. QED
    BY <1>4, <1>5 DEF PingInv

LEMMA PingPolled == ASSUME PingInv, NEW c \in calls, Ping!PollArrives(c) PROVE PingInv'
<1>1. /\ c.kind = "poll" /\ c.got # Ping!NoAnswer /\ calls' = calls \ {c}
      /\ IF c.got.current = c.arg THEN x4' = Ping!Task(c.got, c.arg) /\ x3' = Ping!Cached(Ping!Task(c.got, c.arg))
         ELSE UNCHANGED <<x3, x4>>
      /\ x7' = (x7 \/ x4.id # c.arg)
      /\ UNCHANGED <<x1, x2, x5, x6, busy, steps>>
    BY DEF Ping!PollArrives, Ping!Arrived, Ping!Done, Ping!Show
<1>2. /\ Ping!Task(c.got, c.got.current) \in [id : Runs \cup {0}, status : Ping!Statuses]
      /\ Ping!Task(c.got, c.got.current).id = c.got.current /\ (c.got.current # 0 => PingStarted(c.got.current))
    BY <1>1, PingGot
<1>3. /\ x4' \in [id : Runs \cup {0}, status : Ping!Statuses] /\ x3' \in [Runs -> Ping!Statuses]
      /\ (x4'.id # 0 => PingStarted(x4'.id)) /\ (x4'.id = x4.id \/ x4'.id = c.arg)
    BY <1>1, <1>2, PingCached, PingHas
<1>4. x7' \in BOOLEAN /\ (x7 => x7')
    BY <1>1, PingHas
<1>5. PingServed(x1)' /\ PingShown' /\ (\A d \in calls : PingCalled(d))'
    BY <1>1, <1>3, <1>4, PingFrame, PingHas
<1>6. CASE x4'.id = x4.id
    BY <1>1, <1>4, <1>5, <1>6, PingQuiet DEF PingOps, PingInv
<1>7. CASE x4'.id # x4.id
    <2>1. x7'
        BY <1>1, <1>3, <1>7
    <2>2. PingAlone' /\ PingTabbed'
        BY <2>1 DEF PingAlone, PingTabbed
    <2>3. Ping!NoDeadButton'
        BY <1>1, PingFrees
    <2>4. QED
        BY <1>5, <2>2, <2>3 DEF PingInv
<1>8. QED
    BY <1>6, <1>7

(* The menu of the history and the export leave the table alone.           *)
LEMMA PingOpens ==
    ASSUME PingInv, Ping!OpenHistory \/ Ping!CloseHistory \/ Ping!OpenExport \/ Ping!CloseExport PROVE PingInv'
<1>1. PICK n : n = Ping!History
    OBVIOUS
<1>2. PingCalled(n) /\ n.got = Ping!NoAnswer /\ n.kind = "history"
    BY <1>1, PingAsk DEF PingKinds, Ping!History
<1>3. /\ calls' = calls \/ calls' = calls \cup {n}
      /\ x6' \in {"none", "history", "export"} /\ steps' \in 0..MaxSteps
      /\ UNCHANGED <<x1, x2, x3, x4, x5, busy, x7>>
    BY <1>1, PingHas DEF Ping!OpenHistory, Ping!CloseHistory, Ping!OpenExport, Ping!CloseExport, Ping!Step
<1>4. PingServed(x1)' /\ PingShown' /\ (\A d \in calls : PingCalled(d))'
    BY <1>2, <1>3, PingFrame, PingHas
<1>5. Ping!NoDeadButton' /\ PingAlone' /\ PingTabbed'
    BY <1>2, <1>3, PingQuiet, PingHas DEF PingOps
<1>6. QED
    BY <1>4, <1>5 DEF PingInv

(* The history, loaded again.                                              *)
LEMMA PingHistory == ASSUME PingInv, NEW c \in calls, Ping!LoadHistoryArrives(c) PROVE PingInv'
<1>1. /\ c.kind = "history" /\ c.got # Ping!NoAnswer /\ calls' = calls \ {c} /\ x2' = Ping!GetPingTableHistory(c.got)
      /\ UNCHANGED <<x1, x3, x4, x5, x6, busy, x7, steps>>
    BY DEF Ping!LoadHistoryArrives, Ping!Arrived, Ping!Done
<1>2. x2' \subseteq Runs /\ \A r \in x2' : PingStarted(r)
    BY <1>1, PingGot DEF Ping!Histories
<1>3. PingServed(x1)' /\ PingShown' /\ (\A d \in calls : PingCalled(d))'
    BY <1>1, <1>2, PingFrame, PingHas
<1>4. Ping!NoDeadButton' /\ PingAlone' /\ PingTabbed'
    BY <1>1, PingQuiet, PingHas DEF PingOps
<1>5. QED
    BY <1>3, <1>4 DEF PingInv

(* A request of the operator is made: it is the only one, or they crossed. *)
LEMMA PingApart ==
    ASSUME PingInv, x7' = (x7 \/ Ping!Overlaps)
    PROVE  /\ x7' \in BOOLEAN /\ (x7 => x7')
           /\ x7' \/ \A d \in calls : d.kind \notin PingOps
<1>1. ASSUME NEW d \in calls, d.kind \in PingOps PROVE Ping!Overlaps
    BY <1>1 DEF Ping!Overlaps, PingOps
<1>2. QED
    BY <1>1

(* Run and cancel, and what they answer.                                   *)
LEMMA PingRun == ASSUME PingInv, Ping!HandleRun \/ Ping!HandleCancel PROVE PingInv'
<1>1. PICK n : /\ n = Ping!OfType("run", x5) \/ n = Ping!Call("cancel", 0)
               /\ calls' = calls \cup {n} /\ x7' = (x7 \/ Ping!Overlaps) /\ busy' = busy \cup {"action"}
               /\ steps' \in 0..MaxSteps
               /\ UNCHANGED <<x1, x2, x3, x4, x5, x6>>
    <2>1. steps \in 0..MaxSteps
        BY PingHas
    <2>2. steps' \in 0..MaxSteps
        BY <2>1 DEF Ping!HandleRun, Ping!HandleCancel, Ping!Step
    <2>3. CASE Ping!HandleRun
        BY <2>2, <2>3 DEF Ping!HandleRun, Ping!Asks
    <2>4. CASE Ping!HandleCancel
        BY <2>2, <2>4 DEF Ping!HandleCancel, Ping!Asks
    <2>5. QED
        BY <2>3, <2>4
<1>2. /\ PingCalled(n) /\ n.got = Ping!NoAnswer /\ n.kind \in {"run", "cancel"}
      /\ n.kind = "run" => n.type = x5
    <2>1. CASE n = Ping!OfType("run", x5)
        BY <2>1, PingTyped, PingHas DEF PingKinds, PingCalled
    <2>2. CASE n = Ping!Call("cancel", 0)
        BY <2>2, PingAsk DEF PingKinds
    <2>3. QED
        BY <1>1, <2>1, <2>2
<1>3. /\ x7' \in BOOLEAN /\ (x7 => x7')
      /\ x7' \/ \A d \in calls : d.kind \notin PingOps
    BY <1>1, PingApart
<1>4. PingServed(x1)' /\ PingShown' /\ (\A d \in calls : PingCalled(d))'
    BY <1>1, <1>2, <1>3, PingFrame, PingHas
<1>5. Ping!NoDeadButton'
    BY <1>1, <1>2, PingHas DEF Ping!NoDeadButton
<1>6. x7' \/ x4'.id = 0 \/ Ping!TypeOf(x4'.id) = x5'
    <2>1. x7' \/ \A d \in calls : d.kind \notin {"type", "task"}
        BY <1>3 DEF PingOps, PingKinds
    <2>2. QED
        BY <1>1, <1>3, <2>1, PingHas DEF PingTabbed
<1>7. PingOfTab(n)'
    BY <1>1, <1>2 DEF PingOfTab
<1>8. PingAlone' /\ PingTabbed'
    BY <1>1, <1>3, <1>6, <1>7, PingAsked
<1>9. QED
    BY <1>4, <1>5, <1>8 DEF PingInv

LEMMA PingRan == ASSUME PingInv, NEW c \in calls, Ping!RunArrives(c) PROVE PingInv'
<1>1. PICK n : n = Ping!History
    OBVIOUS
<1>2. /\ c.kind = "run" /\ c.got # Ping!NoAnswer /\ x4' = Ping!Task(c.got, c.got.current)
      /\ x3' = Ping!Cached(Ping!Task(c.got, c.got.current)) /\ busy' = busy \ {"action"}
      /\ calls' = (calls \ {c}) \cup {n} /\ x7' = (x7 \/ Ping!TypeOf(c.got.current) # c.type)
      /\ UNCHANGED <<x1, x2, x5, x6, steps>>
    BY <1>1 DEF Ping!RunArrives, Ping!Arrived, Ping!Show, Ping!DoneThen
<1>3. PingCalled(n) /\ n.got = Ping!NoAnswer /\ n.kind = "history"
    BY <1>1, PingAsk DEF PingKinds, Ping!History
<1>4. /\ x4' \in [id : Runs \cup {0}, status : Ping!Statuses] /\ x3' \in [Runs -> Ping!Statuses]
      /\ x4'.id = c.got.current /\ (c.got.current # 0 => PingStarted(c.got.current))
    BY <1>2, PingGot, PingCached
<1>5. x7' \in BOOLEAN /\ (x7 => x7')
    BY <1>2, PingHas
<1>6. PingServed(x1)' /\ PingShown' /\ (\A d \in calls : PingCalled(d))'
    BY <1>2, <1>3, <1>4, <1>5, PingFrame, PingHas
<1>7. Ping!NoDeadButton'
    BY <1>2, PingFrees
<1>8. PingAlone' /\ PingTabbed'
    <2>1. c.kind \in PingOps /\ "history" \notin PingOps
        BY <1>2 DEF PingOps, PingKinds
    <2>2. x7' \/ c.type = x5
        BY <1>2, <1>5, <2>1, PingOnly DEF PingOfTab
    <2>3. x7' \/ Ping!TypeOf(x4'.id) = x5'
        BY <1>2, <1>4, <2>2
    <2>4. QED
        BY <1>2, <1>3, <1>5, <2>1, <2>3, PingDone
<1>9. QED
    BY <1>6, <1>7, <1>8 DEF PingInv

LEMMA PingCancels == ASSUME PingInv, NEW c \in calls, Ping!CancelArrives(c) PROVE PingInv'
<1>1. PICK n : n = Ping!Call("current", 0)
    OBVIOUS
<1>2. /\ c.kind = "cancel" /\ calls' = (calls \ {c}) \cup {n}
      /\ UNCHANGED <<x1, x2, x3, x4, x5, x6, busy, x7, steps>>
    BY <1>1 DEF Ping!CancelArrives, Ping!Arrived, Ping!DoneThen
<1>3. PingCalled(n) /\ n.got = Ping!NoAnswer /\ n.kind = "current"
    BY <1>1, PingAsk DEF PingKinds
<1>4. PingServed(x1)' /\ PingShown' /\ (\A d \in calls : PingCalled(d))'
    BY <1>2, <1>3, PingFrame, PingHas
<1>5. Ping!NoDeadButton'
    BY <1>2, <1>3, PingFrees
<1>6. /\ x7' \in BOOLEAN
      /\ x7' \/ \A d \in calls' : d.kind \in PingOps => d = n
      /\ x7' \/ \A d \in calls : d.kind \notin {"type", "task"}
    <2>1. c.kind \in PingOps /\ \A k \in {"type", "task"} : k \in PingOps
        BY <1>2 DEF PingOps, PingKinds
    <2>2. x7' \/ \A d \in calls \ {c} : d.kind \notin PingOps
        BY <1>2, <2>1, PingOnly
    <2>3. QED
        BY <1>2, <2>1, <2>2, PingHas
<1>7. x7' \/ x4'.id = 0 \/ Ping!TypeOf(x4'.id) = x5'
    BY <1>2, <1>6, PingHas DEF PingTabbed
<1>8. PingOfTab(n)'
    BY <1>3 DEF PingOfTab
<1>9. PingAlone' /\ PingTabbed'
    BY <1>2, <1>6, <1>7, <1>8, PingAsked
<1>10. QED
    BY <1>4, <1>5, <1>9 DEF PingInv

LEMMA PingCancelled == ASSUME PingInv, NEW c \in calls, Ping!CancelledArrives(c) PROVE PingInv'
<1>1. PICK n : n = Ping!History
    OBVIOUS
<1>2. /\ c.kind = "current" /\ c.got # Ping!NoAnswer /\ busy' = busy \ {"action"}
      /\ calls' = (calls \ {c}) \cup {n}
      /\ IF c.got.current # 0 THEN x4' = Ping!Task(c.got, c.got.current) /\ x3' = Ping!Cached(Ping!Task(c.got, c.got.current))
         ELSE UNCHANGED <<x3, x4>>
      /\ x7' = (x7 \/ x4.id # c.got.current)
      /\ UNCHANGED <<x1, x2, x5, x6, steps>>
    BY <1>1 DEF Ping!CancelledArrives, Ping!Arrived, Ping!Show, Ping!DoneThen
<1>3. PingCalled(n) /\ n.got = Ping!NoAnswer /\ n.kind = "history"
    BY <1>1, PingAsk DEF PingKinds, Ping!History
<1>4. /\ Ping!Task(c.got, c.got.current) \in [id : Runs \cup {0}, status : Ping!Statuses]
      /\ Ping!Task(c.got, c.got.current).id = c.got.current /\ (c.got.current # 0 => PingStarted(c.got.current))
    BY <1>2, PingGot
<1>5. /\ x4' \in [id : Runs \cup {0}, status : Ping!Statuses] /\ x3' \in [Runs -> Ping!Statuses]
      /\ (x4'.id # 0 => PingStarted(x4'.id)) /\ (x4'.id = x4.id \/ x4'.id = c.got.current)
    BY <1>2, <1>4, PingCached, PingHas
<1>6. x7' \in BOOLEAN /\ (x7 => x7') /\ (x7' \/ x4'.id = x4.id)
    BY <1>2, <1>5, PingHas
<1>7. PingServed(x1)' /\ PingShown' /\ (\A d \in calls : PingCalled(d))'
    BY <1>2, <1>3, <1>5, <1>6, PingFrame, PingHas
<1>8. Ping!NoDeadButton'
    BY <1>2, PingFrees
<1>9. PingAlone' /\ PingTabbed'
    <2>1. c.kind \in PingOps /\ "history" \notin PingOps /\ \A k \in {"type", "task"} : k \in PingOps
        BY <1>2 DEF PingOps, PingKinds
    <2>2. x7' \/ \A d \in calls \ {c} : d.kind \notin PingOps
        BY <1>6, <2>1, PingOnly
    <2>3. x7' \/ \A d \in calls : d.kind \notin {"type", "task"}
        BY <1>2, <2>1, <2>2
    <2>4. x7' \/ x4.id = 0 \/ Ping!TypeOf(x4.id) = x5
        BY <1>6, <2>3, PingHas DEF PingTabbed
    <2>5. QED
        BY <1>2, <1>3, <1>6, <2>1, <2>4, PingDone
<1>10. QED
    BY <1>7, <1>8, <1>9 DEF PingInv

(* A kept run is shown at once, a run is asked for, or those of the type.  *)
LEMMA PingKept ==
    ASSUME PingInv, NEW r \in Runs, PingStarted(r), x3[r] # "none"
    PROVE  Ping!Kept(r) \in [id : Runs \cup {0}, status : Ping!Statuses] /\ Ping!Kept(r).id = r
BY PingHas DEF Ping!Kept

(* A run that is held is put on the screen.                                *)
LEMMA PingPuts ==
    ASSUME PingInv, NEW r \in Runs, PingStarted(r), Ping!TypeOf(r) = x5', x4' = Ping!Kept(r), x3[r] # "none",
           x7' = (x7 \/ Ping!Overlaps), steps' \in 0..MaxSteps, x5' \in Ping!Types,
           x6' \in {"none", "history", "export"}, UNCHANGED <<x1, x2, x3, busy, calls>>
    PROVE  PingInv'
<1>1. x4' \in [id : Runs \cup {0}, status : Ping!Statuses] /\ x4'.id = r
    BY PingKept
<1>2. /\ x7' \in BOOLEAN /\ (x7 => x7')
      /\ x7' \/ \A d \in calls : d.kind \notin PingOps
    BY PingApart
<1>3. PingServed(x1)' /\ PingShown' /\ (\A d \in calls : PingCalled(d))'
    BY <1>1, <1>2, PingFrame, PingHas
<1>4. Ping!NoDeadButton'
    BY PingHas DEF Ping!NoDeadButton
<1>5. PingAlone' /\ PingTabbed'
    <2>1. PICK n : n = Ping!Call("poll", 0)
        OBVIOUS
    <2>2. n.kind = "poll"
        BY <2>1 DEF Ping!Call
    <2>3. PingOfTab(n)'
        BY <2>2 DEF PingOfTab
    <2>4. QED
        BY <1>1, <1>2, <2>3, PingAsked
<1>6. QED
    BY <1>3, <1>4, <1>5 DEF PingInv

(* One that is not is asked for.                                           *)
LEMMA PingAsks ==
    ASSUME PingInv, NEW n, PingCalled(n), n.got = Ping!NoAnswer, n.kind \in {"type", "task"},
           PingOfTab(n)', calls' = calls \cup {n}, busy' = busy \cup {"load"},
           x7' = (x7 \/ Ping!Overlaps), steps' \in 0..MaxSteps, x5' \in Ping!Types,
           x6' \in {"none", "history", "export"}, UNCHANGED <<x1, x2, x3, x4>>
    PROVE  PingInv'
<1>1. /\ x7' \in BOOLEAN /\ (x7 => x7')
      /\ x7' \/ \A d \in calls : d.kind \notin PingOps
    BY PingApart
<1>2. PingServed(x1)' /\ PingShown' /\ (\A d \in calls : PingCalled(d))'
    BY <1>1, PingFrame, PingHas
<1>3. Ping!NoDeadButton'
    BY PingHas DEF Ping!NoDeadButton
<1>4. PingAlone' /\ PingTabbed'
    BY <1>1, PingAsked
<1>5. QED
    BY <1>2, <1>3, <1>4 DEF PingInv

(* Another type, or another run.                                           *)
LEMMA PingTypeChange == ASSUME PingInv, NEW t \in Ping!Types, Ping!HandleTypeChange(t) PROVE PingInv'
<1>1. /\ x5' = t /\ steps' \in 0..MaxSteps /\ UNCHANGED <<x1, x2, x3, x6>>
      /\ IF Ping!Newest(x2, t) # 0 /\ x3[Ping!Newest(x2, t)] # "none"
         THEN /\ x4' = Ping!Kept(Ping!Newest(x2, t)) /\ x7' = (x7 \/ Ping!Overlaps)
              /\ UNCHANGED <<busy, calls>>
         ELSE Ping!Asks(Ping!OfType("type", t)) /\ busy' = busy \cup {"load"} /\ x4' = x4
    BY PingHas DEF Ping!HandleTypeChange, Ping!Step
<1>2. CASE Ping!Newest(x2, t) # 0 /\ x3[Ping!Newest(x2, t)] # "none"
    <2>1. PICK r : r = Ping!Newest(x2, t)
        OBVIOUS
    <2>2. r \in x2 \cup {0} /\ Ping!TypeOf(r) = t
        BY <1>2, <2>1, PingNewest, PingHas
    <2>3. r \in Runs /\ PingStarted(r)
        BY <1>2, <2>1, <2>2, PingHas
    <2>4. QED
        BY <1>1, <1>2, <2>1, <2>2, <2>3, PingPuts, PingHas
<1>3. CASE ~(Ping!Newest(x2, t) # 0 /\ x3[Ping!Newest(x2, t)] # "none")
    <2>1. PICK n : n = Ping!OfType("type", t)
        OBVIOUS
    <2>2. /\ calls' = calls \cup {n} /\ x7' = (x7 \/ Ping!Overlaps) /\ busy' = busy \cup {"load"}
          /\ x4' = x4
        BY <1>1, <1>3, <2>1 DEF Ping!Asks
    <2>3. PingCalled(n) /\ n.got = Ping!NoAnswer /\ n.kind = "type" /\ n.type = t
        BY <2>1, PingTyped DEF PingKinds, PingCalled
    <2>4. PingOfTab(n)'
        BY <1>1, <2>2, <2>3 DEF PingOfTab
    <2>5. QED
        BY <1>1, <2>2, <2>3, <2>4, PingAsks, PingHas
<1>4. QED
    BY <1>2, <1>3

LEMMA PingSelect == ASSUME PingInv, NEW r \in Runs, Ping!HandleSelectHistoryItem(r) PROVE PingInv'
<1>1. /\ r \in x2 /\ Ping!TypeOf(r) = x5 /\ x6' = "none" /\ steps' \in 0..MaxSteps
      /\ UNCHANGED <<x1, x2, x3, x5>>
      /\ IF x3[r] # "none"
         THEN x4' = Ping!Kept(r) /\ x7' = (x7 \/ Ping!Overlaps) /\ UNCHANGED <<busy, calls>>
         ELSE Ping!Asks(Ping!Call("task", r)) /\ busy' = busy \cup {"load"} /\ x4' = x4
    BY PingHas DEF Ping!HandleSelectHistoryItem, Ping!FilteredHistory, Ping!Step
<1>2. PingStarted(r) /\ r # 0
    BY <1>1, PingHas, PingRuns
<1>3. CASE x3[r] # "none"
    BY <1>1, <1>2, <1>3, PingPuts, PingHas
<1>4. CASE x3[r] = "none"
    <2>1. PICK n : n = Ping!Call("task", r)
        OBVIOUS
    <2>2. /\ calls' = calls \cup {n} /\ x7' = (x7 \/ Ping!Overlaps) /\ busy' = busy \cup {"load"}
          /\ x4' = x4
        BY <1>1, <1>4, <2>1 DEF Ping!Asks
    <2>3. PingCalled(n) /\ n.got = Ping!NoAnswer /\ n.kind = "task" /\ n.arg = r
        BY <1>2, <2>1, PingAsk DEF PingKinds
    <2>4. PingOfTab(n)'
        BY <1>1, <1>2, <2>2, <2>3 DEF PingOfTab, Ping!TypeOf
    <2>5. QED
        BY <1>1, <2>2, <2>3, <2>4, PingAsks, PingHas
<1>5. QED
    BY <1>3, <1>4

(* A run that is deleted.                                                  *)
LEMMA PingDeletes == ASSUME PingInv, NEW r \in Runs, Ping!HandleDeleteHistoryItem(r) PROVE PingInv'
<1>1. PICK n : n = [Ping!Call("delete", r) EXCEPT !.list = x2, !.shown = x4.id]
    OBVIOUS
<1>2. /\ r \in x2 /\ Ping!TypeOf(r) = x5 /\ steps' \in 0..MaxSteps
      /\ calls' = calls \cup {n} /\ x7' = (x7 \/ Ping!Overlaps)
      /\ UNCHANGED <<x1, x2, x3, x4, x5, x6, busy>>
    BY <1>1, PingHas DEF Ping!HandleDeleteHistoryItem, Ping!FilteredHistory, Ping!Step, Ping!Asks
<1>3. n \in PingCalls /\ n.kind = "delete" /\ n.arg = r /\ n.got = Ping!NoAnswer /\ n.list = x2
    <2>1. PICK l \in SUBSET Runs, m \in Runs \cup {0} : l = x2 /\ m = x4.id
        BY PingHas
    <2>2. PICK d : d = Ping!Call("delete", r)
        OBVIOUS
    <2>3. /\ d \in PingCalls /\ d.kind = "delete" /\ d.arg = r /\ d.got = Ping!NoAnswer
          /\ n = [d EXCEPT !.list = l, !.shown = m]
        BY <1>1, <2>1, <2>2, PingCall DEF PingKinds
    <2>4. QED
        BY <2>1, <2>3 DEF PingCalls
<1>4. PingStarted(r) /\ r # 0
    BY <1>2, PingHas, PingRuns
<1>5. PingCalled(n)
    BY <1>3, <1>4, PingHas DEF PingCalled
<1>6. /\ x7' \in BOOLEAN /\ (x7 => x7')
      /\ x7' \/ \A d \in calls : d.kind \notin PingOps
    BY <1>2, PingApart
<1>7. PingServed(x1)' /\ PingShown' /\ (\A d \in calls : PingCalled(d))'
    BY <1>2, <1>3, <1>5, <1>6, PingFrame, PingHas
<1>8. Ping!NoDeadButton'
    BY <1>2, PingHas DEF Ping!NoDeadButton
<1>9. x7' \/ x4'.id = 0 \/ Ping!TypeOf(x4'.id) = x5'
    <2>1. x7' \/ \A d \in calls : d.kind \notin {"type", "task"}
        BY <1>6 DEF PingOps, PingKinds
    <2>2. QED
        BY <1>2, <1>6, <2>1, PingHas DEF PingTabbed
<1>10. PingOfTab(n)'
    BY <1>2, <1>3, <1>4 DEF PingOfTab, Ping!TypeOf
<1>11. PingAlone' /\ PingTabbed'
    BY <1>2, <1>6, <1>9, <1>10, PingAsked
<1>12. QED
    BY <1>7, <1>8, <1>11 DEF PingInv

(* A run that was asked for arrives.                                       *)
LEMMA PingTaken ==
    ASSUME PingInv, NEW c \in calls, Ping!TaskArrives(c) \/ Ping!NextArrives(c) PROVE PingInv'
<1>1. /\ c.kind \in {"task", "next"} /\ c.got # Ping!NoAnswer /\ x4' = Ping!Task(c.got, c.arg)
      /\ x3' = Ping!Cached(Ping!Task(c.got, c.arg)) /\ calls' = calls \ {c}
      /\ busy' \subseteq busy /\ (c.kind = "task" => "load" \notin busy')
      /\ UNCHANGED <<x1, x2, x5, x6, x7, steps>>
    BY DEF Ping!TaskArrives, Ping!NextArrives, Ping!Arrived, Ping!Show, Ping!Done
<1>2. /\ x4' \in [id : Runs \cup {0}, status : Ping!Statuses] /\ x3' \in [Runs -> Ping!Statuses]
      /\ x4'.id = c.arg /\ (c.arg # 0 => PingStarted(c.arg))
    BY <1>1, PingGot, PingCached
<1>3. PingServed(x1)' /\ PingShown' /\ (\A d \in calls : PingCalled(d))'
    BY <1>1, <1>2, PingFrame, PingHas
<1>4. Ping!NoDeadButton'
    BY <1>1, PingFrees
<1>5. PingAlone' /\ PingTabbed'
    <2>1. c.kind \in PingOps
        BY <1>1 DEF PingOps, PingKinds
    <2>2. x7' \/ PingOfTab(c)
        BY <1>1, <2>1, PingOnly
    <2>3. x7' \/ Ping!TypeOf(x4'.id) = x5'
        BY <1>1, <1>2, <2>2 DEF PingOfTab
    <2>4. QED
        BY <1>1, <2>1, <2>3, PingDone, PingHas
<1>6. QED
    BY <1>3, <1>4, <1>5 DEF PingInv

(* The newest run of a type arrives.                                       *)
LEMMA PingTypeArrives == ASSUME PingInv, NEW c \in calls, Ping!TypeArrives(c) PROVE PingInv'
<1>1. c.kind = "type" /\ c.got # Ping!NoAnswer
    BY DEF Ping!TypeArrives, Ping!Arrived
<1>2. PICK h \in Ping!Histories(c.got), a \in Ping!Actives(c.got) :
        LET latest == Ping!Newest(h, c.type)
            runs == a.status = "running" /\ Ping!TypeOf(a.id) = c.type
        IN  /\ x2' = h
            /\ \/ runs /\ Ping!Show(a) /\ busy' = busy \ {"load"} /\ Ping!Done(c)
               \/ /\ ~runs /\ latest = 0
                  /\ x4' = Ping!NoTask /\ x3' = x3 /\ busy' = busy \ {"load"} /\ Ping!Done(c)
               \/ /\ ~runs /\ latest # 0 /\ x3[latest] # "none"
                  /\ x4' = Ping!Kept(latest) /\ x3' = x3 /\ busy' = busy \ {"load"} /\ Ping!Done(c)
               \/ /\ ~runs /\ latest # 0 /\ x3[latest] = "none" /\ Ping!DoneThen(c, {Ping!Call("task", latest)})
                  /\ UNCHANGED <<x3, x4, busy>>
    BY DEF Ping!TypeArrives
<1>3. UNCHANGED <<x1, x5, x6, x7, steps>> /\ x2' = h
    BY <1>2 DEF Ping!TypeArrives
<1>4. PICK latest : latest = Ping!Newest(h, c.type)
    OBVIOUS
<1>5. /\ h \subseteq Runs /\ (\A r \in h : PingStarted(r)) /\ a \in [id : Runs \cup {0}, status : Ping!Statuses]
      /\ a.id \in Runs \cup {0} /\ (a.id # 0 => PingStarted(a.id))
    BY <1>1, PingGot
<1>6. latest \in h \cup {0} /\ (latest # 0 => Ping!TypeOf(latest) = c.type)
    BY <1>4, <1>5, PingNewest
<1>7. c.kind \in PingOps
    BY <1>1 DEF PingOps, PingKinds
<1>8. x7' \/ (/\ c.type = x5 /\ "load" \in busy
              /\ \A d \in calls \ {c} : d.kind \notin PingOps)
    BY <1>1, <1>3, <1>7, PingOnly DEF PingOfTab
<1>9. CASE /\ Ping!Done(c) /\ busy' = busy \ {"load"}
           /\ \/ Ping!Show(a) /\ Ping!TypeOf(a.id) = c.type
              \/ x4' = Ping!NoTask /\ x3' = x3
              \/ latest # 0 /\ x3[latest] # "none" /\ x4' = Ping!Kept(latest) /\ x3' = x3
    <2>1. calls' = calls \ {c}
        BY <1>9 DEF Ping!Done
    <2>2. /\ x4' \in [id : Runs \cup {0}, status : Ping!Statuses] /\ x3' \in [Runs -> Ping!Statuses]
          /\ (x4'.id # 0 => PingStarted(x4'.id)) /\ (x4'.id = 0 \/ Ping!TypeOf(x4'.id) = c.type)
        <3>1. CASE Ping!Show(a) /\ Ping!TypeOf(a.id) = c.type
            BY <1>5, <3>1, PingCached DEF Ping!Show
        <3>2. CASE x4' = Ping!NoTask /\ x3' = x3
            BY <3>2, PingHas DEF Ping!NoTask, Ping!Statuses
        <3>3. CASE latest # 0 /\ x3[latest] # "none" /\ x4' = Ping!Kept(latest) /\ x3' = x3
            <4>1. latest \in Runs /\ PingStarted(latest)
                BY <1>5, <1>6, <3>3
            <4>2. QED
                BY <1>6, <3>3, <4>1, PingKept, PingHas
        <3>4. QED
            BY <1>9, <3>1, <3>2, <3>3
    <2>3. PingServed(x1)' /\ PingShown' /\ (\A d \in calls : PingCalled(d))'
        BY <1>3, <1>5, <1>9, <2>1, <2>2, PingFrame, PingHas
    <2>4. Ping!NoDeadButton'
        BY <1>1, <1>9, <2>1, PingFrees
    <2>5. x7' \/ x4'.id = 0 \/ Ping!TypeOf(x4'.id) = x5'
        BY <1>3, <1>8, <2>2
    <2>6. PingAlone' /\ PingTabbed'
        BY <1>3, <1>7, <2>1, <2>5, PingDone, PingHas
    <2>7. QED
        BY <2>3, <2>4, <2>6 DEF PingInv
<1>10. CASE latest # 0 /\ Ping!DoneThen(c, {Ping!Call("task", latest)}) /\ UNCHANGED <<x3, x4, busy>>
    <2>1. PICK n : n = Ping!Call("task", latest)
        OBVIOUS
    <2>2. calls' = (calls \ {c}) \cup {n} /\ latest \in Runs /\ PingStarted(latest) /\ Ping!TypeOf(latest) = c.type
        BY <1>5, <1>6, <1>10, <2>1 DEF Ping!DoneThen
    <2>3. PingCalled(n) /\ n.got = Ping!NoAnswer /\ n.kind = "task" /\ n.arg = latest
        BY <2>1, <2>2, PingAsk DEF PingKinds
    <2>4. PingServed(x1)' /\ PingShown' /\ (\A d \in calls : PingCalled(d))'
        BY <1>3, <1>5, <1>10, <2>2, <2>3, PingFrame, PingHas
    <2>5. Ping!NoDeadButton'
        BY <1>1, <1>10, <2>2, <2>3, PingFrees
    <2>6. PingAlone' /\ PingTabbed'
        <3>1. x7' \/ PingOfTab(n)'
            BY <1>3, <1>8, <1>10, <2>2, <2>3 DEF PingOfTab, Ping!TypeOf
        <3>2. x7' \/ (\A d \in calls' : d.kind \in PingOps => d = n)
            BY <1>8, <2>2
        <3>3. n \in calls' /\ n.kind \in {"type", "task"}
            BY <2>2, <2>3
        <3>4. QED
            BY <1>3, <3>1, <3>2, <3>3, PingAsked, PingHas
    <2>7. QED
        BY <2>4, <2>5, <2>6 DEF PingInv
<1>11. QED
    BY <1>2, <1>4, <1>9, <1>10

LEMMA PingDeleted == ASSUME PingInv, NEW c \in calls, Ping!DeleteArrives(c) PROVE PingInv'
<1>1. PICK next, dropped : /\ next = Ping!Newest(c.list \ {c.arg}, Ping!TypeOf(c.arg))
                           /\ dropped = [x3 EXCEPT ![c.arg] = "none"]
    OBVIOUS
<1>2. /\ c.kind = "delete" /\ c.got # Ping!NoAnswer /\ x2' = c.list \ {c.arg} /\ x3' = dropped
      /\ \/ x4' = x4 /\ Ping!Done(c)
         \/ x4' = Ping!NoTask /\ Ping!Done(c)
         \/ next # 0 /\ x4' = [id |-> next, status |-> dropped[next]] /\ Ping!Done(c)
         \/ next # 0 /\ x4' = x4 /\ Ping!DoneThen(c, {Ping!Call("next", next)})
      /\ UNCHANGED <<x1, x5, x6, busy, x7, steps>>
    BY <1>1 DEF Ping!DeleteArrives, Ping!Arrived
<1>3. c.list \subseteq Runs /\ \A r \in c.list : PingStarted(r)
    <2>1. PingCalled(c) /\ c.list \subseteq Runs
        BY PingHas
    <2>2. QED
        BY <2>1 DEF PingCalled
<1>4. dropped \in [Runs -> Ping!Statuses]
    BY <1>1, PingHas DEF Ping!Statuses
<1>5. next \in (c.list \ {c.arg}) \cup {0} /\ (next # 0 => Ping!TypeOf(next) = Ping!TypeOf(c.arg))
    <2>1. c.list \ {c.arg} \subseteq Runs
        BY <1>3
    <2>2. QED
        BY <1>1, <2>1, PingNewest
<1>6. next # 0 => next \in Runs /\ PingStarted(next)
    BY <1>3, <1>5
<1>7. c.kind \in PingOps /\ \A k \in {"type", "task"} : k \in PingOps
    BY <1>2 DEF PingOps, PingKinds
<1>8. x7' \/ (Ping!TypeOf(c.arg) = x5 /\ \A d \in calls \ {c} : d.kind \notin PingOps)
    BY <1>2, <1>7, PingOnly DEF PingOfTab
<1>9. x7' \/ x4.id = 0 \/ Ping!TypeOf(x4.id) = x5
    <2>1. x7' \/ \A d \in calls : d.kind \notin {"type", "task"}
        BY <1>2, <1>7, <1>8
    <2>2. QED
        BY <1>2, <2>1, PingHas DEF PingTabbed
<1>10. CASE /\ Ping!Done(c)
            /\ x4' = x4 \/ x4' = Ping!NoTask \/ (next # 0 /\ x4' = [id |-> next, status |-> dropped[next]])
    <2>1. calls' = calls \ {c}
        BY <1>10 DEF Ping!Done
    <2>2. /\ x4' \in [id : Runs \cup {0}, status : Ping!Statuses] /\ (x4'.id # 0 => PingStarted(x4'.id))
          /\ x7' \/ x4'.id = 0 \/ Ping!TypeOf(x4'.id) = x5'
        <3>1. CASE x4' = x4
            BY <1>2, <1>9, <3>1, PingHas
        <3>2. CASE x4' = Ping!NoTask
            BY <3>2 DEF Ping!NoTask, Ping!Statuses
        <3>3. CASE next # 0 /\ x4' = [id |-> next, status |-> dropped[next]]
            BY <1>2, <1>4, <1>5, <1>6, <1>8, <3>3
        <3>4. QED
            BY <1>10, <3>1, <3>2, <3>3
    <2>3. PingServed(x1)' /\ PingShown' /\ (\A d \in calls : PingCalled(d))'
        BY <1>2, <1>3, <1>4, <2>1, <2>2, PingFrame, PingHas
    <2>4. Ping!NoDeadButton'
        BY <1>2, <2>1, PingFrees
    <2>5. PingAlone' /\ PingTabbed'
        BY <1>2, <1>7, <2>1, <2>2, PingDone, PingHas
    <2>6. QED
        BY <2>3, <2>4, <2>5 DEF PingInv
<1>11. CASE next # 0 /\ x4' = x4 /\ Ping!DoneThen(c, {Ping!Call("next", next)})
    <2>1. PICK n : n = Ping!Call("next", next)
        OBVIOUS
    <2>2. calls' = (calls \ {c}) \cup {n}
        BY <1>11, <2>1 DEF Ping!DoneThen
    <2>3. PingCalled(n) /\ n.got = Ping!NoAnswer /\ n.kind = "next" /\ n.arg = next
        BY <1>6, <1>11, <2>1, PingAsk DEF PingKinds
    <2>4. PingServed(x1)' /\ PingShown' /\ (\A d \in calls : PingCalled(d))'
        BY <1>2, <1>3, <1>4, <1>11, <2>2, <2>3, PingFrame, PingHas
    <2>5. Ping!NoDeadButton'
        BY <1>2, <2>2, PingFrees
    <2>6. PingAlone' /\ PingTabbed'
        <3>1. x7' \/ PingOfTab(n)'
            BY <1>2, <1>5, <1>8, <1>11, <2>3 DEF PingOfTab, Ping!TypeOf
        <3>2. x7' \/ (\A d \in calls' : d.kind \in PingOps => d = n)
            BY <1>8, <2>2
        <3>3. x7' \/ x4'.id = 0 \/ Ping!TypeOf(x4'.id) = x5'
            BY <1>2, <1>9, <1>11
        <3>4. QED
            BY <1>2, <3>1, <3>2, <3>3, PingAsked, PingHas
    <2>7. QED
        BY <2>4, <2>5, <2>6 DEF PingInv
<1>12. QED
    BY <1>2, <1>10, <1>11

(* An error.                                                               *)
LEMMA PingFails == ASSUME PingInv, NEW c \in calls, Ping!Fails(c) PROVE PingInv'
<1>1. /\ c.kind \notin {"init", "type"} /\ calls' = calls \ {c} /\ busy' \subseteq busy
      /\ c.kind \in {"initTask", "task"} => "load" \notin busy'
      /\ c.kind \in {"run", "cancel", "current"} => "action" \notin busy'
      /\ c.kind \in {"prefetch", "poll", "history"} => busy' = busy
      /\ x7' = (x7 \/ c.kind = "task")
      /\ UNCHANGED <<x1, x2, x3, x4, x5, x6, steps>>
    BY PingHas DEF Ping!Fails, Ping!Done
<1>2. x7' \in BOOLEAN /\ (x7 => x7')
    BY <1>1, PingHas
<1>3. PingServed(x1)' /\ PingShown' /\ (\A d \in calls : PingCalled(d))'
    BY <1>1, <1>2, PingFrame, PingHas
<1>4. Ping!NoDeadButton'
    BY <1>1, PingFrees
<1>5. CASE c.kind \in {"prefetch", "poll", "history"}
    <2>1. c.kind \notin PingOps /\ busy' = busy
        BY <1>1, <1>5 DEF PingOps
    <2>2. PingAlone' /\ PingTabbed'
        BY <1>1, <1>2, <2>1, PingQuiet
    <2>3. QED
        BY <1>3, <1>4, <2>2 DEF PingInv
<1>6. CASE c.kind \notin {"prefetch", "poll", "history"}
    <2>1. c.kind \in PingOps /\ \A k \in {"type", "task"} : k \in PingOps
        <3>1. c.kind \in PingKinds
            BY PingHas
        <3>2. QED
            BY <1>6, <3>1 DEF PingOps, PingKinds
    <2>2. x7' \/ \A d \in calls \ {c} : d.kind \notin PingOps
        BY <1>2, <2>1, PingOnly
    <2>3. x7' \/ \A d \in calls : d.kind \notin {"type", "task"}
        BY <1>1, <2>1, <2>2
    <2>4. x7' \/ x4'.id = 0 \/ Ping!TypeOf(x4'.id) = x5'
        BY <1>1, <1>2, <2>3, PingHas DEF PingTabbed
    <2>5. PingAlone' /\ PingTabbed'
        BY <1>1, <1>2, <2>1, <2>4, PingDone
    <2>6. QED
        BY <1>3, <1>4, <2>5 DEF PingInv
<1>7. QED
    BY <1>5, <1>6

(* Every step of the table keeps it.                                       *)
LEMMA PingStep == ASSUME PingInv, Ping!Next \/ UNCHANGED Ping!vars PROVE PingInv'
<1>1. CASE UNCHANGED Ping!vars
    <2>1. /\ UNCHANGED <<x1, x2, x3, x4, x5, x6, busy, calls, x7, steps>>
        BY <1>1 DEF Ping!vars
    <2>2. PingServed(x1)' /\ PingShown' /\ (\A d \in calls : PingCalled(d))'
        BY <2>1, PingFrame, PingHas
    <2>3. Ping!NoDeadButton' /\ PingAlone' /\ PingTabbed'
        BY <2>1, PingQuiet, PingHas
    <2>4. QED
        BY <2>2, <2>3 DEF PingInv
<1>2. QED
    BY <1>1, PingServes, PingEnds, PingInitArrives, PingInitTask, PingPrefetch, PingStream, PingPoll,
       PingPolled, PingRun, PingRan, PingCancels, PingCancelled, PingTypeChange, PingTypeArrives, PingOpens,
       PingHistory, PingSelect, PingTaken, PingDeletes, PingDeleted, PingFails
       DEF Ping!Next

(* From the invariant to what is stated of the screen.                     *)
LEMMA PingShows == ASSUME PingInv PROVE Ping!TypeOK /\ Ping!NoDeadButton /\ Ping!TypeOfTable
<1>1. Ping!NoDeadButton /\ PingServed(x1) /\ PingShown /\ PingTabbed /\ \A c \in calls : PingCalled(c)
    BY DEF PingInv
<1>2. ASSUME NEW c \in calls
      PROVE  /\ c.arg \in Runs \cup {0} /\ c.type \in Ping!Types /\ c.got \in Ping!Servers \cup {Ping!NoAnswer}
             /\ c.kind \in PingKinds
    BY <1>1 DEF PingCalled, PingCalls
<1>3. Ping!TypeOK
    BY <1>1, <1>2 DEF Ping!TypeOK, PingServed, PingShown, PingKinds
<1>4. Ping!TypeOfTable
    BY <1>1 DEF Ping!TypeOfTable, PingTabbed, PingOfTab
<1>5. QED
    BY <1>1, <1>3, <1>4
=============================================================================
