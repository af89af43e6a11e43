-------------------------- MODULE AgentSync_proofs --------------------------
(* Proofs about AgentSync, for every number of runs, ids and contents.     *)
EXTENDS AgentSync, TLAPS

USE AbsentAssumption

(***************************************************************************)
(* Why a record is earned: an answer reaches the run that waits for its id *)
(* only, an id names one command at a time wherever that is on its way, so *)
(* that the answer is about the action of the run; and a command that ends *)
(* an action is answered with a success only when its work was done.       *)
(***************************************************************************)
OneCommand ==
    /\ \A c, d \in sent : c.id = d.id => c = d
    /\ \A k, j \in tasks : k.cmd.id = j.cmd.id => k = j
    /\ \A a, b \in answers : a.cmd.id = b.cmd.id => a = b
    /\ \A c \in sent : (\A k \in tasks : c.id # k.cmd.id) /\ (\A a \in answers : c.id # a.cmd.id)
    /\ \A k \in tasks, a \in answers : k.cmd.id # a.cmd.id
OneWaiter == \A r, q \in Runs : Waiting(r) /\ Waiting(q) /\ act[r].id = act[q].id => r = q

Of(r, c) == c.id = act[r].id => c.origin = act[r].origin /\ c.kind = pc[r]
Matched ==
    \A r \in Runs : Waiting(r) =>
        /\ \A c \in sent : Of(r, c)
        /\ \A k \in tasks : Of(r, k.cmd)
        /\ \A a \in answers : Of(r, a.cmd)

StepOfKind(k) ==
    /\ k.step \in {"pre", "post"} => k.cmd.kind = "sync"
    /\ k.step = "write" => k.cmd.kind \in {"sync", "write"}
    /\ k.step = "reload" => k.cmd.kind \in {"sync", "reload"}
    /\ k.step = "delete" => k.cmd.kind \in {"sync", "delete"}
Done ==
    /\ \A k \in tasks : StepOfKind(k) /\ (k.step = "post" /\ k.good => k.cmd.origin \in performed)
    /\ \A a \in answers : a.ok /\ a.cmd.kind # "write" => a.cmd.origin \in performed

SyncInv == TypeOK /\ OneCommand /\ OneWaiter /\ Matched /\ Done

LEMMA InUseContains ==
    /\ \A r \in Runs : Waiting(r) => {act[r].id, act[r].origin} \subseteq InUse
    /\ \A c \in sent : {c.id, c.origin} \subseteq InUse
    /\ \A k \in tasks : {k.cmd.id, k.cmd.origin} \subseteq InUse
    /\ \A a \in answers : {a.cmd.id, a.cmd.origin} \subseteq InUse
<1> DEFINE Flying == sent \cup {k.cmd : k \in tasks} \cup {a.cmd : a \in answers}
<1> DEFINE Pairs == {{act[r].id, act[r].origin} : r \in {q \in Runs : Waiting(q)}}
                       \cup {{c.id, c.origin} : c \in Flying}
<1>1. \A P \in Pairs : P \subseteq InUse
  BY DEF InUse
<1>2. \A r \in Runs : Waiting(r) => {act[r].id, act[r].origin} \in Pairs
  OBVIOUS
<1>3. \A c \in Flying : {c.id, c.origin} \in Pairs
  OBVIOUS
<1>4. /\ \A c \in sent : c \in Flying
      /\ \A k \in tasks : k.cmd \in Flying
      /\ \A a \in answers : a.cmd \in Flying
  OBVIOUS
<1> HIDE DEF Flying, Pairs
<1> QED BY <1>1, <1>2, <1>3, <1>4

(* A command with an id that nothing on its way has, and no other run.     *)
LEMMA SendKeeps ==
    ASSUME SyncInv, NEW r \in Runs, NEW kind \in Kinds, NEW id \in Ids, NEW origin \in Ids,
           NEW content \in Contents, SendCommand(r, kind, id, origin, content),
           tasks' = tasks, answers' \subseteq answers,
           \A c \in sent : c.id # id, \A k \in tasks : k.cmd.id # id,
           \A a \in answers' : a.cmd.id # id,
           \A q \in Runs : Waiting(q) /\ q # r => act[q].id # id
    PROVE  /\ pc' \in [Runs -> Kinds \cup {"idle"}] /\ act' \in [Runs -> Acts \cup {Idle}]
           /\ \A q \in Runs : pc'[q] # "idle" => act'[q] \in Acts
           /\ sent' \subseteq Commands
           /\ OneCommand' /\ OneWaiter' /\ Matched'
<1> DEFINE new == [kind |-> kind, id |-> id, origin |-> origin, content |-> content]
<1>1. /\ pc' = [pc EXCEPT ![r] = kind]
      /\ act' = [act EXCEPT ![r] = [content |-> content, origin |-> origin, id |-> id]]
      /\ sent' = sent \cup {new}
  BY DEF SendCommand
<1>2. /\ pc \in [Runs -> Kinds \cup {"idle"}] /\ act \in [Runs -> Acts \cup {Idle}]
      /\ \A q \in Runs : pc[q] # "idle" => act[q] \in Acts
      /\ sent \subseteq Commands
  BY DEF SyncInv, TypeOK
<1>3. new \in Commands /\ new.id = id /\ new.origin = origin /\ new.kind = kind
  BY DEF Commands
<1>4. [content |-> content, origin |-> origin, id |-> id] \in Acts
  BY DEF Acts
<1>5. /\ pc' \in [Runs -> Kinds \cup {"idle"}] /\ act' \in [Runs -> Acts \cup {Idle}]
      /\ \A q \in Runs : pc'[q] # "idle" => act'[q] \in Acts
      /\ sent' \subseteq Commands
  BY <1>1, <1>2, <1>3, <1>4
<1>6. /\ act'[r].id = id /\ act'[r].origin = origin /\ pc'[r] = kind /\ kind # "idle"
      /\ \A q \in Runs \ {r} : act'[q] = act[q] /\ pc'[q] = pc[q]
  BY <1>1, <1>2 DEF Kinds
<1> HIDE DEF new
<1>7. OneCommand'
  BY <1>1, <1>3 DEF SyncInv, OneCommand
<1>8. OneWaiter'
  BY <1>6 DEF SyncInv, OneWaiter, Waiting
<1>9. Matched'
  <2>1. ASSUME NEW q \in Runs, Waiting(q)', NEW c \in sent' PROVE Of(q, c)'
    BY <1>1, <1>3, <1>6, <2>1 DEF SyncInv, Matched, Waiting, Of
  <2>2. ASSUME NEW q \in Runs, Waiting(q)', NEW k \in tasks' PROVE Of(q, k.cmd)'
    BY <1>6, <2>2 DEF SyncInv, Matched, Waiting, Of
  <2>3. ASSUME NEW q \in Runs, Waiting(q)', NEW a \in answers' PROVE Of(q, a.cmd)'
    BY <1>6, <2>3 DEF SyncInv, Matched, Waiting, Of
  <2> QED BY <2>1, <2>2, <2>3 DEF Matched
<1> QED BY <1>5, <1>7, <1>8, <1>9

LEMMA EndKeeps ==
    ASSUME SyncInv, NEW r \in Runs, EndRun(r), tasks' = tasks, answers' \subseteq answers
    PROVE  /\ pc' \in [Runs -> Kinds \cup {"idle"}] /\ act' \in [Runs -> Acts \cup {Idle}]
           /\ \A q \in Runs : pc'[q] # "idle" => act'[q] \in Acts
           /\ sent' \subseteq Commands
           /\ OneCommand' /\ OneWaiter' /\ Matched'
<1>1. pc' = [pc EXCEPT ![r] = "idle"] /\ act' = [act EXCEPT ![r] = Idle] /\ sent' = sent
  BY DEF EndRun
<1>2. /\ pc \in [Runs -> Kinds \cup {"idle"}] /\ act \in [Runs -> Acts \cup {Idle}]
      /\ \A q \in Runs : pc[q] # "idle" => act[q] \in Acts
      /\ sent \subseteq Commands
  BY DEF SyncInv, TypeOK
<1>3. /\ pc' \in [Runs -> Kinds \cup {"idle"}] /\ act' \in [Runs -> Acts \cup {Idle}]
      /\ \A q \in Runs : pc'[q] # "idle" => act'[q] \in Acts
      /\ sent' \subseteq Commands
  BY <1>1, <1>2
<1>4. \A q \in Runs : pc'[q] # "idle" => act'[q] = act[q] /\ pc'[q] = pc[q]
  BY <1>1, <1>2
<1>5. OneCommand'
  BY <1>1 DEF SyncInv, OneCommand
<1>6. OneWaiter' /\ Matched'
  BY <1>1, <1>4 DEF SyncInv, OneWaiter, Matched, Waiting, Of
<1> QED BY <1>3, <1>5, <1>6

LEMMA StartKeeps ==
    ASSUME SyncInv, NEW r \in Runs, NEW force \in BOOLEAN, Start(r, force)
    PROVE  SyncInv'
<1>1. PICK id \in Ids \ InUse :
         /\ SendCommand(r, "sync", id, id, desired)
         /\ vetoed' = vetoed \ {id} /\ performed' = performed \ {id}
  BY DEF Start
<1>2. UNCHANGED <<desired, recorded, up, answers, tasks, file, live>>
  BY DEF Start
<1>3. /\ \A c \in sent : c.id # id
      /\ \A k \in tasks : k.cmd.id # id /\ k.cmd.origin # id
      /\ \A a \in answers : a.cmd.id # id /\ a.cmd.origin # id
      /\ \A q \in Runs : Waiting(q) => act[q].id # id
  BY InUseContains
<1>4. id \in Ids /\ "sync" \in Kinds /\ desired \in Contents
  BY DEF SyncInv, TypeOK, Kinds
<1>5. /\ pc' \in [Runs -> Kinds \cup {"idle"}] /\ act' \in [Runs -> Acts \cup {Idle}]
      /\ \A q \in Runs : pc'[q] # "idle" => act'[q] \in Acts
      /\ sent' \subseteq Commands
      /\ OneCommand' /\ OneWaiter' /\ Matched'
  BY <1>1, <1>2, <1>3, <1>4, SendKeeps
<1>6. Done'
  BY <1>1, <1>2, <1>3 DEF SyncInv, Done, StepOfKind
<1>7. TypeOK'
  BY <1>1, <1>2, <1>5 DEF SyncInv, TypeOK
<1> QED BY <1>5, <1>6, <1>7 DEF SyncInv

(* The two ways on from an answer, or from none.                           *)
LEMMA FallbackKeeps ==
    ASSUME SyncInv, NEW r \in Runs, Waiting(r), Fallback(r),
           tasks' = tasks, answers' \subseteq answers
    PROVE  /\ pc' \in [Runs -> Kinds \cup {"idle"}] /\ act' \in [Runs -> Acts \cup {Idle}]
           /\ \A q \in Runs : pc'[q] # "idle" => act'[q] \in Acts
           /\ sent' \subseteq Commands
           /\ OneCommand' /\ OneWaiter' /\ Matched'
<1>1. CASE up
  <2>1. PICK id \in Ids \ InUse :
           SendCommand(r, IF act[r].content = Absent THEN "delete" ELSE "write",
                       id, act[r].origin, act[r].content)
    BY <1>1 DEF Fallback
  <2>2. /\ \A c \in sent : c.id # id
        /\ \A k \in tasks : k.cmd.id # id
        /\ \A a \in answers' : a.cmd.id # id
        /\ \A q \in Runs : Waiting(q) => act[q].id # id
    BY InUseContains
  <2>3. act[r].origin \in Ids /\ act[r].content \in Contents
    BY DEF SyncInv, TypeOK, Waiting, Acts
  <2>4. id \in Ids /\ (IF act[r].content = Absent THEN "delete" ELSE "write") \in Kinds
    BY DEF Kinds
  <2> QED BY <2>1, <2>2, <2>3, <2>4, SendKeeps
<1>2. CASE ~up
  BY <1>2, EndKeeps DEF Fallback
<1> QED BY <1>1, <1>2

LEMMA GiveUpKeeps ==
    ASSUME SyncInv, NEW r \in Runs, GiveUp(r)
    PROVE  SyncInv'
<1>1. Waiting(r) /\ (Fallback(r) \/ EndRun(r)) /\ UNCHANGED <<desired, recorded, up, answers, agent>>
  BY DEF GiveUp
<1>2. UNCHANGED <<tasks, file, live, vetoed, performed>>
  BY <1>1 DEF agent
<1>3. /\ pc' \in [Runs -> Kinds \cup {"idle"}] /\ act' \in [Runs -> Acts \cup {Idle}]
      /\ \A q \in Runs : pc'[q] # "idle" => act'[q] \in Acts
      /\ sent' \subseteq Commands
      /\ OneCommand' /\ OneWaiter' /\ Matched'
  BY <1>1, <1>2, FallbackKeeps, EndKeeps
<1>4. Done'
  BY <1>1, <1>2 DEF SyncInv, Done, StepOfKind
<1>5. TypeOK'
  BY <1>1, <1>2, <1>3 DEF SyncInv, TypeOK
<1> QED BY <1>3, <1>4, <1>5 DEF SyncInv

LEMMA ReceiveKeeps ==
    ASSUME SyncInv, NEW r \in Runs, NEW a \in answers, Receive(r, a)
    PROVE  SyncInv'
<1>1. /\ Waiting(r) /\ a.cmd.id = act[r].id /\ answers' = answers \ {a}
      /\ UNCHANGED <<desired, up, agent>>
  BY DEF Receive
<1>2. UNCHANGED <<tasks, file, live, vetoed, performed>>
  BY <1>1 DEF agent
<1>3. act[r].origin \in Ids /\ act[r].content \in Contents /\ a.cmd.id \in Ids
  BY <1>1 DEF SyncInv, TypeOK, Waiting, Acts, Answers, Commands
<1>4. recorded' \in Contents
  <2>1. recorded' = act[r].content \/ recorded' = recorded
    BY DEF Receive
  <2> QED BY <1>3, <2>1 DEF SyncInv, TypeOK
<1>5. \/ EndRun(r) \/ Fallback(r)
      \/ \E id \in (Ids \ InUse) \cup {a.cmd.id} :
            SendCommand(r, "reload", id, act[r].origin, act[r].content)
  BY DEF Receive
<1>6. /\ pc' \in [Runs -> Kinds \cup {"idle"}] /\ act' \in [Runs -> Acts \cup {Idle}]
      /\ \A q \in Runs : pc'[q] # "idle" => act'[q] \in Acts
      /\ sent' \subseteq Commands
      /\ OneCommand' /\ OneWaiter' /\ Matched'
  <2>1. CASE EndRun(r) \/ Fallback(r)
    BY <1>1, <1>2, <2>1, EndKeeps, FallbackKeeps
  <2>2. ASSUME NEW id \in (Ids \ InUse) \cup {a.cmd.id},
               SendCommand(r, "reload", id, act[r].origin, act[r].content)
        PROVE  /\ pc' \in [Runs -> Kinds \cup {"idle"}] /\ act' \in [Runs -> Acts \cup {Idle}]
               /\ \A q \in Runs : pc'[q] # "idle" => act'[q] \in Acts
               /\ sent' \subseteq Commands
               /\ OneCommand' /\ OneWaiter' /\ Matched'
    <3>1. CASE id \in Ids \ InUse
      <4>1. /\ \A c \in sent : c.id # id
            /\ \A k \in tasks : k.cmd.id # id
            /\ \A b \in answers' : b.cmd.id # id
            /\ \A q \in Runs : Waiting(q) => act[q].id # id
        BY <1>1, <3>1, InUseContains
      <4> QED BY <1>1, <1>2, <1>3, <2>2, <3>1, <4>1, SendKeeps DEF Kinds
    <3>2. CASE id = a.cmd.id
      <4>1. /\ \A c \in sent : c.id # id
            /\ \A k \in tasks : k.cmd.id # id
            /\ \A b \in answers' : b.cmd.id # id
        BY <1>1, <3>2 DEF SyncInv, OneCommand
      <4>2. \A q \in Runs : Waiting(q) /\ q # r => act[q].id # id
        BY <1>1, <3>2 DEF SyncInv, OneWaiter
      <4> QED BY <1>1, <1>2, <1>3, <2>2, <3>2, <4>1, <4>2, SendKeeps DEF Kinds
    <3> QED BY <2>2, <3>1, <3>2
  <2> QED BY <1>5, <2>1, <2>2
<1>7. Done'
  BY <1>1, <1>2 DEF SyncInv, Done, StepOfKind
<1>8. TypeOK'
  BY <1>1, <1>2, <1>4, <1>6 DEF SyncInv, TypeOK
<1> QED BY <1>6, <1>7, <1>8 DEF SyncInv

-----------------------------------------------------------------------------
(* On its way to the agent and back a command stays one.                   *)

LEMMA DropKeeps ==
    ASSUME SyncInv, NEW a \in answers, DropAnswer(a)
    PROVE  SyncInv'
<1>1. answers' \subseteq answers /\ UNCHANGED <<up, sent, controller, agent>>
  BY DEF DropAnswer
<1> QED BY <1>1 DEF controller, agent, SyncInv, TypeOK, OneCommand, OneWaiter, Matched, Waiting, Of,
                    Done, StepOfKind

LEMMA SpawnedTyped ==
    ASSUME NEW c \in Commands, NEW heard \in BOOLEAN
    PROVE  /\ Spawned(c, heard) \in Tasks /\ Spawned(c, heard).cmd = c
           /\ Spawned(c, heard).step # "post" /\ StepOfKind(Spawned(c, heard))
<1>1. c.kind \in Kinds
  BY DEF Commands
<1>2. FirstStep(c) \in {"pre", "write", "delete", "reload"}
  BY <1>1 DEF FirstStep, Kinds
<1>3. Spawned(c, heard) = [cmd |-> c, step |-> FirstStep(c), good |-> TRUE, heard |-> heard]
  BY DEF Spawned
<1>4. /\ FirstStep(c) = "pre" => c.kind = "sync"
      /\ FirstStep(c) = "write" => c.kind = "write"
      /\ FirstStep(c) = "reload" => c.kind = "reload"
      /\ FirstStep(c) = "delete" => c.kind = "delete"
  BY <1>1 DEF FirstStep, Kinds
<1> QED BY <1>2, <1>3, <1>4 DEF Tasks, StepOfKind

LEMMA DeliverKeeps ==
    ASSUME SyncInv, NEW c \in sent, Deliver(c)
    PROVE  SyncInv'
<1>1. /\ sent' = sent \ {c} /\ tasks' = tasks \cup {Spawned(c, TRUE)}
      /\ UNCHANGED <<controller, up, answers, file, live, vetoed, performed>>
  BY DEF Deliver
<1>2. /\ Spawned(c, TRUE) \in Tasks /\ Spawned(c, TRUE).cmd = c
      /\ Spawned(c, TRUE).step # "post" /\ StepOfKind(Spawned(c, TRUE))
  BY SpawnedTyped DEF SyncInv, TypeOK
<1>3. UNCHANGED <<desired, recorded, pc, act>>
  BY <1>1 DEF controller
<1>4. TypeOK'
  BY <1>1, <1>2, <1>3 DEF SyncInv, TypeOK
<1>5. OneCommand /\ OneWaiter /\ Matched
  BY DEF SyncInv
<1>6. /\ \A k \in tasks' : k \in tasks \/ (k = Spawned(c, TRUE) /\ k.cmd = c)
      /\ \A d \in sent' : d \in sent /\ d.id # c.id
      /\ \A k \in tasks : k.cmd.id # c.id
      /\ \A a \in answers' : a \in answers /\ a.cmd.id # c.id
  BY <1>1, <1>2, <1>5 DEF OneCommand
<1>7. \A j, k \in tasks' : j.cmd.id = k.cmd.id => j = k
  BY <1>5, <1>6 DEF OneCommand
<1>8. OneCommand'
  BY <1>5, <1>6, <1>7 DEF OneCommand
<1>9. \A k \in tasks' : k \in tasks \/ k.cmd \in sent
  BY <1>6
<1>10. OneWaiter' /\ Matched'
  BY <1>3, <1>5, <1>6, <1>9 DEF OneWaiter, Matched, Waiting, Of
<1>11. Done'
  BY <1>1, <1>2 DEF SyncInv, Done, StepOfKind
<1> QED BY <1>4, <1>8, <1>10, <1>11 DEF SyncInv

(* A task goes on to another step, or ends with an answer that may be lost.*)
LEMMA TaskKeeps ==
    ASSUME SyncInv, NEW k \in tasks, UNCHANGED <<controller, up, sent>>,
           NEW new,
           \/ /\ new \in Tasks /\ new.cmd = k.cmd /\ tasks' = (tasks \ {k}) \cup {new}
              /\ answers' = answers
           \/ /\ tasks' = tasks \ {k} /\ new \in Answers /\ new.cmd = k.cmd
              /\ answers' \in {answers, answers \cup {new}}
    PROVE  tasks' \subseteq Tasks /\ answers' \subseteq Answers
           /\ OneCommand' /\ OneWaiter' /\ Matched'
<1>1. UNCHANGED <<pc, act, sent>>
  BY DEF controller
<1>2. tasks' \subseteq Tasks /\ answers' \subseteq Answers
  BY DEF SyncInv, TypeOK
<1>3. OneCommand /\ OneWaiter /\ Matched
  BY DEF SyncInv
<1>4. CASE new \in Tasks /\ new.cmd = k.cmd /\ tasks' = (tasks \ {k}) \cup {new} /\ answers' = answers
  <2>1. /\ \A j \in tasks' : j.cmd.id # k.cmd.id => j \in tasks
        /\ \A j \in tasks' : j.cmd.id = k.cmd.id => j = new
        /\ \A j \in tasks' : \E h \in tasks : j.cmd = h.cmd
    BY <1>3, <1>4 DEF OneCommand
  <2>2. \A j, h \in tasks' : j.cmd.id = h.cmd.id => j = h
    BY <1>3, <2>1 DEF OneCommand
  <2>3. /\ \A c \in sent' : (\A j \in tasks' : c.id # j.cmd.id) /\ (\A a \in answers' : c.id # a.cmd.id)
        /\ \A j \in tasks', a \in answers' : j.cmd.id # a.cmd.id
    BY <1>1, <1>3, <1>4, <2>1 DEF OneCommand
  <2>4. OneCommand'
    BY <1>1, <1>3, <1>4, <2>2, <2>3 DEF OneCommand
  <2>5. OneWaiter' /\ Matched'
    BY <1>1, <1>3, <1>4, <2>1 DEF OneWaiter, Matched, Waiting, Of
  <2> QED BY <1>2, <2>4, <2>5
<1>5. CASE tasks' = tasks \ {k} /\ new \in Answers /\ new.cmd = k.cmd /\ answers' \subseteq answers \cup {new}
  <2>1. /\ \A j \in tasks' : j \in tasks /\ j.cmd.id # k.cmd.id
        /\ \A a \in answers' : a \in answers \/ a = new
        /\ \A a \in answers : a.cmd.id # k.cmd.id
        /\ \A c \in sent : c.id # k.cmd.id
    BY <1>3, <1>5 DEF OneCommand
  <2>2. \A a, b \in answers' : a.cmd.id = b.cmd.id => a = b
    BY <1>3, <1>5, <2>1 DEF OneCommand
  <2>3. /\ \A c \in sent' : (\A j \in tasks' : c.id # j.cmd.id) /\ (\A a \in answers' : c.id # a.cmd.id)
        /\ \A j \in tasks', a \in answers' : j.cmd.id # a.cmd.id
    BY <1>1, <1>3, <1>5, <2>1 DEF OneCommand
  <2>4. OneCommand'
    BY <1>1, <1>3, <2>1, <2>2, <2>3 DEF OneCommand
  <2>5. OneWaiter' /\ Matched'
    BY <1>1, <1>3, <1>5, <2>1 DEF OneWaiter, Matched, Waiting, Of
  <2> QED BY <1>2, <2>4, <2>5
<1>6. answers' \in {answers, answers \cup {new}} => answers' \subseteq answers \cup {new}
  OBVIOUS
<1> QED BY <1>2, <1>4, <1>5, <1>6

LEMMA AdvanceKeeps ==
    ASSUME SyncInv, NEW k \in tasks, UNCHANGED <<controller, up, sent>>,
           NEW step \in {"pre", "write", "delete", "reload", "post"}, NEW good \in BOOLEAN,
           Advance(k, step, good), performed \subseteq performed',
           StepOfKind([k EXCEPT !.step = step, !.good = good]),
           step = "post" /\ good => k.cmd.origin \in performed'
    PROVE  tasks' \subseteq Tasks /\ answers' \subseteq Answers
           /\ OneCommand' /\ OneWaiter' /\ Matched' /\ Done'
<1> DEFINE new == [k EXCEPT !.step = step, !.good = good]
<1>1. /\ new \in Tasks /\ new.cmd = k.cmd /\ new.step = step /\ new.good = good
  BY DEF SyncInv, TypeOK, Tasks
<1>2. tasks' = (tasks \ {k}) \cup {new} /\ answers' = answers
  BY DEF Advance
<1> HIDE DEF new
<1>3. Done'
  BY <1>1, <1>2 DEF SyncInv, Done, StepOfKind, new
<1> QED BY <1>1, <1>2, <1>3, TaskKeeps

LEMMA AnswerKeeps ==
    ASSUME SyncInv, NEW k \in tasks, UNCHANGED <<controller, up, sent>>,
           NEW ok \in BOOLEAN, Answer(k, ok), performed \subseteq performed',
           ok /\ k.cmd.kind # "write" => k.cmd.origin \in performed'
    PROVE  tasks' \subseteq Tasks /\ answers' \subseteq Answers
           /\ OneCommand' /\ OneWaiter' /\ Matched' /\ Done'
<1>1. PICK unknown \in BOOLEAN :
         answers' = IF k.heard THEN answers \cup {[cmd |-> k.cmd, ok |-> ok, unknown |-> unknown]}
                    ELSE answers
  BY DEF Answer
<1> DEFINE new == [cmd |-> k.cmd, ok |-> ok, unknown |-> unknown]
<1>2. new \in Answers /\ new.cmd = k.cmd /\ new.ok = ok
  BY DEF SyncInv, TypeOK, Tasks, Answers
<1>3. tasks' = tasks \ {k} /\ answers' \in {answers, answers \cup {new}}
  BY <1>1 DEF Answer
<1> HIDE DEF new
<1>4. Done'
  BY <1>2, <1>3 DEF SyncInv, Done, StepOfKind
<1> QED BY <1>2, <1>3, <1>4, TaskKeeps

LEMMA ConcludeKeeps ==
    ASSUME SyncInv, NEW k \in tasks, UNCHANGED <<controller, up, sent>>,
           NEW good \in BOOLEAN, Conclude(k, good), performed \subseteq performed',
           good => k.cmd.origin \in performed'
    PROVE  tasks' \subseteq Tasks /\ answers' \subseteq Answers
           /\ OneCommand' /\ OneWaiter' /\ Matched' /\ Done'
<1>1. CASE k.cmd.kind = "sync"
  <2>1. Advance(k, "post", good)
    BY <1>1 DEF Conclude
  <2>2. StepOfKind([k EXCEPT !.step = "post", !.good = good])
    BY <1>1 DEF SyncInv, TypeOK, Tasks, StepOfKind
  <2> QED BY <2>1, <2>2, AdvanceKeeps
<1>2. CASE k.cmd.kind # "sync"
  BY <1>2, AnswerKeeps DEF Conclude
<1> QED BY <1>1, <1>2

LEMMA TaskStepKeeps ==
    ASSUME SyncInv, NEW k \in tasks, TaskStep(k)
    PROVE  SyncInv'
<1>0. /\ UNCHANGED <<controller, up, sent>> /\ performed \subseteq performed'
      /\ k.step \in {"pre", "write", "reload", "delete", "post"} /\ k.good \in BOOLEAN
      /\ StepOfKind(k) /\ k.cmd \in Commands
      /\ file \in Contents /\ live \in Contents /\ k.cmd.content \in Contents
      /\ k.cmd.origin \in Ids
  <2>1. UNCHANGED <<controller, up, sent>>
    BY DEF TaskStep, PreSync, WriteFile, Reload, DeleteInterface, PostSync
  <2>2. performed \subseteq performed'
    BY DEF TaskStep, PreSync, WriteFile, Reload, DeleteInterface, PostSync
  <2> QED BY <2>1, <2>2 DEF SyncInv, TypeOK, Tasks, Commands, Done
<1>1. /\ tasks' \subseteq Tasks /\ answers' \subseteq Answers
      /\ OneCommand' /\ OneWaiter' /\ Matched' /\ Done'
      /\ file' \in Contents /\ live' \in Contents /\ vetoed' \subseteq Ids /\ performed' \subseteq Ids
  <2>1. CASE PreSync(k)
    <3>1. UNCHANGED <<file, live, performed>> /\ vetoed' \subseteq vetoed \cup {k.cmd.origin}
      BY <2>1 DEF PreSync
    <3>2. CASE Advance(k, IF k.cmd.content = Absent THEN "delete" ELSE "write", TRUE)
      <4>1. k.cmd.kind = "sync"
        BY <2>1, <1>0 DEF PreSync, StepOfKind
      <4>2. StepOfKind([k EXCEPT !.step = IF k.cmd.content = Absent THEN "delete" ELSE "write",
                                 !.good = TRUE])
        BY <4>1 DEF SyncInv, TypeOK, Tasks, StepOfKind
      <4>3. /\ tasks' \subseteq Tasks /\ answers' \subseteq Answers
            /\ OneCommand' /\ OneWaiter' /\ Matched' /\ Done'
        BY <1>0, <3>2, <4>2, AdvanceKeeps
      <4> QED BY <1>0, <3>1, <4>3 DEF SyncInv, TypeOK
    <3>3. CASE Answer(k, FALSE)
      <4>1. /\ tasks' \subseteq Tasks /\ answers' \subseteq Answers
            /\ OneCommand' /\ OneWaiter' /\ Matched' /\ Done'
        BY <1>0, <3>3, AnswerKeeps
      <4> QED BY <1>0, <3>1, <4>1 DEF SyncInv, TypeOK
    <3> QED BY <2>1, <3>2, <3>3 DEF PreSync
  <2>2. CASE WriteFile(k)
    <3>1. UNCHANGED <<live, vetoed, performed>> /\ file' \in Contents
      BY <2>2, <1>0 DEF WriteFile
    <3>2. k.cmd.kind \in {"sync", "write"}
      BY <2>2, <1>0 DEF WriteFile, StepOfKind
    <3>3. CASE k.cmd.kind = "sync" /\ Advance(k, "reload", TRUE)
      <4>1. StepOfKind([k EXCEPT !.step = "reload", !.good = TRUE])
        BY <3>3 DEF SyncInv, TypeOK, Tasks, StepOfKind
      <4>2. /\ tasks' \subseteq Tasks /\ answers' \subseteq Answers
            /\ OneCommand' /\ OneWaiter' /\ Matched' /\ Done'
        BY <1>0, <3>3, <4>1, AdvanceKeeps
      <4> QED BY <1>0, <3>1, <4>2 DEF SyncInv, TypeOK
    <3>4. CASE k.cmd.kind = "write" /\ Answer(k, TRUE)
      <4>1. /\ tasks' \subseteq Tasks /\ answers' \subseteq Answers
            /\ OneCommand' /\ OneWaiter' /\ Matched' /\ Done'
        BY <1>0, <3>4, AnswerKeeps
      <4> QED BY <1>0, <3>1, <4>1 DEF SyncInv, TypeOK
    <3>5. CASE Conclude(k, FALSE)
      <4>1. /\ tasks' \subseteq Tasks /\ answers' \subseteq Answers
            /\ OneCommand' /\ OneWaiter' /\ Matched' /\ Done'
        BY <1>0, <3>5, ConcludeKeeps
      <4> QED BY <1>0, <3>1, <4>1 DEF SyncInv, TypeOK
    <3> QED BY <2>2, <3>2, <3>3, <3>4, <3>5 DEF WriteFile
  <2>3. CASE Reload(k)
    <3>1. /\ UNCHANGED <<file, vetoed>> /\ live' \in Contents
          /\ performed' \subseteq performed \cup {k.cmd.origin}
      BY <2>3, <1>0 DEF Reload
    <3>2. PICK good \in BOOLEAN : Conclude(k, good) /\ (good => k.cmd.origin \in performed')
      BY <2>3 DEF Reload
    <3>3. /\ tasks' \subseteq Tasks /\ answers' \subseteq Answers
          /\ OneCommand' /\ OneWaiter' /\ Matched' /\ Done'
      BY <1>0, <3>2, ConcludeKeeps
    <3> QED BY <1>0, <3>1, <3>3 DEF SyncInv, TypeOK
  <2>4. CASE DeleteInterface(k)
    <3>1. /\ UNCHANGED vetoed /\ live' \in Contents /\ file' \in Contents
          /\ performed' \subseteq performed \cup {k.cmd.origin}
      BY <2>4, <1>0 DEF DeleteInterface, Contents
    <3>2. PICK good \in BOOLEAN : Conclude(k, good) /\ (good => k.cmd.origin \in performed')
      BY <2>4 DEF DeleteInterface
    <3>3. /\ tasks' \subseteq Tasks /\ answers' \subseteq Answers
          /\ OneCommand' /\ OneWaiter' /\ Matched' /\ Done'
      BY <1>0, <3>2, ConcludeKeeps
    <3> QED BY <1>0, <3>1, <3>3 DEF SyncInv, TypeOK
  <2>5. CASE PostSync(k)
    <3>1. UNCHANGED <<file, live, vetoed, performed>>
      BY <2>5 DEF PostSync
    <3>2. PICK ok \in BOOLEAN : Answer(k, ok) /\ (ok => k.good)
      BY <2>5, <1>0 DEF PostSync
    <3>3. k.good => k.cmd.origin \in performed'
      BY <2>5, <3>1 DEF PostSync, SyncInv, Done
    <3>4. /\ tasks' \subseteq Tasks /\ answers' \subseteq Answers
          /\ OneCommand' /\ OneWaiter' /\ Matched' /\ Done'
      BY <1>0, <3>2, <3>3, AnswerKeeps
    <3> QED BY <1>0, <3>1, <3>4 DEF SyncInv, TypeOK
  <2> QED BY <2>1, <2>2, <2>3, <2>4, <2>5 DEF TaskStep
<1>2. TypeOK'
  BY <1>0, <1>1 DEF SyncInv, TypeOK, controller
<1> QED BY <1>1, <1>2 DEF SyncInv

(* A broken connection loses commands and answers, and keeps the tasks.    *)
LEMMA ConnectionKeeps ==
    ASSUME SyncInv, Connect \/ Disconnect \/ AgentRestart
    PROVE  SyncInv'
<1>1. CASE Connect
  BY <1>1 DEF Connect, controller, agent, SyncInv, TypeOK, OneCommand, OneWaiter, Matched, Waiting, Of,
              Done, StepOfKind
<1>2. CASE AgentRestart
  BY <1>2 DEF AgentRestart, controller, SyncInv, TypeOK, OneCommand, OneWaiter, Matched, Waiting, Of,
              Done
<1>3. CASE Disconnect
  <2>1. PICK through \in SUBSET sent :
           tasks' = {[k EXCEPT !.heard = FALSE] : k \in tasks} \cup {Spawned(c, FALSE) : c \in through}
    BY <1>3 DEF Disconnect
  <2>2. /\ up' = FALSE /\ sent' = {} /\ answers' = {}
        /\ UNCHANGED <<desired, recorded, pc, act, file, live, vetoed, performed>>
    BY <1>3 DEF Disconnect, controller
  <2>3. ASSUME NEW j \in tasks'
        PROVE  /\ j \in Tasks /\ StepOfKind(j) /\ (j.step = "post" /\ j.good => j.cmd.origin \in performed)
               /\ \/ \E k \in tasks : j = [k EXCEPT !.heard = FALSE] /\ j.cmd = k.cmd
                  \/ \E c \in sent : j = Spawned(c, FALSE) /\ j.cmd = c
    <3>1. CASE \E k \in tasks : j = [k EXCEPT !.heard = FALSE]
      <4>1. PICK k \in tasks : j = [k EXCEPT !.heard = FALSE]
        BY <3>1
      <4>2. k \in Tasks /\ StepOfKind(k) /\ (k.step = "post" /\ k.good => k.cmd.origin \in performed)
        BY DEF SyncInv, TypeOK, Done
      <4>3. j \in Tasks /\ j.cmd = k.cmd /\ j.step = k.step /\ j.good = k.good
        BY <4>1, <4>2 DEF Tasks
      <4> QED BY <4>1, <4>2, <4>3 DEF StepOfKind
    <3>2. CASE \E c \in through : j = Spawned(c, FALSE)
      BY <3>2, SpawnedTyped DEF SyncInv, TypeOK
    <3> QED BY <2>1, <3>1, <3>2
  <2>4. TypeOK'
    BY <2>2, <2>3 DEF SyncInv, TypeOK
  <2>5. OneCommand'
    <3>1. ASSUME NEW i \in tasks', NEW j \in tasks', i.cmd.id = j.cmd.id PROVE i = j
      <4>1. CASE \E k \in tasks : i = [k EXCEPT !.heard = FALSE] /\ i.cmd = k.cmd
        <5>1. PICK k \in tasks : i = [k EXCEPT !.heard = FALSE] /\ i.cmd = k.cmd
          BY <4>1
        <5>2. ~\E c \in sent : j.cmd = c
          BY <3>1, <5>1 DEF SyncInv, OneCommand
        <5>3. PICK h \in tasks : j = [h EXCEPT !.heard = FALSE] /\ j.cmd = h.cmd
          BY <2>3, <5>2
        <5>4. k = h
          BY <3>1, <5>1, <5>3 DEF SyncInv, OneCommand
        <5> QED BY <5>1, <5>3, <5>4
      <4>2. CASE \E c \in sent : i = Spawned(c, FALSE) /\ i.cmd = c
        <5>1. PICK c \in sent : i = Spawned(c, FALSE) /\ i.cmd = c
          BY <4>2
        <5>2. ~\E h \in tasks : j.cmd = h.cmd
          BY <3>1, <5>1 DEF SyncInv, OneCommand
        <5>3. PICK d \in sent : j = Spawned(d, FALSE) /\ j.cmd = d
          BY <2>3, <5>2
        <5>4. c = d
          BY <3>1, <5>1, <5>3 DEF SyncInv, OneCommand
        <5> QED BY <5>1, <5>3, <5>4
      <4> QED BY <2>3, <4>1, <4>2
    <3> QED BY <2>2, <3>1 DEF OneCommand
  <2>6. OneWaiter' /\ Matched'
    <3>1. \A j \in tasks' : (\E k \in tasks : j.cmd = k.cmd) \/ (\E c \in sent : j.cmd = c)
      BY <2>3
    <3> QED BY <2>2, <3>1 DEF SyncInv, OneWaiter, Matched, Waiting, Of
  <2>7. Done'
    BY <2>2, <2>3 DEF Done
  <2> QED BY <2>4, <2>5, <2>6, <2>7 DEF SyncInv
<1> QED BY <1>1, <1>2, <1>3

-----------------------------------------------------------------------------
LEMMA SyncInit ==
    ASSUME Init
    PROVE  SyncInv
<1>1. TypeOK
  BY DEF Init, TypeOK, Contents
<1> QED BY <1>1 DEF Init, SyncInv, OneCommand, OneWaiter, Matched, Waiting, Done

LEMMA SyncStep ==
    ASSUME SyncInv, [Next]_vars
    PROVE  SyncInv'
<1>1. ASSUME NEW v \in Contents, Edit(v) PROVE SyncInv'
  BY <1>1 DEF Edit, agent, network, SyncInv, TypeOK, OneCommand, OneWaiter, Matched, Waiting, Of,
              Done, StepOfKind
<1>2. CASE UNCHANGED vars
  BY <1>2 DEF vars, controller, agent, network, SyncInv, TypeOK, OneCommand, OneWaiter, Matched,
              Waiting, Of, Done, StepOfKind
<1> QED BY <1>1, <1>2, StartKeeps, GiveUpKeeps, ReceiveKeeps, DropKeeps, DeliverKeeps, TaskStepKeeps,
           ConnectionKeeps DEF Next

LEMMA AlwaysSync == Spec => []SyncInv
BY SyncInit, SyncStep, PTL DEF Spec

(* The types of the controller, the network and the agent's tasks.         *)
THEOREM SyncTyped == Spec => []TypeOK
<1>1. SyncInv => TypeOK
  BY DEF SyncInv
<1> QED BY <1>1, AlwaysSync, PTL

(* executeAgentSyncAction records a content only for an action the agent   *)
(* has carried out to its end, whatever is late, lost or given up.         *)
THEOREM RecordsEarned == Spec => RecordsAreEarned
<1>1. SyncInv => EarnsRecord
  <2> SUFFICES ASSUME SyncInv, NEW r \in Runs, NEW a \in answers, Receive(r, a), recorded' # recorded
               PROVE  act[r].origin \in performed
    BY DEF EarnsRecord
  <2>1. /\ Waiting(r) /\ a.cmd.id = act[r].id /\ a.ok
        /\ pc[r] \in {"sync", "reload", "delete"}
    BY DEF Receive
  <2>2. a.cmd.origin = act[r].origin /\ a.cmd.kind = pc[r]
    BY <2>1 DEF SyncInv, Matched, Of
  <2> QED BY <2>1, <2>2 DEF SyncInv, Done
<1> QED BY <1>1, AlwaysSync, PTL DEF RecordsAreEarned
=============================================================================
