---------------------------- MODULE ServerTasks ----------------------------
(***************************************************************************)
(* The background tasks of the server (internal/engine/server_tasks.go,    *)
(* cron_schedule.go): a ticker starts them by their schedules, a request   *)
(* starts them at once, and a flag is meant to keep the runs of a task     *)
(* apart.                                                                  *)
(***************************************************************************)
EXTENDS Naturals, FiniteSets

CONSTANTS
    Tasks,         \* the predefined tasks
    WithSeconds,   \* those whose schedule has six fields, every second here; the others
                   \* are due every minute
    Goroutines,    \* bound: those that execute tasks
    Minute,        \* seconds in a minute
    LastSecond,    \* bound: the ticker stops
    None

VARIABLES
    now,           \* the second of the last tick
    left,          \* the tasks the scheduler has not looked at in this tick
    enabled,       \* the tasks enabled in the configuration
    lastFiredSlot, \* the slot each task was last started in by its schedule
    runningTasks,  \* the flags
    pc,            \* where each goroutine is
    job,           \* the task it executes
    fired          \* how often the schedule started each task in each slot

schedule == <<now, left, lastFiredSlot, fired>>
vars == <<schedule, enabled, runningTasks, pc, job>>

Seconds == 0..LastSecond

TypeOK ==
    /\ now \in Seconds
    /\ left \subseteq Tasks
    /\ enabled \subseteq Tasks
    /\ lastFiredSlot \in [Tasks -> Seconds \cup {None}]
    /\ runningTasks \subseteq Tasks
    /\ pc \in [Goroutines -> {"idle", "begin", "work", "clear", "deferred"}]
    /\ job \in [Goroutines -> Tasks \cup {None}]
    /\ \A g \in Goroutines : pc[g] = "idle" <=> job[g] = None
    /\ fired \in [Tasks \X Seconds -> Nat]

Init ==
    /\ now = 0
    /\ left = {}
    /\ enabled = Tasks
    /\ lastFiredSlot = [t \in Tasks |-> None]
    /\ runningTasks = {}
    /\ pc = [g \in Goroutines |-> "idle"]
    /\ job = [g \in Goroutines |-> None]
    /\ fired = [s \in Tasks \X Seconds |-> 0]

(* A five-field schedule has one slot a minute, and matches in its second  *)
(* 0.                                                                      *)
Matches(t) == t \in WithSeconds \/ now % Minute = 0
Slot(t) == IF t \in WithSeconds THEN now ELSE now \div Minute

IdleOnes == {g \in Goroutines : pc[g] = "idle"}

Spawn(t) ==
    /\ IdleOnes # {}
    /\ LET g == CHOOSE i \in IdleOnes : TRUE IN
        /\ pc' = [pc EXCEPT ![g] = "begin"]
        /\ job' = [job EXCEPT ![g] = t]

Goto(g, step) == pc' = [pc EXCEPT ![g] = step]

(* A mutant: the job is not given up.                                      *)
ReturnOnly(g) == Goto(g, "idle") /\ UNCHANGED job

Return(g) == Goto(g, "idle") /\ job' = [job EXCEPT ![g] = None]

-----------------------------------------------------------------------------
(***************************************************************************)
(* The scheduler.                                                          *)
(***************************************************************************)
(* Ticks are a second apart, roughly: two may fall in the same second, or  *)
(* leave one out.                                                          *)
Tick ==
    /\ left = {}
    /\ now' \in {now, now + 1, now + 2} \cap Seconds
    /\ left' = enabled
    /\ UNCHANGED <<enabled, lastFiredSlot, fired, runningTasks, pc, job>>

Fire(t) ==
    /\ lastFiredSlot' = [lastFiredSlot EXCEPT ![t] = Slot(t)]
    /\ fired' = [fired EXCEPT ![<<t, Slot(t)>>] = @ + 1]
    /\ Spawn(t)

(* A mutant: the slot is not compared.                                     *)
VisitAgain(t) ==
    /\ t \in left
    /\ left' = left \ {t}
    /\ IF Matches(t) THEN Fire(t) ELSE UNCHANGED <<lastFiredSlot, fired, pc, job>>
    /\ UNCHANGED <<now, enabled, runningTasks>>

Visit(t) ==
    /\ t \in left
    /\ left' = left \ {t}
    /\ IF Matches(t) /\ lastFiredSlot[t] # Slot(t)
       THEN Fire(t)
       ELSE UNCHANGED <<lastFiredSlot, fired, pc, job>>
    /\ UNCHANGED <<now, enabled, runningTasks>>

UpdateServerTask(t) ==
    /\ enabled' \in {enabled \cup {t}, enabled \ {t}}
    /\ UNCHANGED <<schedule, runningTasks, pc, job>>

(* A request, and every other call of ExecuteServerTask.                   *)
Request(t) ==
    /\ Spawn(t)
    /\ UNCHANGED <<schedule, enabled, runningTasks>>

-----------------------------------------------------------------------------
(***************************************************************************)
(* ExecuteServerTask.                                                      *)
(***************************************************************************)
Begin(g) ==
    /\ pc[g] = "begin"
    /\ IF job[g] \in runningTasks
       THEN Return(g) /\ UNCHANGED runningTasks
       ELSE /\ runningTasks' = runningTasks \cup {job[g]}
            /\ Goto(g, "work")
            /\ UNCHANGED job
    /\ UNCHANGED <<schedule, enabled>>

(* The task is done and its state recorded, with or without an error.      *)
Work(g) ==
    /\ pc[g] = "work"
    /\ Goto(g, "clear")
    /\ UNCHANGED <<schedule, enabled, runningTasks, job>>

(* A mutant: the flag stays.                                               *)
Stay(g) == UNCHANGED runningTasks

Unset(g) == runningTasks' = runningTasks \ {job[g]}

(* The flag is cleared before the tasks are listed for the answer...       *)
Clear(g) ==
    /\ pc[g] = "clear"
    /\ Unset(g)
    /\ Goto(g, "deferred")
    /\ UNCHANGED <<schedule, enabled, job>>

(* ... and once more when the function returns, whoever has set it since.  *)
Deferred(g) ==
    /\ pc[g] = "deferred"
    /\ Unset(g)
    /\ Return(g)
    /\ UNCHANGED <<schedule, enabled>>

Next ==
    \/ Tick
    \/ \E t \in Tasks : Visit(t) \/ UpdateServerTask(t) \/ Request(t)
    \/ \E g \in Goroutines : Begin(g) \/ Work(g) \/ Clear(g) \/ Deferred(g)

Spec == Init /\ [][Next]_vars

-----------------------------------------------------------------------------
(* A task has one run at a time.                                           *)
OneRunAtATime ==
    \A g, h \in Goroutines : pc[g] = "work" /\ pc[h] = "work" /\ job[g] = job[h] => g = h

(* A flag is set only while somebody executes the task, so that it can     *)
(* always be started again.                                                *)
NeverStuck ==
    \A t \in runningTasks :
        \E g \in Goroutines : job[g] = t /\ pc[g] \in {"work", "clear", "deferred"}

(* A schedule starts its task once a slot, however the ticks fall.         *)
SlotFiresOnce == \A s \in Tasks \X Seconds : fired[s] <= 1
=============================================================================
