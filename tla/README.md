# Formal models of easy42

easy42 manages a personal DN42 network: one controller (Go, `src/internal`,
`src/cmd`) keeps the topology of nodes and tunnels, compiles it to WireGuard,
BIRD, ROA and nftables files, and brings them to the nodes over SSH or through an
agent on the node (Rust, `src/agent`). It is operated from a web client (React,
`src/web`). This directory holds TLA+ models of the parts whose difficulty lies
in concurrency, failures and order, TLC configurations that check them on small
instances, and proofs, checked by TLAPS, for instances of every size.

- [Inventory](#inventory): the components, and where they are hard
- [Modules](#modules): what is modelled, and how it corresponds to the code
- [Runs](#runs): what TLC checks, within which bounds
- [Fairness](#fairness)
- [Findings](#findings): where the code and what it says of itself differ
- [Proofs](#proofs)
- [Limits](#limits): what the models leave out, and behaviour that is accepted
- [Not modelled](#not-modelled)
- [Plan](#plan): what comes next

`PROJECT.json` lists, for every definition, the lines of source it models; for
every property, a plausible bug (a *mutant*, an operator defined before the one
it replaces) that breaks it; and the hazards of the code, each with the
properties about it.

## Inventory

Paths are relative to `src/`; `manager.go` is `internal/engine/manager.go`.

**Modelled (wholly or in part)**

| Component | State | Operations | Interacts with | What makes it correct |
|---|---|---|---|---|
| SSH sync (`manager.go` plan, execute; `internal/ssh/executor.go`, `sftp.go`; `internal/compiler/diff.go`) | topology; hashes of what was last applied; on the node: files, temporary files, running services | plan, order, execute, record | topology, vault, state store, devices | a record tells the truth about the node; differences are found and repaired; BIRD comes last |
| State collection (`Manager.UpdateState`) | interface records, and whole records of nodes read and put back | collect, read, put | runs beside syncs | no late record brings a difference back for good |
| Agent sync (`executeAgentSyncAction`; agent `client.rs`, `executor.rs`) | pending commands by id; on the agent: tasks, hooks, files, services | command, fallback, answer | hub, hooks | records only for what was carried out; a hook's veto holds; late tasks do not win |
| Agent hub (`internal/agent/hub.go`, `conn.go`; `internal/server/agent_handlers.go`) | connection by node name, telemetry, tokens and modes | authenticate, register, replace, close, uninstall | manager, WebSocket handlers | the live connection is the registered one; replaced and uninstalled ones go away |
| Config store (`internal/config/store.go`) | `config.json`, the object in memory, last hash and time | load, save, watch | every operation of the manager | reported changes stay, refused ones stay out, edits by hand arrive |
| Server tasks (`internal/engine/server_tasks.go`, `cron_schedule.go`) | flags of running tasks, last slots | tick, execute, edit | nearly everything the manager does | one run at a time, once per slot, never stuck |
| Ping table (`internal/engine/ping_table.go`, `internal/config/ping_table.go`) | task, queue, workers, history | run, cancel, delete | agents, database | complete, ends, tells how it ended |
| Node monitor (`internal/telegram/bot.go`, `internal/engine/integrations.go`, `events.go`) | debounce state of each node, whether the monitor runs, two locks | check, confirm, record, notify; start and reload the bot | hub, manager, Telegram | lasting outages are reported, flapping is not, no lock is waited for by its holder |
| Topology (`Manager.AddNode` ... `RenameNode`, links) | nodes, links, areas | CRUD | config store, hub | modelled only where it touches the hub and the sync |
| Vault, sessions (`internal/crypto`, `Manager.Lock/Unlock`, `internal/server`) | key in memory, sessions | lock, unlock, log in and out, change password | sync planning, config store, WebSocket hub | only the effect of the lock on planning, the saved password, and the announcements |
| State store (`internal/config/state.go`) | map in memory, rows of SQLite; events | record, remove, rename, save all, load | syncs, UpdateState, agents | a restart finds what was recorded |
| WebSocket hub (`internal/server/ws.go`) | clients, broadcast channel | register, broadcast, greet, drop | every change; the web client | a page that is connected hears of every change |
| Cron tasks (`internal/engine/cron_tasks.go`, handlers, `CronTasksTab.tsx`) | tasks in the configuration, the list each agent holds | create, edit, switch, delete, run; push to agents | agents, hub, config store | registered agents that the last list reached hold the enabled tasks, and no others |
| MCP tokens (`internal/engine/mcp.go`, `server_mcp.go`, `MCPSettingsTab.tsx`) | credentials, the switch | show, rotate, turn on and off | manager's lock | a token rotated away stays away; the named one is rotated |
| Events (`internal/config/events.go`, `EventsPage.tsx`) | events, the number unread | record, read, delete, clear, filter | monitor, WebSocket hub | the list is the server's, of the filters chosen |
| Apps (`AppsPage.tsx`, handlers) | apps and variables | create, edit, switch, delete, preview | config store | lists follow the server; targets say one thing |
| Web client (`src/web/src`) | the page's copy of the topology; fields, dialogs, requests under way of each screen | what a user clicks and types; answers in any order | HTTP handlers, WebSocket hub | nothing is shown of, or sent to, another target; what is typed goes nowhere else; no button stays dead; no change is missed |

What is not modelled at all is listed under [Not modelled](#not-modelled).

**How the parts interact.** All mutations of the topology go through the manager,
most of them under its one lock (`m.mu`) but not all of them; the lock is not
held while nodes are talked to. Goroutines that run side by side are HTTP and
MCP requests, the scheduler of server tasks and the tasks it spawns, the watcher
of `config.json`, one reader per agent connection with the goroutines that close
replaced ones, and the workers of a ping table. Memory they share is the config
object (by pointer), the state store's maps, the hub, and flags of the manager.
Everything on a node may fail half-way; everything sent to an agent may be lost,
or carried out after nobody waits for it any more.
The web client keeps a copy of the topology, is told over a WebSocket that
something changed, and then loads everything again; its screens stay mounted when
what they show changes, so that an answer may find another node, link or dialog
than the one it was asked for.

## Modules

**SshSync** - `PlanSyncWithScope`, `ExecuteSyncNodesWithScope` (the part for SSH
nodes), `UpdateState`, and the helpers on the device. A *target* is one managed
file; contents are abstract versions, equal when their hashes are. `desired` is
what the topology compiles to, `recorded` the hashes in the state store, `file`,
`tmp`, `live`, `layout` are on the node: the file, its temporary file, what the
running service was loaded with, and the addresses and MTU of the running
interface. A run (`Syncs`) goes through `pc`: *next* (`Begin`) - *clean* for
removals, or *check* - *tmp* - *unlink* - *rename* - *apply* - *record*. Each of
these steps is one remote command, so that another run, `Collect`, or a restart
may come in between; each may fail, and a failed reload may leave anything
behind (`LeaveBehind`). `ApplyWith` chooses between restart, `syncconf`, start
and reload as the code does, with the texts of file and device as its inputs.
`UpdateState` is three steps: `Collect` reads the interfaces on the device,
`ReadNode` the node's record from the map that runs share, and `PutNode` puts a
whole record in its place, without the lock: what a run recorded in between is
replaced by what was read, but for the ROA hashes, a map that the old and the new
record share. `Merge` is either of the last two.

**SshSyncLive** EXTENDS it with `calm`: from some moment on nobody edits, and
nothing fails. Whatever happened before remains.

**AgentSync** - one file of a node in agent mode. `sent`, `tasks`, `answers` are
the commands on the wire, the tasks of the agent (one per command; they outlive
the connection) and the answers on the wire. `GiveUp` is the time-out of
`SendCommand` and the loss of the connection; `Fallback` the commands for older
agents. Command ids are fresh (`Ids \ InUse`): the code draws them at random.
`MCSyncSettles` adds `calm` to it.

**AgentHub** - `handleAgentWebSocket` of each connection, the asynchronous
`Close`, and what the manager does to tokens and nodes. A `Close` is three steps
(asked, socket shut, unregistered), as its goroutine may be held up in between.

**ConfigStore** - `config.json` as a set of changes and a form (*normal*, *old*
to be rewritten at the next load, *broken*). Configuration objects have
addresses (`heap`), since whoever got the pointer sees changes made through it.
Each writer is of a *family*: *shared* (`AddNode` and most operations: change
the current object under the lock), *copied* (`ChangePassword`: change a copy
under the lock), *loaded* (`SaveApp`, cron and looking glass tasks: load and save
without the lock). `lastStamp` and `polled` stand for modification times: all
that matters of them is whether they are the file's present time, the watcher's,
or an older one.

**PingTable** - a run's goroutine (`Execute`), its workers (`Finish`), requests
to run, cancel and delete. `CheckContext` and `Dispatch` are separate, as the
context is looked at before the lock is taken.

**ServerTasks** - the scheduler (`Tick`, `Visit`) and the goroutines that
execute tasks. Two ticks may fall in one second, or skip one.

**NodeMonitor** - the monitor's loop: `Tick`, `Fetch` (under the manager's lock),
`Check` (under the bot's), then for each event `Record`, `NotifyEvent`, `Publish`.
Beside it the goroutine that starts or reloads the bot: `Start` - `InitBot`
(Telegram is asked, and may refuse) - `InitWebhook`. `managerMu` and `botMu` are
the locks while that goroutine holds them; the others take them for one step.
The server's URL is taken to be set. `told` and `news` are histories: what was
last known or reported of a node, and how many of its last checks saw it
otherwise.

**StateStore** - the map of nodes in memory (`cache`) and the table (`rows`). An
operation changes one record and writes its row, or fails to; a rename writes all
rows, each of which may fail. A collection (`Collect`, `Prune`, `ReadNode`,
`PutNode`, `Save`) changes the shared map without the store's lock, between the
other operations, and writes the table at the end. Columns are grouped by how
`Save` treats them: the hashes of routing files, the interfaces, and the hashes
of hosts and apps, which it does not write.

**The web client.** A rendered page is a state, and what the user does and what
arrives are the steps. State is that of React components and of the refs they
keep; a request is a record in `calls` with what it was asked for, and is first
under way, then answered (the state of the server at that moment is the answer),
then delivered, or it fails. Effects run after a rendering, in order, on the
values of that rendering: either they are part of the step that changed their
dependencies, or, where they set what another depends on, steps of their own
(`due`, `wanted`) before anything else happens. Fields a form sets together are
one part of it; a part holds the item it was filled from, *blank* or *typed*.

| Module | Models |
|---|---|
| `MeshClient` | `MeshContext.tsx`, `App.tsx`, `ws.go`, the session handlers: loads, debounce, reconnecting, login, lock |
| `ConfigDialogs`, `SettingsTabs` | `SettingsModal.tsx`: the tabs of policies and templates with their dialog; the tabs that are forms |
| `SyncDialog`, `ApplyDialog` | `SyncProgressModal.tsx`, `ApplyConfigModal.tsx` |
| `NodeForm`, `LinkForm` | `AddNodeModal.tsx` with the probe, `AddLinkModal.tsx` with its effects |
| `AppsList`, `AppDialog` | `AppsPage.tsx`: apps and variables; the form of an app |
| `NodesView`, `NodePage` | `NodesPage.tsx` and the address it keeps; `NodeDetailPage.tsx` |
| `NodeDrawer`, `LinkDrawer` | `NodeDetailDrawer.tsx`, `LinkDetailDrawer.tsx`, `LinkKeyActionModal.tsx` |
| `McpTokens` | `MCPSettingsTab.tsx`, `server_mcp.go`, `mcp.go` |
| `PingTableView` | `PingTableTab.tsx`, its handlers, the stream and the poll |
| `LookingGlass` | `LookingGlassModal.tsx`, `CustomTaskEditorModal.tsx` |
| `CronTasks` | `CronTasksTab.tsx`, `cron_tasks.go` and its handlers, the lists agents hold |
| `EventsView` | `EventsPage.tsx`, the number of unread events, the handlers |

In `MeshClient` the topology is its version. `crossed` in the other modules is a
history of requests that overlapped in a way the code does nothing about: a
property says what holds when none did, and the modules' comments name which
overlaps these are. They are listed under [Limits](#limits).

Modules that share no state are put side by side in one, and a behaviour is one
of either: **Recording** has SshSync and StateStore, **Services** PingTable and
ServerTasks, **Fleet** AgentHub and NodeMonitor (all the monitor sees of the hub is
who is connected, which in NodeMonitor may change at any time), **Web** MeshClient
and the screens, and `MCSyncSettles` AgentSync in calm and two instances of
SshSyncLive. A variable names what a behaviour is about (`part`, `service`,
`screen`, `setting`). The screens share variables: **WebScreens** declares `calls`,
`busy`, `steps` and places `x1`, `x2`, ... that each screen uses for its own;
**WebPages** and **WebDialogs** have one instance each of the pages and of the
dialogs, side by side, so that proofs about either do not carry the other along;
Web says what they are together.

A `.cfg` is of the module it is named after. `MC*.tla` give TLC what a `.cfg` cannot
say, and `*_proofs.tla` hold the theorems.

## Runs

| Run | Instance | Question |
|---|---|---|
| `ssh_exclusive` | one node, a WireGuard end of one version and BIRD of two, one run, UpdateState; the state store with two nodes, a third name, three operations | `RecordedOnDevice`: a reported, recorded success is on the node. `RoutingLast`: BIRD after interfaces and ROA. `RestartKeeps` |
| `sync_settles` | three settings. *agent*: one version, one run, two command ids; *single*: a WireGuard end, two versions with different MTU, one run over SSH, UpdateState; *overlap*: one version, two runs over SSH | `AgentRecordsAreEarned`, `AgentForceWins`. `Converges`: unforced runs bring records to the topology and take leftovers down. `ForceRepairs`: forced runs repair files, services, MTU |
| `hub` | two nodes, two connections; the monitor with two nodes and a debounce count of 2 (the code's) | `OpenIsRegistered`, `HubReplacedEnds`; `OnlyStableChanges`, `OutageIsReported`, `NoSelfDeadlock` |
| `config_store` | a shared and a copying writer, a reader, the watcher, an edit by hand | `NoLostUpdate`, `RejectedStaysOut`, `EditsArrive` |
| `services` | ping tables of three nodes and of one, two workers; a task every minute and one every second, two goroutines, three seconds | `CompletedIsComplete`, `HistoryIsFinal`, `RunsEnd`; `NeverStuck`, `SlotFiresOnce` |
| `web` | the page with two changes, or one and a broken connection, or a turn of the vault and a click; or one of the seventeen screens, with two items and two to four steps of the user | of the page `NoChangeMissed`, `PendingIsServed`; of the screens `NoDeadButton`, `NoLeftovers`, `FieldsAgree`, `OverwrittenOnlyByOverlap`, `OneSync`, `AnswersOfTarget`, `DraftsKept`, `ListsAreCurrent`, `RotatedStaysAway`, `AgentsCurrent`, `SelectionAgrees` |
| `ssh_applied`, `agent_veto`, `hub_uninstall`, `config_lost`, `task_overlap`, `mcp_rotate` | | show the [findings](#findings) |

**Why the bounds are enough.** Each run has the smallest instance in which the
interactions it is about all occur. Two versions make *old* and *new* content
differ, with `Absent` as a third; BIRD has two in `ssh_exclusive`, so that an old
record put back by UpdateState differs from the new one. One version is enough where
presence and absence already conflict. The two versions of that run are symmetric:
no constant tells them apart, and its properties are about safety. Targets of one node interact only through the order of
a run and the BIRD directory, which takes one interface and BIRD; nodes do not
interact at all. Two runs are the least that overlap. Two ids let one command be
given up while another is under way, and the removal of freshness (a mutant)
shows that they are enough for ids to be confused. Two connections let one
replace the other, and used again, any number one after the other. Two writers
race for a file; the third and fourth object are garbage to allocate from. Two
nodes of the monitor let one event wait while another is recorded. Three
nodes are the least at which two workers have something to choose and something
to wait for; the second run with a single node takes the path for too few. In
`ServerTasks` a minute has two seconds, so that three seconds have a slot with
two of them and a second slot.

In `web` (about 1.7 million states, about four minutes) a screen has two items, so
that one can be left for the other, and two requests, so that answers can change
places. Of the nodes whose page may be open one has a token to begin with and one has
none (`InitSmall`); rotating and uninstalling give the other cases. `MaxSteps` counts what the user and the rest
of the system begin: opening, choosing, asking, a load of the topology; answers
and failures are not counted. Two is enough to leave something for something
else while a request is under way; modules in which a case needs an edit, a
change of target and a return have three or four. Each mutant is found
within these bounds. Two changes of the topology let one fall
into the load of the other; the theorems about `MeshClient` say that more make no
difference. It has two loads at a time: a step that would start a third waits.

## Fairness

Safety runs assume none. Where a liveness property is checked:

- `SshSyncLive`: in calm, a run goes on (every remote command has a time-out), a
  collection is merged, and unforced runs are started again and again (a server
  task does). Nobody is assumed to force runs: `ForceRepairs` is conditional on
  forcing, `Converges` on not forcing for ever. Calm assumes that runs do not
  overlap, and that nothing fails: without it no sync can be promised.
- `MCSyncSettles`, for AgentSync: in calm, messages and tasks go on (the agent's runtime runs
  every task; commands it runs have time-outs), and the operator keeps forcing.
- `AgentHub`: every goroutine goes on. A reader returns only once its socket is
  shut.
- `NodeMonitor`: the ticker ticks, Telegram answers, and a goroutine that waits
  for a lock gets it, however often others take it in between: strong fairness of
  the loop's steps, which Go's `RWMutex` gives to readers and writers alike.
  Nothing is assumed of nodes, settings or restarts.
- `ConfigStore`: whoever holds a lock goes on; the watcher polls on a ticker.
- `PingTable`: the goroutine of a run goes on, and every ping ends (time-out).
  Requests are not fair.
- The web modules have none: a page may be closed at any moment. What must
  happen in the end is stated of states in which nothing is under way.

## Findings

1. **Recorded without being loaded** (`ssh_applied`). The file is renamed into
   place, `birdc configure` (or `nft -f`) fails, the action is reported as
   failed. The next run reads the file, finds no difference, skips the reload and
   records success. Only a forced run loads it. (`manager.go:4198`)
2. **The veto of a pre_sync hook does not hold** (`agent_veto`). When the answer
   is late, lost, or mentions "unknown command", the controller sends the
   commands of older agents, which run no hooks. `docs/agent.md` says that the
   action is aborted. (`manager.go:5847`)
3. **An uninstalled agent comes back** (`hub_uninstall`). A token looked up just
   before `UninstallAgent` registers after it, and turns the node back to agent
   mode. (`agent_handlers.go:63`)
4. **A reported change is lost** (`config_lost`). `SaveApp` and its like load,
   change and save without the manager's lock: a password changed in between is
   the old one again. (`apps.go:100`)
5. **A server task runs twice at a time** (`task_overlap`). The flag is cleared
   before the answer is made and once more on return; the second time it may be
   the flag of the next run. (`server_tasks.go:189`)
6. **The wrong credential is rotated** (`mcp_rotate`). `ResetMCPToken` looks for
   "ro" before it looks for "full", and finds it in "full_control": the read-only
   token is replaced, the full-control token stays in force, and the page says
   that it was rotated. (`mcp.go:103`)

Modules also state properties that the code's comments or texts suggest and that
the model shows to be false; no run checks them, and each says so with its reason:
`MeshClient!TopologyInSync` and `VaultInSync`, `SyncDialog!SuccessIsOfTarget`,
`NodePage!TokenOfNode`, `NodeDrawer!ConfigOfTitle`, and `StateStore!SavePersistsAll`
(a collection writes the table without the hashes of hosts and apps: after a
restart they are gone).

## Proofs

All are proofs of safety, by an inductive invariant, and for every value of the
constants.

| Theorem | Says | Inductive invariant |
|---|---|---|
| `Recording_proofs!Typing` | `TypeOK`, any number of overlapping runs | itself |
| `Recording_proofs!RecordsDescribeDevices` | `RecordedOnDevice` | `DeviceInv`: the run at work has withdrawn the target's earlier result, and the temporary file, then the file, hold what it will record. A record that UpdateState replaced is no longer the run's, and its result no longer counts |
| `Recording_proofs!BirdComesLast` | `RoutingLast`, any number of runs | `OrderInv`: what is left of a run comes after its current action; an unforced run has only pending actions |
| `Recording_proofs!RecordsSurvive` | `RestartKeeps` | `StoreInv`: with the shape of a collection: the nodes it has touched are those whose shared map it has changed, and the record it holds is of a node it found and has yet to put back |
| `Fleet_proofs!RegistryTyped`, `OpenStaysRegistered` | `TypeOK`, `OpenIsRegistered` | `RegistryInv`: a registered connection carries the name it is registered under, and is open or not yet unregistered by its close |
| `Fleet_proofs!MonitorTyped` | `MonitorTypeOK`, for any debounce count | `TypeInv`: the events of a check are recorded before the next |
| `Fleet_proofs!ChangesAreStable` | `OnlyStableChanges` | `NewsInv`: between checks, what is confirmed of a node is what was last known or reported, and its count is at most the number of checks that saw the change; an event's change is confirmed already |
| `Fleet_proofs!ReloadsGoOn` | `NoSelfDeadlock` | `LockInv`: who has the manager's lock brings settings to the bot that were completed before, so that the bot need not call back for the lock |
| `ConfigStore_proofs!StoreTyped` | `TypeOK` | `TypeInv`: inside a load the lock is held and the contents are at hand |
| `ConfigStore_proofs!LockedUpdatesStay` | `NoLostUpdate` | `UpdateInv`: the file, the current object, what a load has read and the object of the writer at work all contain every reported change |
| `ConfigStore_proofs!RejectedCopiesStayOut` | `RejectedStaysOut` | `CopyInv`: a change made in a copy is nowhere else until it is saved |
| `Services_proofs!PingTyped`, `CompletedHasAll`, `HistoryTellsTheEnd` | `TypeOK`, `CompletedIsComplete`, `HistoryIsFinal` | `RunInv`: every pair is in one place (not looked at, queued, with a worker, done), and results are counted |
| `Services_proofs!TasksTyped`, `FlagsAreEarned` | `TasksTypeOK`, `NeverStuck` | `FlagInv`: a set flag has a goroutine that has not yet cleared it the first time |
| `Services_proofs!SlotsFireOnce` | `SlotFiresOnce` | `SlotInv`: the slot a task was last started in is not later than the present one, and in no later slot than it was the task started |
| `AgentSync_proofs!SyncTyped`, `RecordsEarned` | `TypeOK`, `RecordsAreEarned` (`AgentRecordsAreEarned` in `sync_settles`), any number of overlapping runs | `SyncInv`: an id names one command wherever that is on its way (sent, a task, an answer), one run waits for it, and then it is of that run's action and kind; a success answers a task whose work was done |
| `Web_proofs!MeshTyped`, `PendingReloadsAreServed` | `TypeOK`, `PendingIsServed` | `FlagsInv`: the load marked as the debounced one is under way, and `isReloading` says so |
| `Web_proofs!ChangesAreLoaded` | `NoChangeMissed` | `ComingInv`: while no load was started since a change, its news is with the store, in the hub's channel, on the wire, or a timer or a pending reload; a page that is registered late has its timer still running |
| `Web_proofs!OneSyncAtATime` | `OneSync`, of the dialog that is mounted | `SyncInv` of the dialog: a sync under way has the button disabled; and, for `ShowsTarget`, since the dialog started over with nothing under way all it asked for is for its target |
| `Web_proofs!RotatedTokensStayAway` | `RotatedStaysAway` | `TokensInv`: unless a switch crossed a rotation, the token in force is the newest, what a handler has read has that one, and no switch and rotation are under way together |
| `Web_proofs!TypingIsKept` | `OverwrittenOnlyByOverlap` | `SettingsInv`: while a load that no other overlapped is under way, its form is disabled, and nothing was typed since it was sent |
| `Web_proofs!FormsStartClean` | `NoLeftovers` | `ConfigsInv`, `NodeInv`, `AppInv`, one for each form: a probe under way, if it is not one that the opening of the form crossed, was asked for what the form is open for |
| `Web_proofs!AgentsHoldTheirTasks` | `AgentsCurrent` | `CronInv`: unless two changes crossed, one change at most is between its save and its last push, what it read is what the server has, and a registered agent that does not hold what is due is among those it has yet to send to, or those that were not reached |
| `Web_proofs!SelectionsAgree` | `SelectionAgrees` | `ListInv`: what is typed and the address agree, or the timer that will set it runs. `GlassInv`: while effects are still to run, what the selection will settle on is determined, by which of address and selection is behind, and how many renderings are left. The tag selected is one that a node has, or the address's |
| `Web_proofs!AnswersAreOfTarget` | `AnswersOfTarget` | `SyncInv`, `PageInv`, `DrawerInv`, `LinkInv`, `GlassInv`: the last metrics asked for are those of the node, range and interface shown; a configuration asked for with nothing crossed is of the node the dialog is open for; a dialog opened with nothing under way has asked only for its target; a key shown, or still to come, is under the link and title it was asked under |
| `Web_proofs!DraftsAreKept` | `DraftsKept` | the same of the page and the drawers, where the note edited was typed for the node or link it is saved to; `ApplyInv`: all validations under way are of the text in the editor, and when none is, so is the verdict |
| `Web_proofs!FieldsStayAgreed` | `FieldsAgree` | `NodeEntries`: the entrypoints are some with an address and then at most one fallback, exactly one for a managed node, which every handler's filtering keeps. `FormInv`: with no effect left to run, the pair derived for is the one chosen, and what was not typed was filled from it. `AppInv` |
| `Web_proofs!ListsStayCurrent` | `ListsAreCurrent` | `AppsInv`: answers are numbered by when the server gave them; what the list, or the answer still to come, has of an app is what the server has, unless a later answer is to come. `EventsInv`: one request at most is under way besides counts, and is of the filters selected, until an answer is lost. `PingInv`: the one request of the operator is for a run of the type selected. `TokensInv`: likewise, until a change is answered with an error or not at all |
| `Web_proofs!ButtonsComeBack`, `ScreensTyped` | `NoDeadButton`, `ScreensTypeOK` | `ScreensInv`: the invariants of the seventeen screens together: what is disabled is what has a request under way; of the apps, that a request is answered once bounds the numbers of answers |

A behaviour of a composite module stays with the part it begins with, so that the
invariant of a part, guarded by the variable that names it, is inductive for the
whole: `ScreenStays` and the lemmas after it say that a step of the client is one of
the screen that is open, and each screen's invariant is proved of its own module's
initial states and steps (`SyncInit`, `SyncStep`, `SyncShows`, ...) in
`WebDialogs_proofs` and `WebPages_proofs`. A step of another screen leaves the copy of
the topology alone (`CopyStays`), so that the theorems about MeshClient hold
whatever screen is open.

Assumptions beyond the ones on the constants, each in the theorem that needs it:

- `Exclusive` (`RecordsDescribeDevices`): one run at a time. Nothing in the
  controller keeps runs apart; with two, the property is false.
- `EnoughObjects` (`ConfigStore`): there is always a fresh address.
- `Locked` (`LockedUpdatesStay`): no writer of the family *loaded*. With one, the
  property is false: finding 4.
- `FiniteNodes` (`PingTable`): the configuration has finitely many nodes.

Assumptions on the constants, all of them evaluated by TLC as well:

- numbers are numbers: `VersionAssumption` (`MeshClient`), `BoundsAssumption`
  (`WebScreens`), `ScheduleAssumption` (`Services`: a minute has seconds),
  `DebounceAssumption` (`Fleet`: the code makes sure that the count is positive);
- what stands for nothing is none of the values: `AbsentAssumption` (`AgentSync`),
  `NoTaskAssumption` (`Services`), `NoStateAssumption` (`Fleet`),
  `NamesAssumption` and `NoRecordAssumption` (`Recording`), `NamesAssumption`
  and `TextsAssumption` (`WebScreens`: also, there is a text a note begins with);
- `Recording`: the managed nodes are among the names; `WebScreens`: an app has a
  type and a selector (`AppsAssumption`), one of the settings belongs to a form
  (`FormAssumption`), the check the looking glass starts from is built in (`ChecksAssumption`), there is
  a note, a page, a range and a link to begin with (`TextsAssumption`,
  `PageAssumption`, `LinksAssumption`), a key is not one of the drawer's other
  requests (`LinksAssumption`), what is valid can be pasted or is a preset
  (`PastedAssumption`), a list of entrypoints can have one (`EntriesAssumption`),
  links join nodes there are (`LinksOfAssumption`), the app added is not the one
  there was (`ItemsAssumption`), there are finitely many runs, numbered in their
  order (`RunsAssumption`), and finitely many events (`EventsAssumption`).

**Only model-checked**: all liveness (`Converges`, `ForceRepairs`, `ForceWins`,
`HubReplacedEnds`, `EditsArrive`, `RunsEnd`, `OutageIsReported`), which the prover
does not do under fairness. `AgentRecordsAreEarned` is proved of AgentSync itself,
and checked with the settings of `MCSyncSettles` around it. Every other safety property
that a passing run checks is a theorem.

Two things of the model are as they are so that they can be proved about.
`NodeForm!EntriesOf` filters a list of entrypoints by counting those of a kind,
all of which are alike in the model, instead of by `SelectSeq`, whose value is
known to the provers only by induction. And the screens are instances of two
modules side by side (above).

## Limits

Abstractions:

- The texts of files are versions. Parsing, templates, and which texts the
  topology can give are left out, but for the addresses and the MTU of an
  interface, which decide between a restart and `syncconf`.
- SSH sync and agent sync are separate models; apps and hosts of agent nodes are
  in neither. A node does not change its mode in the middle of a run.
- Records in the database are taken to succeed (`PingTable`, `SshSync`,
  `NodeMonitor`). Telegram is taken to answer: its client has no time-out, and the
  manager's lock is held meanwhile.
- `PingTable` has no subscribers and no restart. `ServerTasks` does not say what
  a task does, and has no restart, which would clear all of its state.
- `ServerTasks` has two kinds of schedule: every minute and every second.
- `StateStore`: loading the table succeeds, and what was committed is there after a
  restart. Go's map is not safe for the unlocked changes of a collection; the model
  has their order, not the crash they may cause.
- `MeshClient`: the registration of a page takes less than the 100 ms of its
  debounce timer (if it did not, a change made between the load and the
  registration would not be heard of); the hub's channel of 256
  messages does not fill up (a broadcast to a full channel is dropped, and with it the
  news of a change). `NoChangeMissed` says that a load was *started*: a load that
  fails is logged and not repeated (`MeshContext.tsx:328`).
- Each screen is modelled by itself; what it has to know of the others, that the
  topology may be loaded again at any moment, is an action of its module. Logging
  out ends a behaviour of the other screens; SyncDialog alone goes on through it,
  since the server does. The
  server's answer to a request is its state at one moment: handlers that load,
  change and save are one step (what is lost between is `ConfigStore`'s matter).
- The screens' layout, texts, validation messages, clipboards, charts and the
  drawing of the map are left out, and of the list of nodes the view, the columns
  and the order: `SetOtherParam` has only that they are parameters of the address.

Behaviour of the code that the models have, and that is described here instead of
being checked, as nothing promises otherwise:

- Addresses of an interface are not applied again after a restart that failed:
  the file already has the new ones, and only the MTU of a running interface is
  compared with the device.
- What was recorded of a node between `UpdateState`'s reading its record and putting
  it back is lost (`manager.go:4923`-4940). Of a WireGuard end it is made good by
  what is read on the device; a BIRD or nftables record is the old hash again, and
  the node is shown to differ until the next sync. But if the text was edited back to
  the old one by then, it looks synchronized. `Converges` is checked of a WireGuard
  end, and says nothing of these. A node deleted or renamed during a collection or
  a sync comes back under its old name until the next full collection.
- A change in the shared object whose save failed was reported as failed, but is
  persisted by the next save of something else. Only changes made in a copy, like
  the password, are held to `RejectedStaysOut`.
- A node whose agent comes back in the monitor's first 90 seconds is not reported,
  not even when its going away in them was. A node that goes away with a restart
  of the server is never reported. When Telegram refuses the bot at the start of
  the server, the monitor does not run at all.
- An edit of `config.json` that falls between its being read or written and its
  time being taken is not noticed. `EditsArrive` leaves out behaviours with such
  an edit.
- Deleting a running ping table forgets it without stopping it: later results
  record it again.
- A schedule of five fields matches in second 0 only, and is missed when no tick
  falls into it.

Of the web client, in the same way (the lines are where it happens):

- Settings: a late save closes whatever dialog is open by then
  (`SettingsModal.tsx:1304`); when the settings fail to load the form is blank, and
  its Save writes the blank form (1062); a task run that fails loads the list again,
  over what is being edited (961).
- A window may have two syncs under way: the dialog's own, one that an earlier
  dialog started before its user logged out (`App.tsx:74`), and those that applying a
  configuration starts in the background (`AppLayout.tsx:817`). `OneSync` is about
  the first.
- Sync and apply: the preview of an applied text is not cleared when the text
  changes, and an apply may end in a dialog opened again since
  (`ApplyConfigModal.tsx`); results of a sync arrive under the title of another node.
- Forms: a probe that answers late fills the form of another node
  (`AddNodeModal.tsx:299`; the name is kept out only if the form was not opened for
  another node meanwhile, which `NotRenamedByProbe` leaves out); a load of the topology sets
  fields of a link that were typed already (`AddLinkModal.tsx:191`).
- Apps: a created app is lost from the list, or in it twice, when a reload crosses
  its creation (`AppsPage.tsx:360`, 550); an older list that arrives last stays.
- List of nodes: for an address that names a tag no node has, the page sets the tag
  from the address and the mesh drops it again, without end (`NodesPage.tsx:227`,
  `MeshContext.tsx:236`; `Alternates`).
- Node page: the agent token of the last node stays (`NodeDetailPage.tsx:311`, 380).
  A configuration dialog that is open while the user goes back or forward to another
  node shows the last node's (154, 180). The interface chosen for one node is asked
  for of the next, and a late answer replaces the one chosen since (391-400). A note
  being edited is given up when the topology is loaded with another (277).
  Node drawer: the dialog with a configuration outlives its drawer and comes back
  with the next node (`NodeDetailDrawer.tsx:1747`). Link drawer: a note that is
  saved late opens its link again (`LinkDetailDrawer.tsx:352`).
- MCP: turning the server on or off while a token is rotated undoes the rotation
  (`server_mcp.go:80`). A rotation whose answer is lost, or whose save failed, leaves
  the old token on the page until it is loaded again (`MCPSettingsTab.tsx:553`); after
  a failed save a restart brings the old token back (`mcp.go:102`).
- Ping table: a run may be shown as running after it has ended, when another has
  started since: the poll then answers with that one (`PingTableTab.tsx:204`).
  Looking glass: the list of tasks, loaded again after one was edited, sets the
  parameters of the selected task again (`LookingGlassModal.tsx:280`).
- Cron tasks: saving a form undoes a switch turned meanwhile (`CronTasksTab.tsx:164`),
  a deleted task may come back (`cron_tasks.go:276`), and of two pushes the older
  may arrive last (371). An agent not heard of for 45 seconds is passed over while its
  connection lives for 60 (`hub.go:372`, `conn.go:161`), a failed write is not
  repeated (`cron_tasks.go:452`), and after a change that could not be saved nothing is
  sent: the agent runs its old list until the next change or the end of its
  connection.
- Events: marking or clearing all of them includes those not yet shown
  (`EventsPage.tsx:98`); an event whose deletion was not answered stays in the list
  until it is loaded again (108).

## Not modelled

| Component | Reason |
|---|---|
| OAuth of the MCP server (`server_oauth.go`), its tools | left to the plan; the tools call the manager |
| SSH connection pool (`internal/ssh/client.go`) | left to the plan |
| Apps on the nodes (`internal/engine/apps.go`, agent `apps.rs`, `container.rs`) | deployment is external commands |
| When agents run cron tasks and what they report (`cron.rs`), hosts sync (`hosts_sync.go`, `hosts.rs`) | left to the plan |
| The engine of declarative apply, backup (`apply.go`, `backup.go`) | left to the plan |
| Link and address allocation (`internal/compiler/ip.go`) | pure functions without concurrency; left to the plan as operators |
| Metrics and retention (`metrics.go`) | arithmetic over SQL windows |
| DNS sync, ROA cache (`internal/dns`, `internal/roa`) | mostly requests to other services |
| Config compilers (`wg.go`, `bird.go`, `nftables.go`) | templates: pure text without a state |
| Looking glass tools, probes | external commands and the parsing of their output |
| CLI, most HTTP handlers | thin callers of the manager |
| Rest of the web client: the map's drawing, hosts page, blocks, charts, rename and mesh dialogs, mobile layout | presentation, or the same request patterns as the screens modelled |
| Schema migrations | straight-line SQL |

## Plan

What is left, in this order; modules without shared state join one of the
composite instances, so that the number of runs stays as it is.

1. **OAuth** - codes are exchanged once, expired and unknown ones never, tokens
   belong to their client.
2. **SshPool** - a client handed out is not one that was closed for the same
   request; host locks do not deadlock.
3. **Topology and Apply** - several steps of which one fails; renames across
   config, state and hub.
4. **Allocation** - addresses, ports, link-local addresses as functions, against
   a reference definition.
5. Apps and hosts on agents; metrics roll-up; DNS.
6. **Refinements**: SshSync and AgentSync to one abstract "deploy" specification;
   ConfigStore with locked writers to an atomic store; PingTable to a set of
   results that only grows.
7. **Proofs**: the refinements above, and what the modules of this plan will state.
