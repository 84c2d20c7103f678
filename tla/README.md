# Specifications of dudoxx-ai-terminal

dudoxx-ai-terminal lets a human and an agent share tmux terminals. A **broker**
(NestJS, `ddx-term-broker`) owns one tmux session and maps every window to a
`terminalId`; a **web server** (`ddx-term-web`) shows the terminals in browsers;
an **MCP server** (`ddx-term-mcp`), one process per agent, starts both when they
are not up and offers the terminals as tools. This directory holds TLA+ modules
translated from that code, the TLC configurations that model-check them, and
TLAPS proofs of the invariants they check. Paths below are relative to the
repository's root.

## 1. Inventory

### Broker

| Component | State | Operations | Talks to |
|---|---|---|---|
| Session registry, `modules/session/session.service.ts` | `registry` (terminalId → descriptor), `paneToWindow`, `windowCounter`; all in memory | boot (`ensureSession`, `syncPaneMap`, `reconcileRegistry`), create, destroy, rename, `refreshSnapshot` | tmux and pgrep, one child process per await |
| Terminal REST API, `modules/terminal/` | none of its own | routes to the registry; `snapshot`, `snapshotWithScrollback` | registry, tmux |
| Control-mode attach, `modules/control-mode/control-mode.attach.ts` | `proc`, `reconnectTimer`, `failedAttempts`, `stopped` | `start`, `stop`, `spawn`, `scheduleReconnect`, the pty's `onData` and `onExit` | a `tmux -CC` client on a pty |
| Control-mode parser, `control-mode.parser.ts` | none | a line becomes a frame, routed by pane or window, or is dropped | registry |
| Gateway, output, `modules/gateway/term.gateway.ts` | `subscribers`, `connections`, `coalesce` | connect, snapshot push, coalescing timer, fan-out, disconnect, shutdown | sockets, registry |
| Gateway, input, same file | `inputQueue` (terminalId → tail of a promise chain) | `handleClientMessage`, `enqueueInput`, `handleInputFrame` | tmux `send-keys` |
| Config, logging, filters, health | none that matters | | |

**Hard here.** The broker is one JavaScript thread, so handlers interleave
exactly at awaits; every await is a child process. State read before an await is
used after it (the cap, the descriptor written back, the window resolved for
input). tmux windows survive the broker and change behind its back (shells exit,
humans open windows), the registry does not survive. The attach loop races exits,
timers and shutdown and must release every pty it opens.

**Correct means.** One id per window; survivors adopted after a restart; no window
leaked; live output routed, in order, once, with no gap after the snapshot; input
of one terminal executed one command at a time, in order, only from its own
sockets; the attach loop alive until it is stopped, holding one pty master.

### MCP server

| Component | State | Operations | Talks to |
|---|---|---|---|
| Stack supervisor, `supervisor/*.ts`, `server.ts` | `broker.lock`, `web.lock` in the file system, the memoised promise of `ensureOnce` | probe, acquire, spawn, poll, reclaim, release | file system, ports, child processes |
| Resolvers, `registry-resolver.ts`, `terminal-map.ts` | without a broker a map terminalId → window in memory; with one nothing | resolve, create, release, list, count | tmux, or the broker's REST API |
| Tools (`term_create`, `term_send`, ...), `tools/*.ts` | none | one sequence of awaits per verb | resolver, tmux |
| Read cursor, `read-cursor.ts` | per terminal the index of the last line consumed | `delta`, `resetToTail`, `clear` | tools |
| tmux client, `tmux/tmux.client.ts` | none | one external command per method; `descendantPids` walks the process tree with one `pgrep` per process | tmux, pgrep, ps, kill |
| Allow-list, errors, dotenv | none | | |

**Hard here.** Several processes that share only files and ports; a process may end
between any two system calls, leaving locks of every shape; clocks decide what
is stale. Verbs of one process overlap at their awaits, over a registry that, with a
broker, others change too. The processes of a window start and end while a verb looks
at them. **Correct means** spawns serialised by the lock file, a
failed winner out of the way of others, every call settled one way or the other;
no line of output skipped by a delta, no window that no verb can reach, no signal to
a process the terminal did not start, no running process or matching screen missed.

### Web

| Component | State | Operations | Talks to |
|---|---|---|---|
| Proxy, `ddx-term-web/server.mjs` | per connection: two sockets, `upstreamOpen`, `pending` | upgrade and the event handlers of both sockets | browser, broker |
| Terminal client, `src/lib/term/xterm-client.ts` | `ws`, `terminal`, `painted`, `pendingFrames`, `reconnectAttempts`, `reconnectTimer`, `disposed` | `connect`, `restoreSnapshot`, `dispose`, socket callbacks, reconnect | proxy, page |
| Workspace pages, `TerminalWorkspace.tsx`, `TerminalSidePanel.tsx`, `TerminalListView.tsx`, `terminal/new/page.tsx` | `clientRef`; the page's copy of the list, `loading`, `notFound`; per row its mode and draft | `switchTo` and its clean-up; the poll, `navigateToNeighbor`, `handleNew`, `handleKill`, `handleRename`, the modes of a row | client, REST, router |
| Contract, CLIs, settings | none that matters | | |

**Hard here.** Two repaints (the broker's snapshot frame and a fetched snapshot)
race each other and live output, on first connections and on reconnects; the page
can leave at every await. The list is polled whether or not the last poll was
answered, and changed ahead of the broker. **Correct means** no frame lost or reordered by the
client's buffer, no paint by a disposed client, no half-open bridge, output
that resumes, a list that becomes the broker's, and no page that stays on a terminal
that is gone or calls one gone that is not.

## 2. Modules

| Module | Models | Notes |
|---|---|---|
| `SessionRegistry` | registry and REST operations over tmux | one action per await |
| `ControlModeAttach` | the attach loop | |
| `TermStream` | parser, gateway output, snapshots | extends `ControlModeAttach`: the two run composed |
| `InputQueue` | what the gateway promises about input: a FIFO queue per terminal | abstract specification |
| `GatewayInput` | the promise chains that implement it | `QueueSpec` is the refinement |
| `Supervisor` | `ensureStack` of several MCP processes | |
| `McpTools` | create, destroy, read and snapshot of one MCP process | |
| `PaneVerbs` | send, signal, ps and wait-for over the process table, prompt and screen of one window | |
| `WsProxy` | the bridges of the web server | actions only, composed below |
| `XtermClient` | client, page and proxy composed | extends `WsProxy` |
| `Workspace` | the pages with their lists, the router and the broker's list | one page at a time |
| `MC*` | names, slugs and symmetry for TLC | |
| `*Proofs` | theorems about the module they extend | |

In the modules a definition whose comment begins with "Mutant" is a wrong variant
of the definition after it; no specification uses it. It documents a bug the
properties are known to catch.

### How the models correspond to the code

- **`SessionRegistry`.** A request is a record with the stage its handler has
  reached and the descriptor it captured. `CreateBegin` runs the cap test of line 202
  and stops at `new-window`; `NewWindow`, `ChooseSlug`, `LabelWindow`,
  `ReadNewPids`, `Register`, `ReadPaneId`, `BindPane` are the code between the
  following awaits; the same holds for destroy (`DestroyBegin`, `KillWindow`,
  `Evict`), rename and refresh. Boot is `EnsureSession`, `SyncPaneMap`,
  `ListWindows`, one `AdoptWindow` per surviving window, `FinishBoot`. Where a
  child process takes effect before its handler resumes, and another handler
  could tell, the two are separate. `Crash` forgets all memory and keeps
  the windows. Each window has one pane. Titles are abstract values with an
  operator `SlugOf`; `NamesAssumption` says what the ids look like that the counter
  (`t01`) and the suffix (`zsh-3`) give, and nothing of titles: an id with a suffix may
  be the slug of one. In the runs names are their own slugs. `lost` is a history: the
  windows this life of the broker has let go of, because a command failed on it, a human
  opened it, or another window took its id (`LetGoOfEntry` for the ids a create can give
  twice, `Buried` for an adoption).
- **`ControlModeAttach`.** A pty master is open until `kill()` is called on it,
  whatever its child does, so a leak is visible. A client that is refused prints its
  reason first, which is what `onData` sees (`ClientPrints`).
- **`TermStream`.** Output is numbered chunks; a pane's content is the set of its
  chunks, a snapshot the set captured. Lines sit in the pty (`lines`) until
  `ReadLine` parses, resolves, holds back or dispatches them. `CapturePane` and
  `PushSnapshot` are the two halves of the snapshot's await. Registration, binding
  and eviction are steps of the environment here; `SessionRegistry` has them in full.
- **`GatewayInput`.** `links` are the promises; `tail` is `inputQueue`. Callbacks
  of settled promises are microtasks: while one is due (`CallbacksDue`) no message,
  command result or request is handled. `Settle` is the resolution, `Finally` the
  clean-up that deletes the tail only if it is still its own.
- **`Supervisor`.** The file system is shared, so creating the lock and writing the
  pid are two steps, and so are reading a stale lock and unlinking it. `LockFails` is
  either system call failing: `acquireLock` throws past every release, the call ends
  `aborted`, and an empty file may stay. Durations
  are flags that may rise at any time after they could: a lock becomes `old`, a
  poll becomes `late`, a probe is slow.
- **`McpTools`.** A verb is a record with its stage: `resolve` and `clear` are the awaits
  of REST requests, `run` the one of the tmux command, `finish` the code after it. With
  the local map resolving is no await, so a verb starts in `run`. `Start` is the
  dispatch after `ensureOnce` (`Supervisor` has what it awaits), `Throws` every way a
  verb fails, timeouts included, `LoseWindow` a create that throws when tmux has already
  opened the window, `OthersCall` the broker's other clients. A window prints
  the lines 1, 2, ...; `FinishRead` cuts a capture, returns what the cursor has not
  passed and moves it. Histories that only properties read: the lines the agent was
  given (`seen`), the windows a capture was `cut` for, terminals whose cursor is of an
  earlier window (`stale`), the slug each window was created for (`slug`), slugs of two
  creates at once (`overlapped`), windows whose create threw (`unbound`).
- **`PaneVerbs`.** A verb stops at every external command. `proc` is the process table:
  `ProcessStarts` and `ProcessEnds` are `fork` and `exit` of any process, children of a
  process that ends become `InitPid`'s, and a pid may be given again. `descendantPids` is
  `PgrepAnswers` for each process of a level, in any order, and `NextLevel`, which goes
  down or hands the tree to the verb (`AfterWalk`). `kin` marks what the shell started,
  directly or not; `past` holds per call the processes that stayed in the tree
  (`steady`), whether a pid was given again, and whether the pattern was ever `absent`.
  A resolved window is where a verb begins; `McpTools` has resolving. Text, regular
  expressions and the allow-list decide before the first command and are left out.
- **`WsProxy`, `XtermClient`.** A connection is three ends: the browser's socket, the
  proxy's `client` and its `upstream`, or the first two
  when the constructor of `upstream` throws. `OnOpen`, `OnMessage`, `OnClose`, `Drop`,
  `TimerFires` are the callbacks, `SwitchTo`, `ImportsReady`, `FetchAnswered`,
  `PageRestores`, `Leave` the page between its awaits. Output is the chunks 1, 2, ...;
  a snapshot of n clears the screen and shows the first n (both snapshots begin with
  `ESC[2J ESC[H`). `stage = "orphan"` marks an instance disposed of during its imports.
- **`Workspace`.** `page` is the URL; `Commit` mounts the page pushed last, which drops
  the state of the one before and marks its requests as no longer `current` (the
  clean-up's `cancelled`). A request goes through `BrokerAnswers`, which takes
  the list of that moment, and one of `ListAnswered`, `CountAnswered`, `CreateAnswered`,
  `RenameAnswered`, or `RequestFails`, before or after the broker did what was asked.
  `panel` holds the rows in rename mode, with their draft, or confirmKill.
  `flags.told` is a window-close the client has read and `onExit` has not yet
  handled; the connection itself is in `XtermClient`. `OthersAct` is every other user
  of the broker, and a shell that exits, which leaves its entry.

## 3. Runs

Bounds are constants named `Max...` and appear in guards only.

| Run | Question | Bounds, and why they suffice |
|---|---|---|
| `registry_restart` | Does a restart find every terminal again, and does the cap hold? `TypeOK`, `SurvivorsAdopted`, `RegistrySizeBounded` | 2 requests (symmetric), cap 1, 3 windows plus one per boot, 2 of them opened by hand, 1 failing command, 1 restart; names `zsh` and `zsh-3`. Two requests pass the cap test together; windows `zsh`, `zsh` are the least whose ids collide, and `zsh`, `zsh-3`, `zsh` the least of which a suffixed id buries another. No shell exits here. |
| `registry_requests` | Do registry, pane map and tmux agree at every await, and does each window get its terminal? `OneIdPerWindow`, `NoOrphanWindows`, `LiveEntriesRouted`, `CreatedGetsRouted` | 2 requests (not symmetric: liveness), cap 2, 2 windows plus one per boot, 1 shell exit, 1 failing command, 1 restart; the title `zsh` is the shell's name too, so an id can be taken twice: by two creates, or by a create and an adoption |
| `stream_live` | Does the attach survive, and is every socket served? `NoLeakedMaster`, `AttachedOrReconnecting`, `AttachRecovers`, `EverySocketAnswered`, `HeldOutputGetsSent` | 1 pty, 2 attempts before giving up, 1 loss of the session, 1 socket, 1 terminal that opens, resizes and closes |
| `stream_fanout` | What reaches which socket? `SubscribersMatchConnections`, `OutputInOrderOnce`, `NoGapAfterSnapshot` | 2 sockets, 2 chunks: the least that can be swapped, duplicated or missed by one of two |
| `gateway_input` | Are the chains a FIFO queue? `InputTypeOK`, `OneCommandPerTerminal`, `PaneInOrder`, `QueueSpec`, `EveryFrameSettles` | 2 terminals, 1 socket, 3 frames (a tail, its predecessor and one that comes after a clean-up), 1 death of a window |
| `supervisor_race` | Do two processes that race, end and reclaim stay serialised? `SupervisorTypeOK`, `SpawnsFollowUnlinks`, `FailedWinnerReleases`, `ReadyStackIsUp`, `EveryCallSettles` | 2 processes, 1 ended process, 1 dead service, 1 slow probe, 1 lock that cannot be created or written; any foreign occupation of the ports |
| `supervisor_web_lock` | *violated*: `StaleWebLockReclaimed` | one dead holder of `web.lock` |
| `mcp_tools` | Do overlapping verbs keep cursor, map and windows in step? `McpTypeOK`, `NoLineSkipped`, `NoOrphanTerminal` | 2 verbs at once (symmetric; the least that overlap), 2 ids, 2 windows (a terminal destroyed and created again), 2 lines and caps of 1 or 2 (a capture cut and one that is not), 1 shell exit, 1 create or destroy by others; both resolvers |
| `mcp_stuck_delta` | *violated*: `DeltaReachesTail` | cap 1, a window that prints twice |
| `mcp_verbs` | Do verbs act on the processes of the window, and on all of them? `PaneTypeOK`, `SignalsStayInLineage`, `WalkCoversSteadyTree`, `WaitSeesSteadyMatch` | 1 verb (verbs share the window and nothing else), the shell and 3 pids (symmetric), a walk of 2 levels where the code has 64: a tree may be deeper than the walk; 1 pid given again |
| `web_client` | Does the client's buffer keep order, and does output resume? `BridgeWhole`, `KeysInOrder`, `FramesInOrder`, `DisposedStaysBlank`, `LiveOutputResumes` | 1 instance, 2 connections (a reconnect), 2 keys in all (the least that can be reordered) and 2 chunks, 1 outage, 1 broken connection, retry limit 1. Instances share nothing but `clientRef`, so a second one adds no behaviour to the first. |
| `web_workspace` | Does a page's list become the broker's? `NotFoundIsReal`, `PanelConverges`, `GoneIsNoticed` | 2 terminals, 2 titles, 2 requests for the list at once (the least that can be answered in the wrong order), 2 events of the user, of others or of the network in any combination; every page as the one that is opened |

Deadlock is not looked for where the system may really stop: the attach loop gives
up or is stopped, the input and the user end, every MCP process ends, every
window is closed, every connection is used up, every verb has returned. The registry runs look for it.

### Fairness

- `FairSpec` (registry): boot and each request go on. Child processes end and
  the event loop runs their continuations; nothing is assumed of callers.
- `StreamFairness`: ptys are read, expired timers and exit callbacks run, captures
  end. Windows, sockets, the session's return and shutdowns are not forced.
- `InputFairness`: microtasks run and tmux answers every `send-keys`; the code
  sets no timeout, so a command that hangs would stop its terminal's queue.
- `SupervisorFairness`: a process that did not end goes on with its bootstrap, and
  clocks advance. Services need not start.
- `Delivery` (web): socket events, timers, settled imports and answered fetches
  are delivered, and the broker answers a new socket. One condition on their
  disjunction suffices because the model has no cycle: every step uses up a
  connection, a frame, a request or a bound. Requests need not be answered and
  outages need not end.
- `WorkspaceFairness`: the interval fires, and the broker answers, and answers are
  handled, for the first request of a page and for the others one after another. A
  single request may stay open for ever, as `fetch` has no timeout here. Navigations
  need not commit, and nothing is assumed of users, agents and `onExit`.

## 4. Proofs

Every invariant a passing run checks, the refinement of the input queue and the action
property `DisposedStaysBlank` are theorems: TLC shows them on the instances of section 3,
the theorems for every value of the constants under the named assumption of each
module.

| Module | Theorem | Property | From |
|---|---|---|---|
| `SessionRegistryProofs` | `TypeCorrect` | `TypeOK` | one step per action |
| | `WindowHasOneId` | `OneIdPerWindow` | `IInv` |
| | `EntriesRouted` | `LiveEntriesRouted` | `RouteIInv` |
| | `CapOverrunBounded` | `RegistrySizeBounded` | `SizeIInv` |
| | `SurvivorsKeepTerminals` | `SurvivorsAdopted` | `AdoptIInv` |
| | `NoWindowLeaks` | `NoOrphanWindows` | `OrphanIInv` |
| `TermStreamProofs` | `OneMaster`, `LoopAlive` | `NoLeakedMaster`, `AttachedOrReconnecting` | `AttachIInv` |
| | `StreamRefinesAttach` | `StreamSpec => AttachSpec` | every step is one of the loop or leaves it alone |
| | `SubscribersMatch` | `SubscribersMatchConnections` | `SubscriptionIInv` |
| | `OutputOrdered` | `OutputInOrderOnce` | `PipeIInv` |
| | `SnapshotLeavesNoGap` | `NoGapAfterSnapshot` | `StreamIInv` |
| `GatewayInputProofs` | `InputTypeCorrect`, `OneCommandAtATime` | `InputTypeOK`, `OneCommandPerTerminal` | `InputIInv` |
| | `InputIsFifo` | `QueueSpec`, by refinement | `InputIInv` |
| | `PanesInOrder` | `PaneInOrder` | `PanesOK` |
| `SupervisorProofs` | `SupervisorTypeCorrect` | `SupervisorTypeOK` | one step per action |
| | `LockSerialisesSpawns` | `SpawnsFollowUnlinks` | `OneWinnerPerFile` |
| | `FailureFreesLock` | `FailedWinnerReleases` | `HoldersWon` |
| | `ReadyMeansUp` | `ReadyStackIsUp` | `StackFound` |
| `McpToolsProofs` | `McpTypes`, `DeltasSkipNothing`, `WindowsReachable` | `McpTypeOK`, `NoLineSkipped`, `NoOrphanTerminal` | `McpIInv` |
| `PaneVerbsProofs` | `PaneTypeCorrect`, `SignalsInLineage` | `PaneTypeOK`, `SignalsStayInLineage` | `PaneIInv` |
| | `WalkCovers`, `WaitSeesMatch` | `WalkCoversSteadyTree`, `WaitSeesSteadyMatch` | `PastIInv` |
| `XtermClientProofs` | `HalvesDieTogether`, `KeysArriveInOrder` | `BridgeWhole`, `KeysInOrder` | `BridgeIInv` |
| | `BufferInOrder` | `FramesInOrder` | `FrameIInv` |
| | `DisposedNeverPaints` | `DisposedStaysBlank` (action property) | one step per callback |
| `WorkspaceProofs` | `NotFoundHolds` | `NotFoundIsReal` | `FoundIInv` |

Hardly a property is inductive as it stands; what each invariant adds, and why:

- **One id per window.** A create could register a window that is registered already.
  `IInv` adds, to `OneIdPerWindow` and `TypeOK`, what a request holds at each stage
  (`RequestsOK`), that windows in use were opened, within the bound, and requests idle
  while the broker is down (`BoundsOK`), and that registry and requests agree
  (`RequestsAgree`): a window has one id in both together, and one that has no id yet
  is in the hands of one request. The theorems below on the registry rest on it.
- **Routing.** A refresh or rename writes an entry back after its awaits, so
  `RouteIInv` speaks of the windows of these requests too; boot has bound every
  window before it registers the first; and a destroy drops the panes of a window only
  when that is gone. It holds until a command fails or a window is opened by hand.
- **The cap.** `SizeIInv` counts slots: the entries and the ids that requests past the
  cap test are still to write. Each request takes one slot at most, and it passed the
  test when there was room for one entry: hence the bound, unless the boot adopted more.
- **Adoption.** `AdoptIInv` says which ids an adoption can have given so far: slugs,
  ids of the counter, and ids with a number up to `windowCounter`. The next number is
  above these, so what the suffixed id of a window could take from another is a slug, or
  nothing. In the first case the other window is `Buried`, which the code does not see
  (section 5) and the property excepts, as it does a window on which a command fails.
  All names, faults and windows opened meanwhile are covered.
- **No window leaks.** A second window under an id orphans the first. A create can give
  two kinds of id twice: the slug of a title, and an id of the counter that a boot has
  adopted, for the counter begins again (`Reusable`). A write under such an id lets the
  window before it go, which `lost` records. For every other id `OneWindowPerId` says, over
  the registry and the requests, that it goes with one window; it holds because the
  counter has passed all of its own ids in use (`CountedIds`). `EvictedGone` and
  `NoWindowYet` are what destroy and create need of their windows. What `lost` may hold
  is fixed by the actions: the theorem says that these are the only ways to lose a
  window, for any titles, faults, exits, windows opened by hand and restarts.
- **The attach.** Until it is stopped the loop has no client but the one it holds
  (`OnlyItsOwnClient`), so the exit it handles is that client's. `StreamRefinesAttach`
  carries both theorems over to the composition.
- **The stream.** `FlowOK` orders the whole pipe: what was sent to a socket was printed
  before what is held back for its terminal, and that before what is unread, each in
  order and of the right terminal. A flush moves the head of one part to the tail of the
  next. `Covered` says of each open socket that its snapshot, captured or sent, and what
  was sent, is held back, unread or lost make up the pane; the chunks printed
  between capture and push are what it is about.
- **Input.** `InputIInv` is `InputTypeOK` with one conjunct `Chain(t)` per terminal:
  links settle in order, a link's predecessor is the one before it or one already
  settled, only the first unsettled link has left `waiting`, `served` is the prefix that
  settled, and the tail, if there is one, is the last link; without one all have
  settled. From it two commands of a terminal never run together, and finishing a link
  is removing the head of the abstract queue. `PanesOK` adds that a pane holds text of
  links that have sent it, and that a link about to send Enter typed last in its window.
- **Spawns.** `OneWinnerPerFile`: the processes that ever won a service's lock are at
  most the unlinks plus one if a file is present, because a win creates the file and
  needs its absence. Spawners are winners by definition. `HoldersWon` (who holds a lock
  won it, and has not failed with that service) gives `FailureFreesLock`. `StackFound`
  says what a process has found by the service it is at: the one at the web server
  found the broker, whoever spawned it. The cardinality steps cite `FiniteSetTheorems`.
- **Tools.** For deltas, a name that is free in the local map must have no cursor that
  the next terminal of that name would inherit (`FreeNamesUnread`); through REST it may,
  and the model marks the terminal `stale`. For windows, creates in flight have names of
  their own (`CreatesApart`), and a destroy that has killed its window is alone in
  releasing the name, which still names that window (`DestroysApart`). Slugs in
  `overlapped` are excepted, and a window in `unbound`, which its own create lost.
- **Signals.** A walk takes many steps and the tree changes under it, so the invariant
  says of the machine (`Lineage`) that a child of one of the shell's processes is one
  too, and that the shell lives as long as the window is open; and of each walk
  (`Traced`) that what it found is still the shell's where it still lives, unless a pid
  was given again, and that a kill is aimed at a process it found. A pgrep keeps it
  because it asks about a process found before; the end of a process, because its
  children are left to `InitPid` and keep their origin.
- **Completeness of a walk.** The tree below the shell is read off its chains (a process
  is in it if a sequence of parents leads to it from the shell), so `Followed` can say of
  every chain to a steady process that the walk has followed it as deep as it has gone,
  and that whoever follows a process of the walk is found or still to be asked for.
  That replaces an induction over levels. `Watched` keeps, per wait, that there was a
  moment without a match.
- **Bridge and buffer.** Keys are in order because the browser can type only once the
  proxy has begun to connect, and nothing is pending once it has connected. `FrameIInv`
  adds what the stage of an instance and its socket say of the buffer. An action
  property needs each callback that may still arrive for a disposed instance: they
  return early or have no terminal to write to.
- **Pages.** A page judges by an answer the broker gave some time before, so
  `FoundIInv` speaks of answers in flight: one asked for by the page that is shown, that
  does not list its terminal, was given while that page was open. What an earlier page
  asked for is not applied.

Only model-checked: the liveness properties `CreatedGetsRouted`, `AttachRecovers`,
`EverySocketAnswered`, `HeldOutputGetsSent`, `EveryFrameSettles`, `EveryCallSettles`,
`LiveOutputResumes`, `PanelConverges` and `GoneIsNoticed`. They hold under fairness,
whose ENABLED the proof system does not handle. The two violated properties of section 5
are refuted by TLC and have no theorem.

## 5. Where code and documentation disagree

The violated runs of section 3 show two, each with a trace:

1. A terminal that has printed as many lines as a read may return gives empty deltas
   ever after (`read-cursor.ts:53`), against `term-read.tool.ts:4` and its comment at `:26`
   on the "constant-height capture trap".
2. `web.lock` left by a process that ended is never reclaimed
   (`ensure-stack.ts:233`), against `plans/autonomous-stack-publish/_invariants.md:9`.

Others are in the models without a run of their own:

- A refresh or rename that awaits while a destroy evicts writes the entry back
  (`session.service.ts:335`, `:312`), against the comment at `:261`.
- A client disposed of during `connect`'s imports opens a terminal and a socket
  nobody closes (`xterm-client.ts:205`), against `:102` and the unit test.
- The cap of `createTerminal` is tested before the first await, so concurrent
  creates exceed the "hard ceiling" of `session.service.ts:76`; `RegistrySizeBounded`
  states by how much.
- A renamed window gets another id after a restart, since adoption derives the id
  from the name; `00-overview/glossary.md:16` says it never changes.
- The guard against a name collision at a restart (`session.service.ts:540`) tests one id
  and takes the next unseen: of windows named `app`, `app-3` and `app`, in this order, the
  third is adopted as `app-3`, over the second. `registry_restart` reaches it, with `zsh`.
- A second create with a title of the same slug overwrites the entry and orphans
  the first window; `term-create.tool.ts` calls create idempotent on a slug.
- A restart sets the counter to the number of windows without a terminal that it finds, so
  a later create without a title can take the id of an adopted terminal, say `t02`
  (`session.service.ts:217-220`), and overwrite its entry.
- A create that fails when `new-window` has opened the window leaves that window without a
  terminal: in the broker at `session.service.ts:225` or `:229`, which awaits commands
  before it registers, and in the MCP process at `tmux.client.ts:175`, on which
  `registry-resolver.ts:93-96` registers nothing.
- The failure counter of the attach is reset by the text of a refusal
  (`control-mode.attach.ts:184`), against the comment at `:181` that first bytes prove
  the attach live.
- A late fetched snapshot takes newer output off the screen (`xterm-client.ts:230`),
  against `:114` and `:209`.
- With a broker `term_create` posts `name` and `cwd`, which the route's schema
  (`terminal.controller.ts:35`) drops: the broker names the terminal, and `created` is
  always true.
- Without one, two creates of a slug that overlap open two windows for one entry, and a
  terminal whose shell has exited can neither be destroyed nor stops counting
  against the cap.
- A cursor survives a destroy by another client or one whose answer is lost, and a
  snapshot sets it to an index of the viewport: later deltas skip or repeat lines.
- A failed bootstrap is memoised, although its error asks to retry.
- A lock file that is created and not written, because the write fails or the process
  ends (`lockfile.ts:39-45`), stays empty and is never removed: its pid cannot be
  parsed, and `acquireLock` is called outside the `try` that releases.
- A winner that waits more than 10 s reclaims its own lock; the stale test and the unlink
  are not atomic; a foreign program on the web port is taken for the web server.
- `term_send` types its text and then fails on Enter with an error that is retriable
  (`errors.ts:38`), so a retry types it twice; two sends to one window may share a line
  (`term-send.tool.ts:24`), where `plans/ddx-terminal-bridge/discuss.md:51` promises "no
  interleaved-keystroke corruption".
- `term_signal` accepts a process it saw in the tree although its parent has ended
  since, and kills what has the pid by then (`term-signal.tool.ts:45-50`).
- Killing the active terminal filters it and pushes its neighbour; when the window-close
  is handled before the navigation commits, `navigateToNeighbor` runs again with index
  -1 and pushes the list although a neighbour exists (`TerminalWorkspace.tsx:187-189`,
  against `:165`). The same happens when a poll has removed the terminal first.
- A new terminal is named by the length of the page's list (`TerminalWorkspace.tsx:219`,
  `new/page.tsx:52`): two quick clicks, or a create after a kill, take a slug in use.
- A row's draft is taken when it opens; if the title changes meanwhile, Enter
  without typing sends the old one back (`TerminalSidePanel.tsx:179`), against `:158`.
- On the readonly page, another row or the end of the shell leads to the full page.
- A shell that exits leaves its entry, so the poll lists the dead terminal again.
- An answer given before a terminal was created again may arrive after one that lists it
  and mark it not found; `NotFoundIsReal` allows that, since it was gone at the time.
- An upstream that hangs while it connects keeps the browser's socket open with no
  deadline (`server.mjs:144`); `BridgeWhole` counts that as whole.
- A create that is answered late takes the user away from where they have gone.
- During an outage the proxy completes every handshake before it reaches the broker,
  so the browser's attempt counter is reset each time and the backoff never grows.

## 6. Left out

- Text: escapes, decoding of control-mode output, screen contents, layouts,
  validation of REST bodies, close codes.
- Reads without effect: screen and panes, health, config, logging.
- `clear()` and `applyAppearance()` of the browser client, settings, the collapsed
  panel, the presentations of the list, the redirect of the index page.
- In `Workspace` a restart of the broker, which is a list that changes by itself
  (`OthersAct`) and requests that fail.
- Multi-pane windows: the broker creates one pane per window, and the registry
  binds the first.
- The Python and TypeScript command-line clients: stateless front ends.

## 7. Plan

Done: registry, attach and stream, input with its refinement, supervisor, MCP tools and
the verbs over a window's processes, proxy, browser client and workspace pages; the
theorems of section 4. Next, in this order:

1. An abstract specification of what a client may rely on from the registry, with the
   refinement, as `InputQueue` is for the input.
2. `McpTools` over `SessionRegistry`, the broker's steps in place of `OthersCall`.
