-------------------------- MODULE SessionRegistry --------------------------
(***************************************************************************)
(* The terminal registry of ddx-term-broker: SessionService and the REST   *)
(* operations of TerminalService over one tmux session.                    *)
(*                                                                         *)
(* The broker is one Node process, so a handler runs without interruption  *)
(* between two awaits and interleaves with the others at every await.  An  *)
(* await is always a tmux or pgrep child process.  A request is therefore  *)
(* a record with the stage it has reached and the descriptor it captured,  *)
(* and there is one action per await: the child process takes effect and   *)
(* the handler resumes up to its next await.  Where another handler could  *)
(* run between the effect and the resumption and tell the difference, the  *)
(* two are separate actions.                                               *)
(*                                                                         *)
(* tmux is the environment: windows are created and killed by the broker,  *)
(* by a shell that exits and by a human attached to the session.  They     *)
(* survive the broker; the registry does not.  Each window has one pane,   *)
(* named here by its window.                                               *)
(***************************************************************************)
EXTENDS Integers, FiniteSets

CONSTANTS
    Requests,      \* the REST requests that can be in flight together
    Titles,        \* titles a caller passes to create and rename
    EmptyTitle,    \* the title "", falsy in JavaScript
    NoTitle,       \* no title given (undefined)
    ShellName,     \* the name tmux gives a fresh window
    SlugOf(_),     \* title.toLowerCase().replace(..., "-").slice(0, 32)
    AutoId(_),     \* the counter printed as t01, t02, ...
    Suffixed(_, _),\* `${slug}-${counter}`
    MaxTerminals,  \* DDX_TERM_MAX_TERMINALS, default 10
    MaxWindows,    \* bound: new-window succeeds while fewer were opened
    MaxForeign,    \* bound: windows a human creates directly in tmux
    MaxExits,      \* bound: shells that exit by themselves
    MaxFaults,     \* bound: tmux commands that fail on an existing target
    MaxCrashes     \* bound: broker restarts

ASSUME ConstantsAssumption ==
    /\ IsFiniteSet(Requests)
    /\ NoTitle \notin Titles \cup {EmptyTitle, ShellName}
    /\ NoTitle \notin {AutoId(k) : k \in 1..MaxWindows + MaxCrashes + 1}
    /\ EmptyTitle # ShellName
    /\ MaxTerminals \in Nat \ {0}
    /\ MaxWindows \in Nat \ {0}
    /\ {MaxForeign, MaxExits, MaxFaults, MaxCrashes} \subseteq Nat

\* Each boot may open one window above MaxWindows, the session's first.
WindowLimit == MaxWindows + MaxCrashes + 1
Windows == 0..WindowLimit - 1         \* tmux window ids '@0', '@1', ...
NoWindow == -1
Counters == 1..WindowLimit            \* values windowCounter takes
AutoIds == {AutoId(k) : k \in Counters}
Names == Titles \cup {EmptyTitle, ShellName} \cup AutoIds   \* window names
BaseIds == {SlugOf(n) : n \in Names} \cup AutoIds
Ids == BaseIds \cup {Suffixed(i, k) : i \in BaseIds, k \in Counters}
NoId == NoTitle
TitleSlugs == {SlugOf(t) : t \in Titles \ {EmptyTitle}}

\* What the ids look like, whatever the titles: the counter's have no dash, one
\* with the counter appended ends in a dash and the counter.
ASSUME NamesAssumption ==
    /\ \A k, l \in Counters : AutoId(k) = AutoId(l) => k = l
    /\ \A i, j \in BaseIds, k, l \in Counters : Suffixed(i, k) = Suffixed(j, l) => k = l
    /\ \A i \in BaseIds, k \in Counters : Suffixed(i, k) \notin AutoIds \cup {i}

Text == Names \cup Ids               \* what a title can be after `name || slug`

WindowRows == [name : Names, index : 0..WindowLimit]
Descriptors == [windowId : Windows, title : Text]

CreateStages == {"new-window", "slug", "rename-new", "pids", "register"}
WriteStages == {"rename-window", "write-title", "read-pids", "write-snapshot"}
Stages == {"idle", "pane", "bind", "kill-window", "evict"}
            \cup CreateStages \cup WriteStages

Phases == {"down", "sync", "list", "adopt", "up"}

VARIABLES
    \* tmux
    windows,       \* live window id -> its name and index
    nextWindow,    \* the id tmux gives the next window
    \* the broker
    phase,         \* where onModuleInit stands; "up" once it serves requests
    registry,      \* terminalId -> descriptor
    paneToWindow,  \* the windows whose pane is bound to them
    windowCounter,
    listing,       \* the rows of list-windows in reconcileRegistry
    todo,          \* the rows its loop has still to visit
    adopted,       \* terminals adopted by this boot (the code counts them)
    req,           \* request -> stage and captured descriptor
    \* how much of each bound is used
    foreign, exits, faults, crashes,
    lost           \* history: windows this life of the broker has let go of

tmuxVars == <<windows, nextWindow>>
bootVars == <<phase, listing, todo, adopted>>
brokerVars == <<registry, paneToWindow, windowCounter>>
boundVars == <<foreign, exits, faults, crashes>>
vars == <<tmuxVars, bootVars, brokerVars, req, boundVars, lost>>

MapSet(m, k, v) == [x \in DOMAIN m \cup {k} |-> IF x = k THEN v ELSE m[x]]
MapDelete(m, k) == [x \in DOMAIN m \ {k} |-> m[x]]
EmptyMap == [x \in {} |-> x]

Live(w) == w \in DOMAIN windows
RegisteredWindows == {registry[id].windowId : id \in DOMAIN registry}

Idle == [stage |-> "idle", id |-> NoId, windowId |-> NoWindow, title |-> NoTitle]

Init ==
    /\ windows = EmptyMap /\ nextWindow = 0
    /\ phase = "down"
    /\ registry = EmptyMap /\ paneToWindow = {} /\ windowCounter = 0
    /\ listing = EmptyMap /\ todo = {} /\ adopted = {}
    /\ req = [r \in Requests |-> Idle]
    /\ foreign = 0 /\ exits = 0 /\ faults = 0 /\ crashes = 0 /\ lost = {}

----------------------------------------------------------------------------
(* Child processes *)

IndexesInUse == {windows[w].index : w \in DOMAIN windows}

\* tmux opens a window under its default name at the lowest free index.
OpenWindow ==
    /\ \E i \in 0..WindowLimit :
          /\ i \notin IndexesInUse /\ 0..i - 1 \subseteq IndexesInUse
          /\ windows' = MapSet(windows, nextWindow, [name |-> ShellName, index |-> i])
    /\ nextWindow' = nextWindow + 1

\* A tmux command on window w can fail: the window is gone, or the command
\* fails although it is there (no process, no memory, server busy).
CommandFails(w) ==
    \/ ~Live(w) /\ UNCHANGED faults
    \/ faults < MaxFaults /\ faults' = faults + 1

CommandSucceeds(w) == Live(w) /\ UNCHANGED faults

\* Windows that go on without the broker.
LetGo(ws) == lost' = lost \cup (ws \cap DOMAIN windows)

Goto(r, stage) == req' = [req EXCEPT ![r].stage = stage]
Return(r) == req' = [req EXCEPT ![r] = Idle]

----------------------------------------------------------------------------
(* Boot: onModuleInit *)

\* ensureSession: reuse the session if it is alive, else create it with one
\* window.  (A tmux session ends with its last window.)
EnsureSession ==
    /\ phase = "down"
    /\ phase' = "sync"
    /\ IF DOMAIN windows = {} THEN OpenWindow ELSE UNCHANGED tmuxVars
    /\ UNCHANGED <<listing, todo, adopted, brokerVars, req, boundVars, lost>>

\* syncPaneMap: bind every live pane; best effort.
SyncPaneMap ==
    /\ phase = "sync"
    /\ phase' = "list"
    /\ \/ /\ paneToWindow' = paneToWindow \cup DOMAIN windows
          /\ UNCHANGED faults
       \/ /\ faults < MaxFaults /\ faults' = faults + 1
          /\ UNCHANGED paneToWindow
    /\ UNCHANGED <<tmuxVars, listing, todo, adopted, registry, windowCounter,
                   req, foreign, exits, crashes, lost>>

\* reconcileRegistry, first half: list the windows and drop the entries
\* whose window is gone.  When the listing fails it returns at once.
ListWindows ==
    /\ phase = "list"
    /\ \/ /\ DOMAIN windows # {}
          /\ listing' = windows
          /\ todo' = DOMAIN windows
          /\ registry' = [id \in {i \in DOMAIN registry : Live(registry[i].windowId)}
                            |-> registry[id]]
          /\ phase' = "adopt"
          /\ lost' = {}
          /\ UNCHANGED faults
       \/ /\ \/ DOMAIN windows = {} /\ UNCHANGED faults
             \/ faults < MaxFaults /\ faults' = faults + 1
          /\ phase' = "up"
          /\ lost' = DOMAIN windows
          /\ UNCHANGED <<listing, todo, registry>>
    /\ UNCHANGED <<tmuxVars, adopted, paneToWindow, windowCounter, req,
                   foreign, exits, crashes>>

BaseId(name, n) == IF name = EmptyTitle THEN AutoId(n) ELSE SlugOf(name)

\* Mutant: no guard against a taken id.
AdoptedIdUnguarded(name, n) == BaseId(name, n)

\* The terminalId reconcileRegistry derives for a window called name: its
\* slug or the counter, with the counter appended when the id is taken.
AdoptedId(name, n) ==
    LET slug == BaseId(name, n)
    IN  IF slug \in DOMAIN registry THEN Suffixed(slug, n) ELSE slug

\* The id with the counter appended is not looked up again: a window adopted
\* before by a name that has this very slug loses its terminal.
Buried(name, n) ==
    LET id == AdoptedId(name, n)
    IN  {registry[i].windowId : i \in {j \in DOMAIN registry :
            /\ j = id /\ id # BaseId(name, n)
            /\ SlugOf(listing[registry[j].windowId].name) = id}}

\* reconcileRegistry, second half: one turn of the adoption loop.  The rows
\* come in window index order, which is not the order of the window ids.
AdoptWindow(w) ==
    /\ phase = "adopt" /\ w \in todo
    /\ \A v \in todo : listing[w].index <= listing[v].index
    /\ todo' = todo \ {w}
    /\ IF w \in RegisteredWindows
       THEN UNCHANGED <<registry, windowCounter, adopted, faults, lost>>
       ELSE /\ windowCounter < WindowLimit
            /\ windowCounter' = windowCounter + 1
            /\ LET name == listing[w].name
                   id == AdoptedId(name, windowCounter')
                   title == IF name = EmptyTitle THEN id ELSE name
               IN \/ /\ CommandSucceeds(w)
                     /\ registry' = MapSet(registry, id, [windowId |-> w, title |-> title])
                     /\ adopted' = adopted \cup {id}
                     /\ LetGo(Buried(name, windowCounter'))
                  \/ CommandFails(w) /\ LetGo({w}) /\ UNCHANGED <<registry, adopted>>
    /\ UNCHANGED <<tmuxVars, phase, listing, paneToWindow, req, foreign, exits, crashes>>

\* onModuleInit returns and the HTTP server starts to listen.
FinishBoot ==
    /\ phase = "adopt" /\ todo = {}
    /\ phase' = "up"
    /\ listing' = EmptyMap
    /\ UNCHANGED <<tmuxVars, todo, adopted, brokerVars, req, boundVars, lost>>

\* The broker stops: its memory is lost, tmux keeps its windows.
Crash ==
    /\ phase # "down" /\ crashes < MaxCrashes
    /\ crashes' = crashes + 1
    /\ phase' = "down"
    /\ registry' = EmptyMap /\ paneToWindow' = {} /\ windowCounter' = 0
    /\ listing' = EmptyMap /\ todo' = {} /\ adopted' = {} /\ lost' = {}
    /\ req' = [r \in Requests |-> Idle]
    /\ UNCHANGED <<tmuxVars, foreign, exits, faults>>

----------------------------------------------------------------------------
(* POST /terminals: createTerminal *)

Idling(r) == phase = "up" /\ req[r].stage = "idle"
At(r, stage) == phase = "up" /\ req[r].stage = stage

\* Mutant: no cap guard.
CreateBeginUncapped(r, title) ==
    /\ Idling(r)
    /\ req' = [req EXCEPT ![r] = [Idle EXCEPT !.stage = "new-window", !.title = title]]
    /\ UNCHANGED <<tmuxVars, bootVars, brokerVars, boundVars, lost>>

\* The cap guard, then new-window is issued.  (A refused request changes
\* nothing.)
CreateBegin(r, title) ==
    /\ Idling(r)
    /\ Cardinality(DOMAIN registry) < MaxTerminals
    /\ req' = [req EXCEPT ![r] = [Idle EXCEPT !.stage = "new-window", !.title = title]]
    /\ UNCHANGED <<tmuxVars, bootVars, brokerVars, boundVars, lost>>

NewWindow(r) ==
    /\ At(r, "new-window")
    /\ DOMAIN windows # {} /\ nextWindow < MaxWindows
    /\ OpenWindow
    /\ req' = [req EXCEPT ![r] = [@ EXCEPT !.stage = "slug", !.windowId = nextWindow]]
    /\ UNCHANGED <<bootVars, brokerVars, boundVars, lost>>

\* new-window fails: no session left, no window left to give, or a fault, which
\* may come when the window is open, or be that its id is not printed.
NewWindowFails(r) ==
    /\ At(r, "new-window")
    /\ \/ /\ DOMAIN windows = {} \/ nextWindow >= MaxWindows
          /\ UNCHANGED <<tmuxVars, faults, lost>>
       \/ /\ faults < MaxFaults /\ faults' = faults + 1
          /\ \/ UNCHANGED <<tmuxVars, lost>>
             \/ /\ DOMAIN windows # {} /\ nextWindow < MaxWindows
                /\ OpenWindow
                /\ lost' = lost \cup {nextWindow}
    /\ Return(r)
    /\ UNCHANGED <<bootVars, brokerVars, foreign, exits, crashes>>

\* Mutant: the label has no default.
LabelUndefaulted(title, id) == title

\* The terminalId of a new terminal and the label its window gets.
CreatedId(title, n) == IF title \in {NoTitle, EmptyTitle} THEN AutoId(n) ELSE SlugOf(title)
Label(title, id) == IF title = NoTitle THEN id ELSE title

ChooseSlug(r) ==
    /\ At(r, "slug")
    /\ windowCounter < WindowLimit
    /\ windowCounter' = windowCounter + 1
    /\ LET id == CreatedId(req[r].title, windowCounter')
       IN  req' = [req EXCEPT ![r] = [@ EXCEPT !.stage = "rename-new", !.id = id,
                                               !.title = Label(req[r].title, id)]]
    /\ UNCHANGED <<tmuxVars, bootVars, registry, paneToWindow, boundVars, lost>>

\* rename-window of the new window; createTerminal throws when it fails.
LabelWindow(r) ==
    /\ At(r, "rename-new")
    /\ LET w == req[r].windowId IN
         \/ /\ CommandSucceeds(w)
            /\ windows' = [windows EXCEPT ![w].name = req[r].title]
            /\ Goto(r, "pids") /\ UNCHANGED lost
         \/ CommandFails(w) /\ LetGo({w}) /\ Return(r) /\ UNCHANGED windows
    /\ UNCHANGED <<nextWindow, bootVars, brokerVars, foreign, exits, crashes>>

\* resolvePids throws when the pane is gone; cwd and command never throw.
ReadNewPids(r) ==
    /\ At(r, "pids")
    /\ \/ CommandSucceeds(req[r].windowId) /\ Goto(r, "register") /\ UNCHANGED lost
       \/ CommandFails(req[r].windowId) /\ LetGo({req[r].windowId}) /\ Return(r)
    /\ UNCHANGED <<tmuxVars, bootVars, brokerVars, foreign, exits, crashes>>

\* Ids that can name a second window in one life of the broker: a title may be
\* given twice, and the counter, which a restart sets back, may come to the id
\* of a terminal that was adopted.
Reusable(id) == id \in TitleSlugs \cup (AutoIds \cap adopted)

\* The entry of such an id is overwritten or deleted unseen: the window it named
\* is let go.
LetGoOfEntry(r) ==
    LetGo({registry[id].windowId : id \in {i \in DOMAIN registry :
               i = req[r].id /\ Reusable(i)}} \ {req[r].windowId})

\* registry.set(req.id, descriptor) with the descriptor the request captured.
SetEntry(r) ==
    /\ registry' = MapSet(registry, req[r].id,
                          [windowId |-> req[r].windowId, title |-> req[r].title])
    /\ LetGoOfEntry(r)

\* Mutant: the pane is never looked up.
RegisterOnly(r) ==
    /\ At(r, "register")
    /\ SetEntry(r)
    /\ Return(r)
    /\ UNCHANGED <<tmuxVars, bootVars, paneToWindow, windowCounter, boundVars>>

Register(r) ==
    /\ At(r, "register")
    /\ SetEntry(r)
    /\ Goto(r, "pane")
    /\ UNCHANGED <<tmuxVars, bootVars, paneToWindow, windowCounter, boundVars>>

\* resolvePaneId swallows its errors: the terminal then has no pane binding.
ReadPaneId(r) ==
    /\ At(r, "pane")
    /\ \/ CommandSucceeds(req[r].windowId) /\ Goto(r, "bind")
       \/ CommandFails(req[r].windowId) /\ Return(r)
    /\ UNCHANGED <<tmuxVars, bootVars, brokerVars, foreign, exits, crashes, lost>>

BindPane(r) ==
    /\ At(r, "bind")
    /\ paneToWindow' = paneToWindow \cup {req[r].windowId}
    /\ Return(r)
    /\ UNCHANGED <<tmuxVars, bootVars, registry, windowCounter, boundVars, lost>>

----------------------------------------------------------------------------
(* DELETE, PATCH and GET /terminals/:id *)

\* What a handler captures of entry id before its first await.
Captured(id, stage) ==
    [stage |-> stage, id |-> id, windowId |-> registry[id].windowId,
     title |-> registry[id].title]

\* Mutant: the window is not killed.
DestroyBeginEvicting(r, id) ==
    /\ Idling(r) /\ id \in DOMAIN registry
    /\ req' = [req EXCEPT ![r] = Captured(id, "evict")]
    /\ UNCHANGED <<tmuxVars, bootVars, brokerVars, boundVars, lost>>

\* destroy: an unknown id is a no-op that answers 204.
DestroyBegin(r, id) ==
    /\ Idling(r) /\ id \in DOMAIN registry
    /\ req' = [req EXCEPT ![r] = Captured(id, "kill-window")]
    /\ UNCHANGED <<tmuxVars, bootVars, brokerVars, boundVars, lost>>

\* kill-window; any failure of it is swallowed.
KillWindow(r) ==
    /\ At(r, "kill-window")
    /\ \/ /\ CommandSucceeds(req[r].windowId)
          /\ windows' = MapDelete(windows, req[r].windowId)
          /\ UNCHANGED lost
       \/ CommandFails(req[r].windowId) /\ LetGo({req[r].windowId}) /\ UNCHANGED windows
    /\ Goto(r, "evict")
    /\ UNCHANGED <<nextWindow, bootVars, brokerVars, foreign, exits, crashes>>

\* Mutant: the panes of the other windows are dropped.
EvictOtherPanes(r) ==
    /\ At(r, "evict")
    /\ registry' = MapDelete(registry, req[r].id)
    /\ LetGoOfEntry(r)
    /\ paneToWindow' = paneToWindow \cap {req[r].windowId}
    /\ Return(r)
    /\ UNCHANGED <<tmuxVars, bootVars, windowCounter, boundVars>>

\* The finally block: evict the entry and the panes of the captured window.
Evict(r) ==
    /\ At(r, "evict")
    /\ registry' = MapDelete(registry, req[r].id)
    /\ LetGoOfEntry(r)
    /\ paneToWindow' = paneToWindow \ {req[r].windowId}
    /\ Return(r)
    /\ UNCHANGED <<tmuxVars, bootVars, windowCounter, boundVars>>

RenameBegin(r, id, title) ==
    /\ Idling(r) /\ id \in DOMAIN registry
    /\ req' = [req EXCEPT ![r] = [Captured(id, "rename-window") EXCEPT !.title = title]]
    /\ UNCHANGED <<tmuxVars, bootVars, brokerVars, boundVars, lost>>

RenameWindow(r) ==
    /\ At(r, "rename-window")
    /\ LET w == req[r].windowId IN
         \/ /\ CommandSucceeds(w)
            /\ windows' = [windows EXCEPT ![w].name = req[r].title]
            /\ Goto(r, "write-title")
         \/ CommandFails(w) /\ Return(r) /\ UNCHANGED windows
    /\ UNCHANGED <<nextWindow, bootVars, brokerVars, foreign, exits, crashes, lost>>

\* Mutant: the entry moves to the slug of the new title.
WriteTitleAsSlug(r) ==
    /\ At(r, "write-title")
    /\ registry' = MapSet(registry, SlugOf(req[r].title),
                          [windowId |-> req[r].windowId, title |-> req[r].title])
    /\ Return(r)
    /\ UNCHANGED <<tmuxVars, bootVars, paneToWindow, windowCounter, boundVars, lost>>

WriteTitle(r) ==
    /\ At(r, "write-title")
    /\ SetEntry(r)
    /\ Return(r)
    /\ UNCHANGED <<tmuxVars, bootVars, paneToWindow, windowCounter, boundVars>>

\* get: refreshSnapshot re-reads the process fields of the captured entry.
GetBegin(r, id) ==
    /\ Idling(r) /\ id \in DOMAIN registry
    /\ req' = [req EXCEPT ![r] = Captured(id, "read-pids")]
    /\ UNCHANGED <<tmuxVars, bootVars, brokerVars, boundVars, lost>>

ReadPids(r) ==
    /\ At(r, "read-pids")
    /\ \/ CommandSucceeds(req[r].windowId) /\ Goto(r, "write-snapshot")
       \/ CommandFails(req[r].windowId) /\ Return(r)
    /\ UNCHANGED <<tmuxVars, bootVars, brokerVars, foreign, exits, crashes, lost>>

WriteSnapshot(r) ==
    /\ At(r, "write-snapshot")
    /\ SetEntry(r)
    /\ Return(r)
    /\ UNCHANGED <<tmuxVars, bootVars, paneToWindow, windowCounter, boundVars>>

----------------------------------------------------------------------------
(* tmux without the broker *)

\* A shell exits: tmux closes its window.  Nothing tells the registry.
ShellExits(w) ==
    /\ Live(w) /\ exits < MaxExits
    /\ exits' = exits + 1
    /\ windows' = MapDelete(windows, w)
    /\ UNCHANGED <<nextWindow, bootVars, brokerVars, req, foreign, faults, crashes, lost>>

\* A human attached to the session opens a window.
ForeignWindow ==
    /\ DOMAIN windows # {} /\ nextWindow < MaxWindows /\ foreign < MaxForeign
    /\ foreign' = foreign + 1
    /\ OpenWindow
    /\ lost' = lost \cup {nextWindow}
    /\ UNCHANGED <<bootVars, brokerVars, req, exits, faults, crashes>>

----------------------------------------------------------------------------
Boot ==
    \/ EnsureSession \/ SyncPaneMap \/ ListWindows \/ FinishBoot
    \/ \E w \in Windows : AdoptWindow(w)

\* A client sends a request.
Call(r) ==
    \/ \E title \in Titles \cup {NoTitle} : CreateBegin(r, title)
    \/ \E id \in DOMAIN registry : DestroyBegin(r, id) \/ GetBegin(r, id)
    \/ \E id \in DOMAIN registry, title \in Titles \ {EmptyTitle} : RenameBegin(r, id, title)

\* A child process of request r ends and its handler goes on.
Continue(r) ==
    \/ NewWindow(r) \/ NewWindowFails(r) \/ ChooseSlug(r) \/ LabelWindow(r)
    \/ ReadNewPids(r) \/ Register(r) \/ ReadPaneId(r) \/ BindPane(r)
    \/ KillWindow(r) \/ Evict(r)
    \/ RenameWindow(r) \/ WriteTitle(r)
    \/ ReadPids(r) \/ WriteSnapshot(r)

Environment ==
    \/ Crash \/ ForeignWindow
    \/ \E w \in DOMAIN windows : ShellExits(w)

Next ==
    \/ Boot
    \/ \E r \in Requests : Call(r) \/ Continue(r)
    \/ Environment

Spec == Init /\ [][Next]_vars

\* Child processes end and the event loop runs their continuations.
Fairness == WF_vars(Boot) /\ \A r \in Requests : WF_vars(Continue(r))
FairSpec == Spec /\ Fairness

----------------------------------------------------------------------------
(* Correctness *)

\* Types of the broker's memory, of the requests in flight and of tmux.
TypeOK ==
    /\ nextWindow \in 0..WindowLimit
    /\ DOMAIN windows \subseteq 0..nextWindow - 1
    /\ windows \in [DOMAIN windows -> WindowRows]
    /\ phase \in Phases
    /\ DOMAIN registry \subseteq Ids
    /\ registry \in [DOMAIN registry -> Descriptors]
    /\ paneToWindow \subseteq 0..nextWindow - 1
    /\ windowCounter \in 0..WindowLimit
    /\ todo \subseteq DOMAIN listing
    /\ DOMAIN listing \subseteq 0..nextWindow - 1
    /\ listing \in [DOMAIN listing -> WindowRows]
    /\ adopted \subseteq Ids
    /\ lost \subseteq 0..nextWindow - 1
    /\ req \in [Requests -> [stage : Stages, id : Ids \cup {NoId},
                             windowId : Windows \cup {NoWindow},
                             title : Text \cup {NoTitle}]]
    /\ {foreign, exits, faults, crashes} \subseteq Nat

\* Two terminalIds never name the same window, whatever create, destroy,
\* rename, get and restart interleave.  resolveTerminalId, which returns the
\* first entry it finds for a window, therefore has one answer, and output of
\* one window is never routed to another terminal's subscribers.
OneIdPerWindow ==
    \A i, j \in DOMAIN registry :
        registry[i].windowId = registry[j].windowId => i = j

\* How far the cap of createTerminal can be overrun: it is checked before the
\* first await, so all the requests in flight can add an entry on top of a
\* registry that was below the cap, and a boot adopts any number of windows.
RegistrySizeBounded ==
    \/ Cardinality(DOMAIN registry) <= Cardinality(adopted)
    \/ Cardinality(DOMAIN registry) < MaxTerminals + Cardinality(Requests)

\* A registered terminal whose window lives has its pane bound, so that its
\* %output reaches subscribers, or the create that binds it is still running.
\* A pane id that cannot be read (a fault) and a window opened by hand between
\* syncPaneMap and list-windows are the two ways to lose a binding.
LiveEntriesRouted ==
    faults = 0 /\ foreign = 0 =>
        \A id \in DOMAIN registry :
            LET w == registry[id].windowId
            IN  Live(w) => \/ w \in paneToWindow
                           \/ \E r \in Requests : /\ req[r].windowId = w
                                                  /\ req[r].stage \in {"pane", "bind"}

\* reconcileRegistry registers every surviving window it has visited, even
\* when the names of several windows give the same slug.  It lets go of two:
\* a window on which a command fails, and one whose own slug is the id another
\* gets with the counter appended (windows "app", "app-3" and "app").
SurvivorsAdopted ==
    phase = "adopt" =>
        \A w \in DOMAIN listing \ todo : Live(w) => w \in RegisteredWindows \cup lost

\* No window leaks unseen: while the broker serves requests every live window is
\* registered, or in the hands of the create that will register it, or was let
\* go of for a cause the code does not handle: a command failed on it, a human
\* opened it, or a second window took its id, which no id of the counter allows
\* but one that was adopted.
NoOrphanWindows ==
    phase = "up" =>
        \A w \in DOMAIN windows :
            \/ w \in RegisteredWindows \cup lost
            \/ \E r \in Requests : req[r].windowId = w /\ req[r].stage \in CreateStages

\* A window that create has allocated ends up registered with its pane bound, by
\* that create or after a restart of the broker, unless it closes, is let go or a
\* command has failed.
CreatedGetsRouted ==
    \A w \in Windows :
        (\E r \in Requests : At(r, "slug") /\ req[r].windowId = w)
            ~> \/ w \in RegisteredWindows \cap paneToWindow
               \/ ~Live(w) \/ w \in lost \/ faults > 0
============================================================================
