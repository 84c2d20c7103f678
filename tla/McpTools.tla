------------------------------ MODULE McpTools ------------------------------
(***************************************************************************)
(* The verbs of one MCP process that create, destroy, read and snapshot    *)
(* terminals (ddx-term-mcp/src/tools), over the resolver that names them   *)
(* and the read cursor that remembers what the agent has seen.             *)
(*                                                                         *)
(* The resolver is the process's own map, or the broker's REST interface,  *)
(* shared then with other clients.  The process is one thread; verbs       *)
(* interleave at their awaits, which are tmux commands and REST requests.  *)
(* Resolving in the local map is no await.  A verb that returns before its *)
(* first await changes nothing and is no step.                             *)
(*                                                                         *)
(* A terminalId is a number, `t01' is 1.  A window prints the lines 1, 2,  *)
(* ..., and a capture is the number of lines printed so far.               *)
(***************************************************************************)
EXTENDS Integers, FiniteSets, FiniteSetsExt

CONSTANTS
    Calls,         \* verbs in flight together
    MaxIds,        \* terminalIds that are used
    Default,       \* $DDX_TERM_DEFAULT
    MaxTerminals,  \* $DDX_TERM_MAX_TERMINALS
    MaxReadLines,  \* $DDX_TERM_MAX_READ_LINES
    Viewport,      \* rows of a window
    MaxWindows,    \* bound: windows opened
    MaxLines,      \* bound: lines printed, in all windows together
    MaxExits,      \* bound: shells that exit by themselves
    MaxOthers      \* bound: creates and destroys of the broker's other clients

ASSUME McpAssumption ==
    /\ IsFiniteSet(Calls)
    /\ {MaxTerminals, MaxReadLines, Viewport} \subseteq Nat \ {0}
    /\ {MaxIds, MaxWindows, MaxLines, MaxExits, MaxOthers} \subseteq Nat
    /\ Default \in 1..MaxIds

Ids == 1..MaxIds
NoId == 0                      \* the caller gives no name
Windows == 1..MaxWindows
NoWindow == 0
Unread == -1                   \* no cursor for a terminal

VARIABLES
    attached,      \* the resolver is the broker's
    registry,      \* terminalId -> window, the local map or the broker's
    alive,         \* windows that exist
    opened,        \* windows opened so far
    lines,         \* window -> lines it printed
    cursor,        \* terminalId -> index of the last line consumed
    call,          \* call -> its verb, stage, terminal, window and capture
    exits, others, \* how much of each bound is used
    seen,          \* history: window -> lines the agent was given
    cut,           \* history: windows of which a capture left out old lines
    stale,         \* history: terminals with a cursor of an earlier window
    overlapped,    \* history: slugs of which two creates were in flight
    slug,          \* history: window -> the slug it was opened for
    unbound        \* history: windows opened by a create that then threw

tmuxVars == <<alive, opened, lines>>
namingVars == <<overlapped, slug, unbound>>
historyVars == <<seen, cut, stale, namingVars>>
mcpVars == <<attached, registry, tmuxVars, cursor, call, exits, others, historyVars>>

Idle == [verb |-> "none", stage |-> "idle", id |-> NoId, window |-> NoWindow, shown |-> 0]
Reads == {"read", "read-all", "snapshot"}

(* buildResolver: a broker URL decides the resolver once and for all.           *)
McpInit ==
    /\ attached \in BOOLEAN
    /\ registry = [id \in {} |-> NoWindow]
    /\ alive = {} /\ opened = 0 /\ lines = [w \in Windows |-> 0]
    /\ cursor = [id \in Ids |-> Unread]
    /\ call = [c \in Calls |-> Idle]
    /\ exits = 0 /\ others = 0
    /\ seen = [w \in Windows |-> {}] /\ cut = {} /\ stale = {}
    /\ overlapped = {} /\ slug = [w \in Windows |-> NoId] /\ unbound = {}

Registered == DOMAIN registry
Unregister(id) == [i \in Registered \ {id} |-> registry[i]]

At(c, verbs, stage) == call[c].verb \in verbs /\ call[c].stage = stage
Goto(c, stage) == call' = [call EXCEPT ![c].stage = stage]
Return(c) == call' = [call EXCEPT ![c] = Idle]
Start(c, verb, id, window) ==
    /\ call[c] = Idle
    /\ call' = [call EXCEPT ![c] = [verb |-> verb, id |-> id, window |-> window, shown |-> 0,
                                    stage |-> IF attached THEN "resolve" ELSE "run"]]
    /\ UNCHANGED <<attached, registry, tmuxVars, cursor, exits, others, seen, cut, stale,
                   slug, unbound>>

------------------------------------------------------------------------------
(* term_create                                                                  *)

(* Mutant: the local map is not searched for the slug.                          *)
CallCreateUnsearched(c) ==
    \E id \in Ids :
        /\ attached \/ Cardinality(Registered) < MaxTerminals
        /\ Start(c, "create", IF attached THEN NoId ELSE id, NoWindow)
        /\ overlapped' = overlapped

(* With the local map at once the cap and the search for the slug: the caller's *)
(* name, any id that is free, or nextAutoSlug, the first of them.  The broker   *)
(* ignores the name, which its request schema does not have.                    *)
CallCreate(c) ==
    \E id \in Ids \cup {NoId} :
        /\ IF attached THEN id = NoId
           ELSE id \in Ids \ Registered /\ Cardinality(Registered) < MaxTerminals
        /\ Start(c, "create", id, NoWindow)
        /\ overlapped' = overlapped \cup
               {i \in {id} \ {NoId} : \E d \in Calls : call[d].verb = "create" /\ call[d].id = i}

(* count: GET /terminals.                                                       *)
CountRows(c) ==
    /\ At(c, {"create"}, "resolve")
    /\ IF Cardinality(Registered) < MaxTerminals THEN Goto(c, "run") ELSE Return(c)
    /\ UNCHANGED <<attached, registry, tmuxVars, cursor, exits, others, historyVars>>

Open(id) ==
    /\ opened < MaxWindows
    /\ opened' = opened + 1
    /\ alive' = alive \cup {opened'}
    /\ slug' = [slug EXCEPT ![opened'] = id]

(* A window is opened and bound to id, whatever id named before.                *)
Bind(id) ==
    /\ Open(id)
    /\ registry' = [i \in Registered \cup {id} |-> IF i = id THEN opened' ELSE registry[i]]
    /\ stale' = IF (id \in Registered \/ attached) /\ cursor[id] # Unread
                THEN stale \cup {id} ELSE stale

(* new-window and map.set, or POST /terminals: the broker has a cap too, and     *)
(* names the terminal after a counter of its own, taken or not.                 *)
CreateWindow(c) ==
    /\ At(c, {"create"}, "run")
    /\ IF attached THEN Cardinality(Registered) < MaxTerminals /\ \E id \in Ids : Bind(id)
       ELSE Bind(call[c].id)
    /\ Return(c)
    /\ UNCHANGED <<attached, lines, cursor, exits, others, seen, cut, overlapped, unbound>>

(* new-window opens the window, but what it prints does not parse, or the       *)
(* command fails all the same: the verb throws before map.set, and no terminal  *)
(* names the window.                                                            *)
LoseWindow(c) ==
    /\ ~attached /\ At(c, {"create"}, "run")
    /\ Open(call[c].id)
    /\ unbound' = unbound \cup {opened'}
    /\ Return(c)
    /\ UNCHANGED <<attached, registry, lines, cursor, exits, others, seen, cut, stale, overlapped>>

------------------------------------------------------------------------------
(* Verbs on a terminal                                                          *)

(* resolve: in the local map at once; one that is unknown is refused.           *)
CallOn(c, verb, id) ==
    /\ attached \/ id \in Registered
    /\ Start(c, verb, id, IF attached THEN NoWindow ELSE registry[id])
    /\ UNCHANGED overlapped

(* resolve: GET /terminals.                                                     *)
Resolve(c) ==
    /\ At(c, Reads \cup {"destroy"}, "resolve")
    /\ IF call[c].id \in Registered
       THEN call' = [call EXCEPT ![c].stage = "run", ![c].window = registry[call[c].id]]
       ELSE Return(c)
    /\ UNCHANGED <<attached, registry, tmuxVars, cursor, exits, others, historyVars>>

(* A command on a window that is gone, and any request or command that fails or *)
(* is not answered in time, ends its verb.  Where the broker did carry out the  *)
(* request whose answer is lost, this follows the step that carries it out.     *)
Throws(c) ==
    /\ \/ call[c].stage \in {"resolve", "run", "clear"}
       \/ attached /\ At(c, {"destroy"}, "finish")
    /\ Return(c)
    /\ UNCHANGED <<attached, registry, tmuxVars, cursor, exits, others, historyVars>>

------------------------------------------------------------------------------
(* term_destroy                                                                 *)

CallDestroy(c) == \E id \in Ids \ {Default} : CallOn(c, "destroy", id)

KillWindow(c) ==
    /\ At(c, {"destroy"}, "run") /\ call[c].window \in alive
    /\ alive' = alive \ {call[c].window}
    /\ Goto(c, "finish")
    /\ UNCHANGED <<attached, registry, opened, lines, cursor, exits, others, historyVars>>

(* map.delete, or DELETE /terminals/:id, where the broker kills the window it   *)
(* has for id now; a 404 is as good.                                            *)
Evict(id) ==
    /\ registry' = Unregister(id)
    /\ alive' = IF attached /\ id \in Registered THEN alive \ {registry[id]} ELSE alive

DropCursor(id) ==
    /\ cursor' = [cursor EXCEPT ![id] = Unread]
    /\ stale' = stale \ {id}

(* Mutant: the cursor is kept.                                                  *)
ReleaseKeeping(c) ==
    /\ At(c, {"destroy"}, "finish")
    /\ Evict(call[c].id)
    /\ Return(c)
    /\ UNCHANGED <<attached, opened, lines, cursor, exits, others, historyVars>>

(* release, and at once with the local map cursor.clear.                        *)
Release(c) ==
    /\ At(c, {"destroy"}, "finish")
    /\ Evict(call[c].id)
    /\ IF attached THEN Goto(c, "clear") /\ UNCHANGED <<cursor, stale>>
       ELSE Return(c) /\ DropCursor(call[c].id)
    /\ UNCHANGED <<attached, opened, lines, exits, others, seen, cut, namingVars>>

(* The broker has answered.                                                     *)
Clear(c) ==
    /\ At(c, {"destroy"}, "clear")
    /\ Return(c) /\ DropCursor(call[c].id)
    /\ UNCHANGED <<attached, registry, tmuxVars, exits, others, seen, cut, namingVars>>

------------------------------------------------------------------------------
(* term_read and term_snapshot                                                  *)

CallRead(c) == \E id \in Ids, verb \in Reads : CallOn(c, verb, id)

CapturePane(c) ==
    /\ At(c, Reads, "run") /\ call[c].window \in alive
    /\ call' = [call EXCEPT ![c].stage = "finish", ![c].shown = lines[call[c].window]]
    /\ UNCHANGED <<attached, registry, tmuxVars, cursor, exits, others, historyVars>>

(* How many lines a verb keeps of a capture, the newest: a snapshot is of the   *)
(* viewport, and both have a cap, the argument `lines' up to the configured one. *)
Kept(verb, shown, cap) ==
    Min({shown, cap} \cup (IF verb = "snapshot" THEN {Viewport} ELSE {}))

(* Mutant: the cursor is a number of lines, not the index of one.               *)
AdvanceCursorPast(id, total) == cursor' = [cursor EXCEPT ![id] = total]

(* cursor.delta and cursor.resetToTail: to the last of the lines kept.          *)
AdvanceCursor(id, total) == cursor' = [cursor EXCEPT ![id] = total - 1]

(* Only what the cursor has not passed is returned by a delta; all else returns *)
(* all that was kept.                                                           *)
FirstReturned(verb, id) == IF verb = "read" THEN cursor[id] + 1 ELSE 0

FinishRead(c) ==
    \E cap \in 1..MaxReadLines :
        LET verb == call[c].verb
            w == call[c].window
            shown == call[c].shown
            total == Kept(verb, shown, cap)
            returned == {shown - total + 1 + i : i \in FirstReturned(verb, call[c].id)..(total - 1)}
        IN
        /\ At(c, Reads, "finish")
        /\ AdvanceCursor(call[c].id, total)
        /\ seen' = [seen EXCEPT ![w] = @ \cup returned]
        /\ cut' = IF total < shown THEN cut \cup {w} ELSE cut
        /\ stale' = IF call[c].id \in Registered /\ registry[call[c].id] = w
                    THEN stale ELSE stale \cup {call[c].id}
        /\ Return(c)
        /\ UNCHANGED <<attached, registry, tmuxVars, exits, others, namingVars>>

------------------------------------------------------------------------------
(* The environment: windows print and their shells exit; the broker has other   *)
(* clients.                                                                     *)

Prints(w) ==
    /\ w \in alive /\ MapThenSumSet(LAMBDA v : lines[v], Windows) < MaxLines
    /\ lines' = [lines EXCEPT ![w] = @ + 1]
    /\ UNCHANGED <<attached, registry, alive, opened, cursor, call, exits, others, historyVars>>

ShellExits(w) ==
    /\ w \in alive /\ exits < MaxExits
    /\ exits' = exits + 1
    /\ alive' = alive \ {w}
    /\ UNCHANGED <<attached, registry, opened, lines, cursor, call, others, historyVars>>

OthersCall(id) ==
    /\ attached /\ others < MaxOthers
    /\ others' = others + 1
    /\ \/ Bind(id) /\ Cardinality(Registered) < MaxTerminals
       \/ id \in Registered /\ Evict(id) /\ UNCHANGED <<opened, stale, slug>>
    /\ UNCHANGED <<attached, lines, cursor, call, exits, seen, cut, overlapped, unbound>>

VerbCalled(c) == CallCreate(c) \/ CallDestroy(c) \/ CallRead(c)
VerbStep(c) ==
    \/ Resolve(c) \/ Throws(c)
    \/ CountRows(c) \/ CreateWindow(c) \/ LoseWindow(c)
    \/ KillWindow(c) \/ Release(c) \/ Clear(c)
    \/ CapturePane(c) \/ FinishRead(c)

McpNext ==
    \/ \E c \in Calls : VerbCalled(c) \/ VerbStep(c)
    \/ \E w \in Windows : Prints(w) \/ ShellExits(w)
    \/ \E id \in Ids : OthersCall(id)

McpSpec == McpInit /\ [][McpNext]_mcpVars

------------------------------------------------------------------------------
(* Properties                                                                   *)

(* Every variable keeps its type; a cursor is an index of the lines a capture   *)
(* may keep, whatever the window printed, and what the agent was given are      *)
(* lines a window did print (read-cursor.ts).                                   *)
McpTypeOK ==
    /\ attached \in BOOLEAN
    /\ Registered \subseteq Ids /\ \A id \in Registered : registry[id] \in 1..opened
    /\ opened \in 0..MaxWindows /\ alive \subseteq 1..opened
    /\ lines \in [Windows -> Nat]
    /\ cursor \in [Ids -> Unread..(MaxReadLines - 1)]
    /\ call \in [Calls -> [verb : Reads \cup {"none", "create", "destroy"},
                           stage : {"idle", "resolve", "run", "finish", "clear"},
                           id : Ids \cup {NoId}, window : Windows \cup {NoWindow},
                           shown : Nat]]
    /\ exits \in 0..MaxExits /\ others \in 0..MaxOthers
    /\ seen \in [Windows -> SUBSET Nat] /\ cut \subseteq Windows
    /\ \A w \in Windows : seen[w] \subseteq 1..lines[w]
    /\ stale \cup overlapped \subseteq Ids
    /\ slug \in [Windows -> Ids \cup {NoId}] /\ unbound \subseteq 1..opened

(* What the cursor of a terminal has passed the agent was given, so that no     *)
(* delta skips a line: concurrent reads and snapshots finish in any order, and   *)
(* a terminal destroyed and created again starts afresh (term-read.tool.ts,     *)
(* term-destroy.tool.ts:22).  Two exceptions: windows that outgrew a capture,    *)
(* and terminals rebound under a cursor that is kept or a read in flight.       *)
NoLineSkipped ==
    \A id \in Registered \ stale :
        LET w == registry[id] IN w \in cut \/ 1..(cursor[id] + 1) \subseteq seen[w]

(* With the local map every window that is open has a terminal, so that verbs   *)
(* can reach it and destroy it, whatever creates, destroys and exits overlap     *)
(* (registry-resolver.ts:84-97).  Two exceptions: a window whose create threw    *)
(* after opening it, and the windows of a slug of which two creates overlapped,  *)
(* which may bury one another; those of every other slug keep their terminals.   *)
NoOrphanTerminal ==
    ~attached => \A w \in alive \ unbound :
                     slug[w] \in overlapped \/ \E id \in Registered : registry[id] = w

(* A delta brings the agent up to the newest line captured: "only the lines new *)
(* since this terminal's read-cursor" (term-read.tool.ts:4).  A window that has *)
(* printed MaxReadLines lines fills every later capture, the cursor stays at     *)
(* its end, and each delta is empty.                                            *)
DeltaReachesTail ==
    [][\A c \in Calls : At(c, {"read"}, "finish") /\ call'[c] = Idle /\ call[c].shown > 0
          => call[c].shown \in seen'[call[c].window]]_mcpVars
==============================================================================
