----------------------------- MODULE PaneVerbs -----------------------------
(***************************************************************************)
(* The verbs of ddx-term-mcp that act on the program in a window, or look  *)
(* at it: term_send, term_signal, term_ps and term_wait_for, over the      *)
(* process table of the machine and the screen and prompt of one window.   *)
(*                                                                         *)
(* A verb is a record with the await it has reached: a tmux command, a     *)
(* pgrep, ps or kill, or a sleep.  It begins here with its terminal        *)
(* resolved (McpTools has resolving).  A child process reads or changes    *)
(* the world at one moment of its await.                                   *)
(***************************************************************************)
EXTENDS Integers, FiniteSets

CONSTANTS
    Calls,        \* the verbs that are called
    Pids,         \* process ids that occur
    Shell,        \* the pid of the window's shell, #{pane_pid}
    InitPid,      \* pid 1, the parent of orphans and of what others start
    MaxDepth,     \* MAX_DEPTH, levels of the walk
    MaxRecycled   \* bound: pids given to another process

ASSUME PaneAssumption ==
    /\ IsFiniteSet(Pids)
    /\ Shell \in Pids /\ InitPid \notin Pids
    /\ MaxDepth \in Nat \ {0} /\ MaxRecycled \in Nat

VARIABLES
    proc,       \* live pid -> its parent, and whether the shell started it, directly or not
    used,       \* pids that were ever given
    recycled,   \* pids given again so far
    open,       \* the window exists
    screen,     \* a line of the screen matches the pattern waited for
    prompt,     \* the calls whose text is on the line being typed
    call,       \* call -> verb, stage and local variables
    past        \* call -> history: what happened since it began

tableVars == <<proc, used, recycled, open>>
paneVars == <<tableVars, screen, prompt, call, past>>

Live == DOMAIN proc
Children(p) == {q \in Live : proc[q].parent = p}

(* From the shell down, each the parent of the next.                            *)
Chains(k) ==
    {f \in [0..k -> Live] : f[0] = Shell /\ \A i \in 1..k : proc[f[i]].parent = f[i - 1]}

(* The processes at most MaxDepth levels below the shell, and the shell.        *)
Tree == {p \in Live : \E k \in 0..MaxDepth : \E f \in Chains(k) : f[k] = p}

Idle == [verb |-> "none", stage |-> "idle", target |-> InitPid,
         asked |-> {}, found |-> {}, visited |-> {}, depth |-> 0,
         matched |-> FALSE, late |-> FALSE]

PaneInit ==
    /\ proc = [p \in {Shell} |-> [parent |-> InitPid, kin |-> TRUE]]
    /\ used = {Shell} /\ recycled = 0
    /\ open = TRUE /\ screen = FALSE /\ prompt = {}
    /\ call = [c \in Calls |-> Idle]
    /\ past = [c \in Calls |-> [steady |-> {}, recycled |-> FALSE, absent |-> FALSE]]

Awaits == {"text", "enter", "key", "pane-pid", "children", "walk", "kill", "rows", "capture"}
Settled == {"done", "refused", "timeout", "failed"}

At(c, verbs, stage) == call[c].verb \in verbs /\ call[c].stage = stage
Goto(c, stage) == call' = [call EXCEPT ![c].stage = stage]

------------------------------------------------------------------------------
(* The machine: processes start and end, and the window's program prints.       *)

(* A child of a live process, or of InitPid.  A pid is given again only after   *)
(* its process has ended.                                                       *)
ProcessStarts(parent, p) ==
    /\ parent \in Live \cup {InitPid} /\ p \in Pids \ Live
    /\ p \in used => recycled < MaxRecycled
    /\ recycled' = IF p \in used THEN recycled + 1 ELSE recycled
    /\ used' = used \cup {p}
    /\ proc' = [q \in Live \cup {p} |->
                   IF q # p THEN proc[q]
                   ELSE [parent |-> parent, kin |-> parent \in Live /\ proc[parent].kin]]
    /\ past' = [c \in Calls |-> [past[c] EXCEPT !.recycled = @ \/ p \in used]]
    /\ UNCHANGED <<open, screen, prompt, call>>

(* The children of a process that ends become InitPid's; the window closes with *)
(* its shell.                                                                   *)
ProcessEnds(p) ==
    /\ p \in Live
    /\ proc' = [q \in Live \ {p} |-> [proc[q] EXCEPT !.parent = IF @ = p THEN InitPid ELSE @]]
    /\ open' = (open /\ p # Shell)
    /\ past' = [c \in Calls |-> [past[c] EXCEPT !.steady = @ \cap Tree']]
    /\ UNCHANGED <<used, recycled, screen, prompt, call>>

ScreenChanges ==
    /\ open /\ screen' = ~screen
    /\ past' = [c \in Calls |-> [past[c] EXCEPT !.absent = @ \/ ~screen']]
    /\ UNCHANGED <<tableVars, prompt, call>>

------------------------------------------------------------------------------
(* Calls                                                                        *)

Begin(c, verb, stage, target) ==
    /\ call[c] = Idle
    /\ call' = [call EXCEPT ![c].verb = verb, ![c].stage = stage, ![c].target = target]
    /\ past' = [past EXCEPT ![c] = [steady |-> Tree, recycled |-> FALSE, absent |-> ~screen]]
    /\ UNCHANGED <<tableVars, screen, prompt>>

(* Text the allow-list refuses, and a pattern that does not compile, end their  *)
(* verb before its first await.                                                 *)
CallSend(c) == \E verb \in {"send", "type"} : Begin(c, verb, "text", InitPid)
CallSignal(c) ==
    \/ Begin(c, "key", "key", InitPid)
    \/ \E p \in Pids : Begin(c, "signal", "pane-pid", p)
CallPs(c) == Begin(c, "ps", "pane-pid", InitPid)
CallWaitFor(c) == Begin(c, "wait", "capture", InitPid)

(* tmux cannot find the window, or any child process fails: TMUX_ERROR.         *)
Throws(c) ==
    /\ call[c].stage \in Awaits
    /\ Goto(c, "failed")
    /\ UNCHANGED <<tableVars, screen, prompt, past>>

------------------------------------------------------------------------------
(* term_send: the text, then Enter as a command of its own.                     *)

SendText(c) ==
    /\ At(c, {"send", "type"}, "text") /\ open
    /\ prompt' = prompt \cup {c}
    /\ Goto(c, IF call[c].verb = "send" THEN "enter" ELSE "done")
    /\ UNCHANGED <<tableVars, screen, past>>

SendEnter(c) ==
    /\ At(c, {"send"}, "enter") /\ open
    /\ prompt' = {}
    /\ Goto(c, "done")
    /\ UNCHANGED <<tableVars, screen, past>>

(* term_signal without a pid: a key to whatever runs in the foreground, which   *)
(* may give up the line.                                                        *)
SendSignalKey(c) ==
    /\ At(c, {"key"}, "key") /\ open
    /\ prompt' \in {prompt, {}}
    /\ Goto(c, "done")
    /\ UNCHANGED <<tableVars, screen, past>>

------------------------------------------------------------------------------
(* panePid and descendantPids: a walk down the process tree, level by level,    *)
(* one pgrep for each process of a level, all at once.                          *)

PanePid(c) ==
    /\ At(c, {"signal", "ps"}, "pane-pid") /\ open
    /\ call' = [call EXCEPT ![c].stage = IF call[c].verb = "ps" THEN "children" ELSE "walk",
                            ![c].asked = {Shell}]
    /\ UNCHANGED <<tableVars, screen, prompt, past>>

(* childPids(panePid), for fgPid.                                               *)
ForegroundPid(c) ==
    /\ At(c, {"ps"}, "children")
    /\ Goto(c, "walk")
    /\ UNCHANGED <<tableVars, screen, prompt, past>>

(* The processes found that were not walked before.                             *)
NextFrontier(this) == this.found \ ({Shell} \cup this.visited)

(* Mutant: the direct children only.                                            *)
GoesDeeperNever(this, next) == FALSE

(* Mutant: as deep as the tree goes.                                            *)
GoesDeeperUnbounded(this, next) == next # {}

GoesDeeper(this, next) == next # {} /\ this.depth < MaxDepth

WalkedTree(this) == {Shell} \cup this.visited

(* Mutant: the pid is not looked up in the tree.                                *)
AfterWalkUnchecked(this) == IF this.verb = "ps" THEN "rows" ELSE "kill"

(* term_signal looks its pid up at once: PID_NOT_IN_TERMINAL.                   *)
AfterWalk(this) ==
    IF this.verb = "ps" THEN "rows"
    ELSE IF this.target \in WalkedTree(this) THEN "kill" ELSE "refused"

(* A level is done when all its pgreps are.  The loop goes on below the         *)
(* processes it found, MaxDepth times at most.                                  *)
NextLevel(this) ==
    LET next == NextFrontier(this)
        walked == [this EXCEPT !.visited = @ \cup next, !.found = {}, !.depth = @ + 1]
    IN IF GoesDeeper(walked, next)
       THEN [walked EXCEPT !.asked = next]
       ELSE [walked EXCEPT !.asked = {}, !.stage = AfterWalk(walked)]

PgrepAnswers(c, p) ==
    /\ At(c, {"signal", "ps"}, "walk") /\ p \in call[c].asked
    /\ LET this == [call[c] EXCEPT !.asked = @ \ {p}, !.found = @ \cup Children(p)]
       IN call' = [call EXCEPT ![c] = IF this.asked = {} THEN NextLevel(this) ELSE this]
    /\ UNCHANGED <<tableVars, screen, prompt, past>>

(* kill: what the signal does to the process is a step of its own.              *)
KillPid(c) ==
    /\ At(c, {"signal"}, "kill") /\ call[c].target \in Live
    /\ Goto(c, "done")
    /\ UNCHANGED <<tableVars, screen, prompt, past>>

(* ps: a row for each of the pids that is still there.                          *)
PsRows(c) ==
    /\ At(c, {"ps"}, "rows")
    /\ call' = [call EXCEPT ![c].stage = "done", ![c].found = WalkedTree(call[c]) \cap Live]
    /\ UNCHANGED <<tableVars, screen, prompt, past>>

------------------------------------------------------------------------------
(* term_wait_for                                                                *)

CaptureVisible(c) ==
    /\ At(c, {"wait"}, "capture") /\ open
    /\ call' = [call EXCEPT ![c].stage = "check", ![c].matched = screen]
    /\ UNCHANGED <<tableVars, screen, prompt, past>>

(* Mutant: the clock is read before the capture.                                *)
CheckCaptureClockFirst(c) ==
    /\ At(c, {"wait"}, "check")
    /\ Goto(c, IF call[c].late THEN "timeout" ELSE IF call[c].matched THEN "done" ELSE "sleep")
    /\ UNCHANGED <<tableVars, screen, prompt, past>>

CheckCapture(c) ==
    /\ At(c, {"wait"}, "check")
    /\ Goto(c, IF call[c].matched THEN "done" ELSE IF call[c].late THEN "timeout" ELSE "sleep")
    /\ UNCHANGED <<tableVars, screen, prompt, past>>

Wakes(c) ==
    /\ At(c, {"wait"}, "sleep")
    /\ Goto(c, "capture")
    /\ UNCHANGED <<tableVars, screen, prompt, past>>

(* timeoutMs elapses.                                                           *)
Elapses(c) ==
    /\ call[c].stage \in {"capture", "check", "sleep"} /\ ~call[c].late
    /\ call' = [call EXCEPT ![c].late = TRUE]
    /\ UNCHANGED <<tableVars, screen, prompt, past>>

------------------------------------------------------------------------------
Machine ==
    \/ \E parent \in Pids \cup {InitPid}, p \in Pids : ProcessStarts(parent, p)
    \/ \E p \in Pids : ProcessEnds(p)
    \/ ScreenChanges

Called(c) == CallSend(c) \/ CallSignal(c) \/ CallPs(c) \/ CallWaitFor(c)

Proceeds(c) ==
    \/ Throws(c) \/ SendText(c) \/ SendEnter(c) \/ SendSignalKey(c)
    \/ PanePid(c) \/ ForegroundPid(c) \/ \E p \in Pids : PgrepAnswers(c, p)
    \/ KillPid(c) \/ PsRows(c)
    \/ CaptureVisible(c) \/ CheckCapture(c) \/ Wakes(c) \/ Elapses(c)

PaneNext == Machine \/ \E c \in Calls : Called(c) \/ Proceeds(c)

PaneSpec == PaneInit /\ [][PaneNext]_paneVars

------------------------------------------------------------------------------
(* Properties                                                                   *)

CallRecords ==
    [verb : {"none", "send", "type", "key", "signal", "ps", "wait"},
     stage : {"idle", "check", "sleep"} \cup Awaits \cup Settled,
     target : Pids \cup {InitPid}, asked : SUBSET Pids, found : SUBSET Pids,
     visited : SUBSET Pids, depth : 0..MaxDepth, matched : BOOLEAN, late : BOOLEAN]

WalkOK(this) ==
    /\ this.asked \subseteq WalkedTree(this)
    /\ this.stage \in {"pane-pid", "children", "walk"} => this.depth < MaxDepth
    /\ this.stage \in {"children", "walk"} => this.asked # {}

(* Every variable keeps its type; a walk asks about processes it has found, on  *)
(* at most MaxDepth levels (tmux.client.ts:313).                                *)
PaneTypeOK ==
    /\ Live \subseteq used /\ used \subseteq Pids /\ recycled \in 0..MaxRecycled
    /\ proc \in [Live -> [parent : Live \cup {InitPid}, kin : BOOLEAN]]
    /\ open \in BOOLEAN /\ screen \in BOOLEAN /\ prompt \subseteq Calls
    /\ past \in [Calls -> [steady : SUBSET Pids, recycled : BOOLEAN, absent : BOOLEAN]]
    /\ call \in [Calls -> CallRecords]
    /\ \A c \in Calls : WalkOK(call[c])

(* A process that is signalled was started by the terminal's shell, directly or *)
(* not, however the tree changes between the pgreps and before the kill: it may *)
(* have left the tree since, but "a foreign pid" is "still rejected"            *)
(* (term-signal.tool.ts:12).  Only a pid that was given to another process      *)
(* since the verb began can deceive it.                                         *)
SignalsStayInLineage ==
    \A c \in Calls :
        At(c, {"signal"}, "kill") /\ call[c].target \in Live /\ ~past[c].recycled
            => proc[call[c].target].kin

(* A process that stays in the tree while the verb walks it, no more than       *)
(* MaxDepth levels below the shell, is neither refused by term_signal nor       *)
(* missing from term_ps, whatever starts and ends around it                     *)
(* (term-ps.tool.ts:25, "every pid term_signal would actually accept").         *)
WalkCoversSteadyTree ==
    \A c \in Calls :
        /\ At(c, {"signal"}, "refused") => call[c].target \notin past[c].steady
        /\ At(c, {"ps"}, "done") => past[c].steady \subseteq call[c].found

(* term_wait_for does not time out on a pattern that was on the screen all the  *)
(* while, even when no time was given (term-wait-for.tool.ts:44-56).            *)
WaitSeesSteadyMatch ==
    \A c \in Calls : At(c, {"wait"}, "timeout") => past[c].absent
==============================================================================
