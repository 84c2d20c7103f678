---------------------------- MODULE GatewayInput ----------------------------
(***************************************************************************)
(* The input path of the gateway.  A frame accepted from a socket becomes  *)
(* a link of its terminal's promise chain: it waits for the promise that   *)
(* was the tail when it arrived, resolves the terminal's window, and runs  *)
(* one or two `tmux send-keys` commands.  When a link settles, a finally   *)
(* callback removes it from the map of tails if it is still there.         *)
(*                                                                         *)
(* The broker is one JavaScript thread: callbacks of settled promises      *)
(* (Start, Finally) all run before the next message, command result or     *)
(* request is handled.                                                     *)
(***************************************************************************)
EXTENDS Naturals, Sequences

CONSTANTS
    Terminals,
    Sockets,
    Kinds,         \* kinds of input frames used, see AllKinds
    MaxFrames,     \* bound: frames accepted per terminal
    MaxDeaths      \* bound: windows that die

\* keys: one send-keys, for raw keystrokes or text without Enter.
\* line: send-keys of the text, then send-keys of Enter.
AllKinds == {"keys", "line"}

ASSUME InputAssumption ==
    /\ Kinds \subseteq AllKinds
    /\ MaxFrames \in Nat /\ MaxDeaths \in Nat

VARIABLES
    subscribed,   \* socket -> terminalId of its URL, fixed when it connects
    socket,       \* socket -> open, closing, closed
    current,      \* terminal -> its window in the registry; 0: not registered
    opened,       \* terminal -> windows opened for it so far
    alive,        \* <<terminal, window>> pairs whose window exists
    deaths,       \* how much of MaxDeaths is used
    links,        \* terminal -> its links, in order of arrival
    tail,         \* inputQueue: terminal -> link number; 0: no entry
    pane,         \* history: terminal -> window -> what was typed there
    served        \* history: terminal -> links in the order they settled

connVars == <<subscribed, socket>>
windowVars == <<current, opened, alive, deaths>>
inputVars == <<connVars, windowVars, links, tail, pane, served>>

Windows == 1..(MaxDeaths + 1)

\* Stages of a link.  text, enter: that send-keys is running.  settled: the
\* promise is settled and its finally callback has not run.
Stages == {"waiting", "text", "enter", "settled", "done"}
Outcomes == {"none", "sent", "dropped", "failed"}

Link(s, kind, prev) ==
    [from |-> s, kind |-> kind, prev |-> prev,
     stage |-> "waiting", window |-> 0, outcome |-> "none"]

InputInit ==
    /\ subscribed \in [Sockets -> Terminals]
    /\ socket = [s \in Sockets |-> "open"]
    /\ current = [t \in Terminals |-> 1] /\ opened = [t \in Terminals |-> 1]
    /\ alive = Terminals \X {1} /\ deaths = 0
    /\ links = [t \in Terminals |-> <<>>] /\ tail = [t \in Terminals |-> 0]
    /\ pane = [t \in Terminals |-> [w \in Windows |-> <<>>]]
    /\ served = [t \in Terminals |-> <<>>]

Settled(link) == link.stage \in {"settled", "done"}

\* A link whose predecessor has settled, or that has none.
Ready(t, i) ==
    /\ links[t][i].stage = "waiting"
    /\ links[t][i].prev # 0 => Settled(links[t][links[t][i].prev])

\* Callbacks of settled promises are due: the thread takes nothing else.
CallbacksDue == \E t \in Terminals : \E i \in DOMAIN links[t] :
                    Ready(t, i) \/ links[t][i].stage = "settled"

----------------------------------------------------------------------------
(* Sockets and frames.                                                     *)

\* Mutant: every frame starts on a resolved promise.
EnqueueUnchained(s, t, kind) ==
    /\ links' = [links EXCEPT ![t] = Append(@, Link(s, kind, 0))]
    /\ tail' = [tail EXCEPT ![t] = Len(links[t]) + 1]

\* enqueueInput: chain on the tail, or on a resolved promise; become the tail.
EnqueueInput(s, t, kind) ==
    /\ links' = [links EXCEPT ![t] = Append(@, Link(s, kind, tail[t]))]
    /\ tail' = [tail EXCEPT ![t] = Len(links[t]) + 1]

\* handleClientMessage: an input frame that names terminal t.  A socket that
\* is closing still delivers what it had received.
Receive(s, t, kind) ==
    /\ ~CallbacksDue
    /\ socket[s] # "closed" /\ Len(links[t]) < MaxFrames
    /\ IF subscribed[s] = t
       THEN EnqueueInput(s, t, kind) /\ UNCHANGED socket
       ELSE /\ socket' = [socket EXCEPT ![s] = "closing"]
            /\ UNCHANGED <<links, tail>>
    /\ UNCHANGED <<subscribed, windowVars, pane, served>>

\* The socket closes; its subscription goes with the close event.
SocketCloses(s) ==
    /\ ~CallbacksDue
    /\ socket[s] # "closed"
    /\ socket' = [socket EXCEPT ![s] = "closed"]
    /\ UNCHANGED <<subscribed, windowVars, links, tail, pane, served>>

----------------------------------------------------------------------------
(* A link's life.                                                          *)

\* The promise of link i settles.
Settle(t, i, outcome) ==
    /\ links' = [links EXCEPT ![t][i] = [@ EXCEPT !.stage = "settled", !.outcome = outcome]]
    /\ served' = [served EXCEPT ![t] = Append(@, i)]

\* Mutant: an unknown terminal is not dropped.
StartUnresolved(t, i) ==
    /\ Ready(t, i)
    /\ links' = [links EXCEPT ![t][i].stage = "text", ![t][i].window = current[t]]
    /\ UNCHANGED <<connVars, windowVars, tail, pane, served>>

\* Mutant: a failed predecessor breaks the chain.
StartUnbroken(t, i) ==
    /\ Ready(t, i)
    /\ links[t][i].prev # 0 => links[t][links[t][i].prev].outcome # "failed"
    /\ IF current[t] = 0
       THEN Settle(t, i, "dropped")
       ELSE /\ links' = [links EXCEPT ![t][i] =
                                 [@ EXCEPT !.stage = "text", !.window = current[t]]]
            /\ UNCHANGED served
    /\ UNCHANGED <<connVars, windowVars, tail, pane>>

\* handleInputFrame up to its first await: resolve the window, or drop the
\* frame, and run the first command.
Start(t, i) ==
    /\ Ready(t, i)
    /\ IF current[t] = 0
       THEN Settle(t, i, "dropped")
       ELSE /\ links' = [links EXCEPT ![t][i] =
                                 [@ EXCEPT !.stage = "text", !.window = current[t]]]
            /\ UNCHANGED served
    /\ UNCHANGED <<connVars, windowVars, tail, pane>>

Typed(t, i, what) ==
    pane' = [pane EXCEPT ![t][links[t][i].window] = Append(@, <<i, what>>)]

\* The send-keys of a link ends well: what it typed is in the pane; a line
\* goes on to its Enter.
SendKeysEnds(t, i) ==
    /\ ~CallbacksDue
    /\ links[t][i].stage \in {"text", "enter"}
    /\ <<t, links[t][i].window>> \in alive
    /\ Typed(t, i, links[t][i].stage)
    /\ IF links[t][i].kind = "line" /\ links[t][i].stage = "text"
       THEN links' = [links EXCEPT ![t][i].stage = "enter"] /\ UNCHANGED served
       ELSE Settle(t, i, "sent")
    /\ UNCHANGED <<connVars, windowVars, tail>>

\* Mutant: after a failed text the Enter is sent all the same.
SendKeysFailsOn(t, i) ==
    /\ ~CallbacksDue
    /\ links[t][i].stage \in {"text", "enter"}
    /\ IF links[t][i].kind = "line" /\ links[t][i].stage = "text"
       THEN links' = [links EXCEPT ![t][i].stage = "enter"] /\ UNCHANGED served
       ELSE Settle(t, i, "failed")
    /\ UNCHANGED <<connVars, windowVars, tail, pane>>

\* It fails: the window is gone, or tmux refuses.  The error is logged and
\* the link is over, its Enter included.
SendKeysFails(t, i) ==
    /\ ~CallbacksDue
    /\ links[t][i].stage \in {"text", "enter"}
    /\ Settle(t, i, "failed")
    /\ UNCHANGED <<connVars, windowVars, tail, pane>>

\* Mutant: the entry is removed whoever it belongs to.
FinallyAlways(t, i) ==
    /\ links[t][i].stage = "settled"
    /\ links' = [links EXCEPT ![t][i].stage = "done"]
    /\ tail' = [tail EXCEPT ![t] = 0]
    /\ UNCHANGED <<connVars, windowVars, pane, served>>

\* The finally callback: drop the entry of the map if it is still this link.
Finally(t, i) ==
    /\ links[t][i].stage = "settled"
    /\ links' = [links EXCEPT ![t][i].stage = "done"]
    /\ tail' = [tail EXCEPT ![t] = IF @ = i THEN 0 ELSE @]
    /\ UNCHANGED <<connVars, windowVars, pane, served>>

----------------------------------------------------------------------------
(* The session service and tmux: a terminal's window is killed, the entry  *)
(* is evicted, and a terminal of the same id is created again.             *)

WindowDies(t) ==
    /\ <<t, opened[t]>> \in alive /\ deaths < MaxDeaths
    /\ alive' = alive \ {<<t, opened[t]>>}
    /\ deaths' = deaths + 1
    /\ UNCHANGED <<connVars, current, opened, links, tail, pane, served>>

Evict(t) ==
    /\ ~CallbacksDue
    /\ current[t] # 0 /\ <<t, current[t]>> \notin alive
    /\ current' = [current EXCEPT ![t] = 0]
    /\ UNCHANGED <<connVars, opened, alive, deaths, links, tail, pane, served>>

Recreate(t) ==
    /\ ~CallbacksDue
    /\ current[t] = 0 /\ opened[t] <= MaxDeaths
    /\ opened' = [opened EXCEPT ![t] = @ + 1]
    /\ current' = [current EXCEPT ![t] = opened[t] + 1]
    /\ alive' = alive \cup {<<t, opened[t] + 1>>}
    /\ UNCHANGED <<connVars, deaths, links, tail, pane, served>>

LinkStep(t, i) ==
    Start(t, i) \/ SendKeysEnds(t, i) \/ SendKeysFails(t, i) \/ Finally(t, i)

InputNext ==
    \/ \E s \in Sockets : \/ SocketCloses(s)
                          \/ \E t \in Terminals, k \in Kinds : Receive(s, t, k)
    \/ \E t \in Terminals : WindowDies(t) \/ Evict(t) \/ Recreate(t)
    \/ \E t \in Terminals : \E i \in DOMAIN links[t] : LinkStep(t, i)

InputSpec == InputInit /\ [][InputNext]_inputVars

\* The event loop runs its callbacks, and tmux answers every command.
InputFairness ==
    \A t \in Terminals : \A i \in 1..MaxFrames :
        WF_inputVars(i \in DOMAIN links[t] /\ LinkStep(t, i))

FairInputSpec == InputSpec /\ InputFairness

----------------------------------------------------------------------------
LinkType == [from : Sockets, kind : Kinds, prev : 0..MaxFrames, stage : Stages,
             window : {0} \cup Windows, outcome : Outcomes]

Running(t) == {i \in DOMAIN links[t] : links[t][i].stage \in {"text", "enter"}}

\* Types of the gateway's maps and of the links; a tail names a link that
\* exists, and a running command has a window as its target.
InputTypeOK ==
    /\ subscribed \in [Sockets -> Terminals]
    /\ socket \in [Sockets -> {"open", "closing", "closed"}]
    /\ current \in [Terminals -> {0} \cup Windows]
    /\ opened \in [Terminals -> Windows]
    /\ alive \subseteq Terminals \X Windows /\ deaths \in 0..MaxDeaths
    /\ links \in [Terminals -> Seq(LinkType)]
    /\ tail \in [Terminals -> 0..MaxFrames]
    /\ \A t \in Terminals : Len(links[t]) <= MaxFrames /\ tail[t] <= Len(links[t])
    /\ \A t \in Terminals : \A i \in Running(t) : links[t][i].window \in Windows
    /\ pane \in [Terminals -> [Windows -> Seq((1..MaxFrames) \X {"text", "enter"})]]
    /\ served \in [Terminals -> Seq(1..MaxFrames)]

\* At most one send-keys runs for a terminal: the subprocesses that would
\* otherwise race and land in tmux out of order.
OneCommandPerTerminal == \A t \in Terminals : \A i, j \in Running(t) : i = j

\* A pane holds the frames in the order they arrived, and an Enter comes
\* directly after the text of its own frame: never alone, never after text
\* of another frame, never in another window.
PaneInOrder ==
    \A t \in Terminals : \A w \in Windows : \A j \in DOMAIN pane[t][w] :
        LET item == pane[t][w][j] IN
        /\ item[2] = "enter" => j > 1 /\ pane[t][w][j - 1] = <<item[1], "text">>
        /\ \A k \in 1..(j - 1) : item[2] = "text" => pane[t][w][k][1] < item[1]

\* Every accepted frame is finished, whatever became of those before it.
EveryFrameSettles ==
    \A t \in Terminals : \A i \in 1..MaxFrames :
        (i \in DOMAIN links[t]) ~> (i \in DOMAIN links[t] /\ Settled(links[t][i]))

\* The frames accepted and not finished, oldest first.
Unfinished(t) ==
    [n \in 1..(Len(links[t]) - Len(served[t])) |-> Len(served[t]) + n]

Queue == INSTANCE InputQueue WITH queue <- [t \in Terminals |-> Unfinished(t)]

\* The chain of promises behind the map of tails is a FIFO queue: the frames
\* of a terminal are finished in the order they were accepted.
QueueSpec == Queue!QSpec
=============================================================================
