----------------------------- MODULE TermStream -----------------------------
(***************************************************************************)
(* The output path of the broker.  Panes print; the attached control       *)
(* client streams what they print, and window events, as lines; the broker *)
(* parses each line, resolves its pane or window to a terminalId, holds    *)
(* output back in a per-terminal buffer until a timer flushes it, and      *)
(* sends frames to the sockets subscribed to that terminal.  A socket that *)
(* connects is sent a snapshot of the pane, captured by a tmux command     *)
(* while the stream goes on.                                               *)
(*                                                                         *)
(* Chunks of output are numbered in the order the panes print them, so the *)
(* content of a pane is the set of its chunks.  The session service's      *)
(* registration, binding and eviction of a terminal are steps of the       *)
(* environment here; SessionRegistry models them.                          *)
(***************************************************************************)
EXTENDS ControlModeAttach, Sequences, SequencesExt

CONSTANTS
    Terminals,     \* terminalIds, each the id of one window
    Adopted,       \* those adopted when the session service booted
    Sockets,       \* WebSocket connections
    MaxReports,    \* bound: chunks printed and layout changes together
    MaxResizes     \* bound: layout changes among them

ASSUME StreamAssumption ==
    /\ IsFiniteSet(Terminals) /\ IsFiniteSet(Sockets) /\ Adopted \subseteq Terminals
    /\ MaxReports \in Nat /\ MaxResizes \in Nat

VARIABLES
    window,       \* terminal -> none, open, closed: its window
    registered,   \* terminals in the registry
    bound,        \* terminals whose pane is in paneToWindow
    printed,      \* sequence of terminals: who printed chunk n
    resizes,      \* how much of MaxResizes is used
    lines,        \* control-mode lines the pty holds
    coalesce,     \* terminal -> output held back; empty: no buffer, no timer
    socket,       \* socket -> unused, open, closing, closed
    wants,        \* socket -> terminalId of its URL
    subscribers,  \* terminal -> sockets in its subscription set
    connections,  \* sockets in the connection map
    capture,      \* socket -> the snapshot being taken for it
    sent,         \* history: socket -> frames sent on it
    lost          \* history: chunks that never reached the gateway

paneVars == <<window, registered, bound>>
gatewayVars == <<socket, wants, subscribers, connections, capture>>
streamVars == <<attachVars, window, registered, bound, printed, resizes, lines,
                coalesce, socket, wants, subscribers, connections, capture, sent, lost>>

ChunksOf(t) == {n \in DOMAIN printed : printed[n] = t}

Line(kind, t, n) == [kind |-> kind, terminal |-> t, chunk |-> n]
\* An output frame has a sequence of chunks, a snapshot the set on the screen.
Frame(kind, t, chunks) == [kind |-> kind, terminal |-> t, chunks |-> chunks]

\* The stage of a socket's pushInitialSnapshot.
NoCapture == [stage |-> "none", chunks |-> {}]
Capturing == [stage |-> "running", chunks |-> {}]
CaptureFailed == [stage |-> "failed", chunks |-> {}]
Captured(chunks) == [stage |-> "done", chunks |-> chunks]

StreamInit ==
    /\ AttachInit
    /\ window = [t \in Terminals |-> IF t \in Adopted THEN "open" ELSE "none"]
    /\ registered = Adopted /\ bound = Adopted
    /\ printed = <<>> /\ resizes = 0 /\ lines = <<>>
    /\ coalesce = [t \in Terminals |-> <<>>]
    /\ socket = [s \in Sockets |-> "unused"] /\ wants \in [Sockets -> Terminals]
    /\ subscribers = [t \in Terminals |-> {}] /\ connections = {}
    /\ capture = [s \in Sockets |-> NoCapture]
    /\ sent = [s \in Sockets |-> <<>>] /\ lost = {}

----------------------------------------------------------------------------
(* tmux: windows, panes and the control client's lines.                    *)

\* A control client is attached and its pty is read.
Streaming == proc # NoPty /\ child[proc] = "attached"

\* tmux reports to the control client, if there is one.
Report(line) ==
    lines' = IF Streaming THEN Append(lines, line) ELSE lines

WindowOpens(t) ==
    /\ session /\ window[t] = "none"
    /\ window' = [window EXCEPT ![t] = "open"]
    /\ Report(Line("window-add", t, 0))
    /\ UNCHANGED <<attachVars, registered, bound, printed, resizes, coalesce,
                   gatewayVars, sent, lost>>

PanePrints(t) ==
    /\ window[t] = "open" /\ Len(printed) + resizes < MaxReports
    /\ printed' = Append(printed, t)
    /\ Report(Line("output", t, Len(printed) + 1))
    /\ lost' = IF Streaming THEN lost ELSE lost \cup {Len(printed) + 1}
    /\ UNCHANGED <<attachVars, paneVars, resizes, coalesce, gatewayVars, sent>>

PaneResizes(t) ==
    /\ window[t] = "open" /\ resizes < MaxResizes /\ Len(printed) + resizes < MaxReports
    /\ resizes' = resizes + 1
    /\ Report(Line("layout-change", t, 0))
    /\ UNCHANGED <<attachVars, paneVars, printed, coalesce, gatewayVars, sent, lost>>

\* The shell exits, or the window is killed.
WindowCloses(t) ==
    /\ window[t] = "open"
    /\ window' = [window EXCEPT ![t] = "closed"]
    /\ Report(Line("window-close", t, 0))
    /\ UNCHANGED <<attachVars, registered, bound, printed, resizes, coalesce,
                   gatewayVars, sent, lost>>

\* The session service: registry.set, paneToWindow.set, and the eviction of
\* both after the window was killed.
Register(t) ==
    /\ window[t] = "open" /\ t \notin registered
    /\ registered' = registered \cup {t}
    /\ UNCHANGED <<attachVars, window, bound, printed, resizes, lines, coalesce,
                   gatewayVars, sent, lost>>

Bind(t) ==
    /\ window[t] = "open" /\ t \in registered \ bound
    /\ bound' = bound \cup {t}
    /\ UNCHANGED <<attachVars, window, registered, printed, resizes, lines, coalesce,
                   gatewayVars, sent, lost>>

Evict(t) ==
    /\ window[t] = "closed" /\ t \in registered
    /\ registered' = registered \ {t} /\ bound' = bound \ {t}
    /\ UNCHANGED <<attachVars, window, printed, resizes, lines, coalesce,
                   gatewayVars, sent, lost>>

----------------------------------------------------------------------------
(* The gateway.                                                            *)

\* Sockets a payload for t is sent on: subscribed, and readyState OPEN.
Receivers(t) == {s \in subscribers[t] : socket[s] = "open"}

Broadcast(t, frame) ==
    sent' = [s \in Sockets |-> IF s \in Receivers(t) THEN Append(sent[s], frame)
                                                     ELSE sent[s]]

\* coalesceOutput: extend the buffer, or start one with its timer.
CoalesceOutput(t, n) == coalesce' = [coalesce EXCEPT ![t] = Append(@, n)]

\* parseOutputLine and its dispatch: the pane resolves through paneToWindow
\* and the registry, or the line is dropped.
DispatchOutput(line) ==
    LET t == line.terminal IN
    /\ IF t \in bound \cap registered
       THEN CoalesceOutput(t, line.chunk) /\ UNCHANGED lost
       ELSE lost' = lost \cup {line.chunk} /\ UNCHANGED coalesce
    /\ UNCHANGED sent

\* The other lines: sent at once to the subscribers of the window's terminal.
\* A window that does not resolve has no subscribers: window-add and
\* window-close then name the window itself, layout-change is dropped.
DispatchEvent(line) ==
    /\ IF line.terminal \in registered
       THEN Broadcast(line.terminal, Frame(line.kind, line.terminal, <<>>))
       ELSE UNCHANGED sent
    /\ UNCHANGED <<coalesce, lost>>

\* onData: one complete line.
ReadLine ==
    /\ lines # <<>>
    /\ lines' = Tail(lines)
    /\ IF Head(lines).kind = "output" THEN DispatchOutput(Head(lines))
                                      ELSE DispatchEvent(Head(lines))
    /\ UNCHANGED <<attachVars, paneVars, printed, resizes, gatewayVars>>

\* Mutant: the buffer is sent and kept.
CoalesceTimerKeeping(t) ==
    /\ coalesce[t] # <<>>
    /\ Broadcast(t, Frame("output", t, coalesce[t]))
    /\ UNCHANGED <<attachVars, paneVars, printed, resizes, lines, coalesce,
                   gatewayVars, lost>>

\* Mutant: one socket that is closing keeps the payload from the others.
CoalesceTimerAllOpen(t) ==
    /\ coalesce[t] # <<>>
    /\ coalesce' = [coalesce EXCEPT ![t] = <<>>]
    /\ IF Receivers(t) = subscribers[t] THEN Broadcast(t, Frame("output", t, coalesce[t]))
                                        ELSE UNCHANGED sent
    /\ UNCHANGED <<attachVars, paneVars, printed, resizes, lines, gatewayVars, lost>>

\* The timer of a buffer: delete it, send it.
CoalesceTimer(t) ==
    /\ coalesce[t] # <<>>
    /\ coalesce' = [coalesce EXCEPT ![t] = <<>>]
    /\ Broadcast(t, Frame("output", t, coalesce[t]))
    /\ UNCHANGED <<attachVars, paneVars, printed, resizes, lines, gatewayVars, lost>>

\* handleConnection: subscribe, then ask for the snapshot; an unregistered
\* terminal fails at once.
Connect(s) ==
    /\ socket[s] = "unused"
    /\ socket' = [socket EXCEPT ![s] = "open"]
    /\ subscribers' = [subscribers EXCEPT ![wants[s]] = @ \cup {s}]
    /\ connections' = connections \cup {s}
    /\ capture' = [capture EXCEPT ![s] =
                      IF wants[s] \in registered THEN Capturing ELSE CaptureFailed]
    /\ UNCHANGED <<attachVars, paneVars, printed, resizes, lines, coalesce, wants,
                   sent, lost>>

\* tmux runs capture-pane: the screen as it is then, or no such window.
CapturePane(s) ==
    /\ capture[s].stage = "running"
    /\ capture' = [capture EXCEPT ![s] =
                      IF window[wants[s]] = "open" THEN Captured(ChunksOf(wants[s]))
                                            ELSE CaptureFailed]
    /\ UNCHANGED <<attachVars, paneVars, printed, resizes, lines, coalesce, socket,
                   wants, subscribers, connections, sent, lost>>

\* Mutant: a failed capture says nothing.
PushSnapshotOnly(s) ==
    /\ capture[s].stage \in {"done", "failed"}
    /\ capture' = [capture EXCEPT ![s] = NoCapture]
    /\ sent' = IF socket[s] = "open" /\ capture[s].stage = "done"
               THEN [sent EXCEPT ![s] =
                        Append(@, Frame("snapshot", wants[s], capture[s].chunks))]
               ELSE sent
    /\ UNCHANGED <<attachVars, paneVars, printed, resizes, lines, coalesce, socket,
                   wants, subscribers, connections, lost>>

\* The rest of pushInitialSnapshot: one frame, the snapshot or the error, if
\* the socket is still open.
PushSnapshot(s) ==
    /\ capture[s].stage \in {"done", "failed"}
    /\ capture' = [capture EXCEPT ![s] = NoCapture]
    /\ sent' = IF socket[s] # "open" THEN sent
               ELSE [sent EXCEPT ![s] = Append(@,
                       IF capture[s].stage = "done"
                       THEN Frame("snapshot", wants[s], capture[s].chunks)
                       ELSE Frame("error", wants[s], <<>>))]
    /\ UNCHANGED <<attachVars, paneVars, printed, resizes, lines, coalesce, socket,
                   wants, subscribers, connections, lost>>

\* The browser closes its socket; the close event comes later.
SocketCloses(s) ==
    /\ socket[s] = "open"
    /\ socket' = [socket EXCEPT ![s] = "closing"]
    /\ UNCHANGED <<attachVars, paneVars, printed, resizes, lines, coalesce, wants,
                   subscribers, connections, capture, sent, lost>>

\* Mutant: the last subscriber's set is kept when it should be deleted.
HandleDisconnectLast(s) ==
    /\ socket[s] = "closing"
    /\ socket' = [socket EXCEPT ![s] = "closed"]
    /\ subscribers' = [subscribers EXCEPT ![wants[s]] = IF @ = {s} THEN @ ELSE @ \ {s}]
    /\ connections' = connections \ {s}
    /\ UNCHANGED <<attachVars, paneVars, printed, resizes, lines, coalesce, wants,
                   capture, sent, lost>>

HandleDisconnect(s) ==
    /\ socket[s] = "closing"
    /\ socket' = [socket EXCEPT ![s] = "closed"]
    /\ subscribers' = [subscribers EXCEPT ![wants[s]] = @ \ {s}]
    /\ connections' = connections \ {s}
    /\ UNCHANGED <<attachVars, paneVars, printed, resizes, lines, coalesce, wants,
                   capture, sent, lost>>

----------------------------------------------------------------------------
(* The attach loop beside it.  Lines still unread are lost with their pty. *)

UnreadChunks == {lines[i].chunk : i \in DOMAIN lines} \cap DOMAIN printed

PtyFollows ==
    IF proc' = proc THEN UNCHANGED <<lines, lost>>
    ELSE lines' = <<>> /\ lost' = lost \cup UnreadChunks

AttachStep ==
    /\ \/ Start \/ TimerFires \/ SessionBack
       \/ \E p \in Ptys : ClientPrints(p) \/ ClientExits(p) \/ OnExit(p)
    /\ PtyFollows
    /\ UNCHANGED <<paneVars, printed, resizes, coalesce, gatewayVars, sent>>

\* The session ends with all its windows.
SessionEnds ==
    /\ SessionGone
    /\ window' = [t \in Terminals |-> IF window[t] = "open" THEN "closed" ELSE window[t]]
    /\ UNCHANGED <<registered, bound, printed, resizes, lines, coalesce, gatewayVars,
                   sent, lost>>

\* Mutant: the buffers are cleared without being flushed.
ModuleDestroyDropping ==
    /\ Stop
    /\ PtyFollows
    /\ coalesce' = [t \in Terminals |-> <<>>]
    /\ UNCHANGED <<paneVars, printed, resizes, gatewayVars, sent>>

\* onModuleDestroy of the attach loop and of the gateway: stop the one, flush
\* every buffer of the other.
ModuleDestroy ==
    /\ Stop
    /\ PtyFollows
    /\ sent' = [s \in Sockets |->
                  IF socket[s] = "open" /\ s \in subscribers[wants[s]]
                     /\ coalesce[wants[s]] # <<>>
                  THEN Append(sent[s], Frame("output", wants[s], coalesce[wants[s]]))
                  ELSE sent[s]]
    /\ coalesce' = [t \in Terminals |-> <<>>]
    /\ UNCHANGED <<paneVars, printed, resizes, gatewayVars>>

PaneStep == \E t \in Terminals :
    \/ WindowOpens(t) \/ PanePrints(t) \/ PaneResizes(t) \/ WindowCloses(t)
    \/ Register(t) \/ Bind(t) \/ Evict(t)

GatewayStep ==
    \/ ReadLine
    \/ \E t \in Terminals : CoalesceTimer(t)
    \/ \E s \in Sockets : Connect(s) \/ CapturePane(s) \/ PushSnapshot(s)
                          \/ SocketCloses(s) \/ HandleDisconnect(s)

StreamNext == AttachStep \/ SessionEnds \/ ModuleDestroy \/ PaneStep \/ GatewayStep

StreamSpec == StreamInit /\ [][StreamNext]_streamVars

\* What the runtime does by itself: it reads its ptys, runs expired timers
\* and exit callbacks, and tmux commands end.  Windows, sockets and shutdowns
\* are not forced.
StreamFairness ==
    /\ WF_streamVars(ReadLine)
    /\ \A t \in Terminals : WF_streamVars(CoalesceTimer(t))
    /\ \A s \in Sockets : WF_streamVars(CapturePane(s)) /\ WF_streamVars(PushSnapshot(s))
    /\ WF_streamVars(AttachStep /\ TimerFires)
    /\ \A p \in Ptys : /\ WF_streamVars(AttachStep /\ (ClientPrints(p) \/ ClientExits(p)))
                       /\ WF_streamVars(AttachStep /\ OnExit(p))

FairStreamSpec == StreamSpec /\ StreamFairness

----------------------------------------------------------------------------
Chunks == 1..MaxReports

\* Both maps of the gateway name the same sockets: each connected one is in
\* exactly the set of its own terminal, so a socket is never sent the output
\* of another terminal and no dead one stays behind after its close event.
SubscribersMatchConnections ==
    /\ connections = {s \in Sockets : socket[s] \in {"open", "closing"}}
    /\ \A t \in Terminals : subscribers[t] = {s \in connections : wants[s] = t}

OutputFrames(frames) == {i \in DOMAIN frames : frames[i].kind = "output"}
Snapshots(frames) == {i \in DOMAIN frames : frames[i].kind = "snapshot"}

\* Later frames, and later chunks of a frame, were printed later.
InPrintOrder(frames) ==
    \A i, j \in OutputFrames(frames) :
    \A a \in DOMAIN frames[i].chunks, b \in DOMAIN frames[j].chunks :
        i < j \/ (i = j /\ a < b) => frames[i].chunks[a] < frames[j].chunks[b]

\* The chunks sent to s as live output.
Streamed(s) == UNION {ToSet(sent[s][i].chunks) : i \in OutputFrames(sent[s])}

\* Live output reaches a socket in the order the pane printed it, no chunk
\* twice, across buffers, flushes, reattaches and the shutdown flush, and it
\* is output of the socket's own terminal.
OutputInOrderOnce ==
    \A s \in Sockets :
        InPrintOrder(sent[s]) /\ \A n \in Streamed(s) : printed[n] = wants[s]

\* On its way to the gateway's sockets: unread or held back.
InFlight(t) == ToSet(coalesce[t]) \cup UnreadChunks

\* After its snapshot an open socket misses nothing the gateway was given: a
\* chunk printed after the capture is sent, on its way, or was lost before
\* the gateway (no attach, or a pane not yet bound).
NoGapAfterSnapshot ==
    \A s \in Sockets : \A i \in Snapshots(sent[s]) :
        socket[s] = "open" =>
            ChunksOf(wants[s]) \subseteq
                sent[s][i].chunks \cup Streamed(s) \cup InFlight(wants[s]) \cup lost

\* A socket that connects is answered, with a snapshot or an error, unless it
\* closes: also when the terminal is unknown or vanishes during the capture.
EverySocketAnswered ==
    \A s \in Sockets :
        socket[s] = "open" ~> \/ socket[s] # "open"
                             \/ \E i \in DOMAIN sent[s] :
                                   sent[s][i].kind \in {"snapshot", "error"}

\* Held-back output is flushed to every open subscriber, whatever the others do.
HeldOutputGetsSent ==
    \A s \in Sockets : \A n \in Chunks :
        (socket[s] = "open" /\ n \in ToSet(coalesce[wants[s]]))
            ~> (socket[s] # "open" \/ n \in Streamed(s))

\* While there is a session to attach to, the loop gets back to streaming it,
\* unless it has given up or is shut down.
AttachRecovers == started ~> (Streaming \/ stopped \/ ~session)
=============================================================================
