----------------------------- MODULE XtermClient -----------------------------
(* The browser's terminal (src/ddx-term-web/src/lib/term/xterm-client.ts), the  *)
(* page that makes and disposes of its instances (TerminalWorkspace.tsx) and    *)
(* the bridge to the broker (WsProxy).                                          *)
(*                                                                              *)
(* An instance paints what the terminal printed by two kinds of repaint, the    *)
(* broker's snapshot frame and a snapshot fetched over REST, and by live output *)
(* frames; frames that arrive before the first repaint of a connection wait in  *)
(* pendingFrames.  One action is one event handler or the code between two      *)
(* awaits.  The terminal's output is the sequence of chunks 1, 2, ...; a        *)
(* snapshot is the number of chunks it shows.  Escape sequences, appearance and *)
(* the length of the backoff are left out.                                      *)
EXTENDS WsProxy, FiniteSets, SequencesExt

CONSTANTS Clients,      \* the instances the page may make, one per switch of tab
          NoClient,     \* clientRef.current is null
          RetryLimit,   \* RECONNECT_MAX_ATTEMPTS
          MaxChunks,    \* bound: chunks the terminal prints
          MaxDrops      \* bound: connections that fail or break on the way

ASSUME ClientAssumption ==
    /\ NoClient \notin Clients
    /\ RetryLimit \in Nat /\ MaxChunks \in Nat /\ MaxDrops \in Nat

VARIABLES
    page,       \* clientRef.current
    stage,      \* client -> "unused", "importing" (connect waits), "made", or "orphan":
                \*           disposed while connect waited, and made all the same
    fetch,      \* client -> the page's fetchSnapshot after connect
    self,       \* client -> the fields of the instance
    screen,     \* client -> chunks its xterm shows, in order
    owner,      \* connection -> the client that opened it
    answered,   \* connection -> the broker sent its snapshot, or the error
    refetch,    \* connection -> the fetch its onopen started
    printed,    \* chunks the terminal printed
    drops,      \* connections that failed or broke
    received,   \* client -> history: frames received on the current connection
    written     \* client -> history: frames handed to writeFrame since it was opened

clientOnly == <<self, screen, received, written>>
pageVars == <<page, stage, fetch, refetch, owner>>
worldVars == <<answered, printed, drops>>
socketVars == <<client, upstream, pending, toBroker, typed, broker, outages>>
clientVars == <<proxyVars, clientOnly, pageVars, worldVars>>

None == 0                         \* this.ws is null
Blank == -1                       \* the text of a fetch the server refused: ''

Output(n) == [kind |-> "output", shows |-> n]
Snapshot(n) == [kind |-> "snapshot", shows |-> n]
Error == [kind |-> "error", shows |-> 0]

NoFetch == [stage |-> "none", shows |-> Blank]
Asked == [stage |-> "asked", shows |-> Blank]
Answer(n) == [stage |-> "answered", shows |-> n]

(* An instance the page has not made yet.                                       *)
Fresh == [disposed |-> FALSE, terminal |-> FALSE, painted |-> FALSE,
          pendingFrames |-> <<>>, attempts |-> 0, timer |-> FALSE, ws |-> None]

ClientInit ==
    /\ ProxyInit
    /\ page = NoClient
    /\ stage = [c \in Clients |-> "unused"]
    /\ fetch = [c \in Clients |-> NoFetch]
    /\ self = [c \in Clients |-> Fresh]
    /\ screen = [c \in Clients |-> <<>>]
    /\ owner = [k \in Conns |-> NoClient]
    /\ answered = [k \in Conns |-> FALSE]
    /\ refetch = [k \in Conns |-> NoFetch]
    /\ printed = 0 /\ drops = 0
    /\ received = [c \in Clients |-> <<>>]
    /\ written = [c \in Clients |-> <<>>]

------------------------------------------------------------------------------
(* The instance.                                                                *)

FreeConns == {k \in Conns : browser[k] = "unused"}
NextConn == CHOOSE k \in FreeConns : \A j \in FreeConns : k <= j

(* openWebSocket: every connection starts unpainted.                            *)
OpenWebSocket(c, this) ==
    /\ FreeConns # {}
    /\ self' = [self EXCEPT ![c] = [this EXCEPT !.painted = FALSE, !.pendingFrames = <<>>,
                                                !.ws = NextConn]]
    /\ browser' = [browser EXCEPT ![NextConn] = "connecting"]
    /\ owner' = [owner EXCEPT ![NextConn] = c]
    /\ received' = [received EXCEPT ![c] = <<>>]
    /\ written' = [written EXCEPT ![c] = <<>>]

(* The chunks that writeFrame shows of a sequence of frames: only output frames *)
(* reach xterm.                                                                 *)
ShownBy(frames) ==
    LET outputs == SelectSeq(frames, LAMBDA f : f.kind = "output")
    IN [i \in DOMAIN outputs |-> outputs[i].shows]

(* A repaint clears the screen and shows the chunks of the snapshot.            *)
Repainted(c, n) == IF n = Blank THEN screen[c] ELSE [i \in 1..n |-> i]

(* Mutant: what waits is thrown away with the old screen.                       *)
PaintDropping(c, n) ==
    /\ self' = [self EXCEPT ![c].painted = TRUE, ![c].pendingFrames = <<>>]
    /\ screen' = [screen EXCEPT ![c] = IF self[c].terminal THEN Repainted(c, n) ELSE @]
    /\ UNCHANGED written

Paint(c, n) ==
    /\ self' = [self EXCEPT ![c].painted = TRUE, ![c].pendingFrames = <<>>]
    /\ screen' = [screen EXCEPT ![c] =
                     (IF self[c].terminal THEN Repainted(c, n) \o ShownBy(self[c].pendingFrames)
                      ELSE @)]
    /\ written' = [written EXCEPT ![c] = @ \o self[c].pendingFrames]

(* Mutant: the caller is trusted not to paint a disposed instance.              *)
RestoreSnapshotUnguarded(c, n) == Paint(c, n)

(* restoreSnapshot and markPaintedAndFlush.                                     *)
RestoreSnapshot(c, n) ==
    IF self[c].disposed THEN UNCHANGED <<self, screen, written>> ELSE Paint(c, n)

(* Mutant: the buffer is asked before the kind of the frame.                    *)
HandleServerFrameBuffering(c, frame) ==
    /\ received' = [received EXCEPT ![c] = Append(@, frame)]
    /\ IF ~self[c].painted
       THEN /\ self' = [self EXCEPT ![c].pendingFrames = Append(@, frame)]
            /\ UNCHANGED <<screen, written>>
       ELSE IF frame.kind = "snapshot" THEN RestoreSnapshot(c, frame.shows)
       ELSE /\ screen' = [screen EXCEPT ![c] = @ \o ShownBy(<<frame>>)]
            /\ written' = [written EXCEPT ![c] = Append(@, frame)]
            /\ UNCHANGED self

(* handleServerFrame: a snapshot paints, anything else waits for the first      *)
(* repaint and is written at once after it.                                     *)
HandleServerFrame(c, frame) ==
    \/ /\ frame.kind = "snapshot"
       /\ RestoreSnapshot(c, frame.shows)
       /\ UNCHANGED received
    \/ /\ frame.kind # "snapshot" /\ ~self[c].painted
       /\ self' = [self EXCEPT ![c].pendingFrames = Append(@, frame)]
       /\ received' = [received EXCEPT ![c] = Append(@, frame)]
       /\ UNCHANGED <<screen, written>>
    \/ /\ frame.kind # "snapshot" /\ self[c].painted
       /\ screen' = [screen EXCEPT ![c] = @ \o ShownBy(<<frame>>)]
       /\ written' = [written EXCEPT ![c] = Append(@, frame)]
       /\ received' = [received EXCEPT ![c] = Append(@, frame)]
       /\ UNCHANGED self

(* ws.onmessage.                                                                *)
OnMessage(k) ==
    LET c == owner[k] IN
    /\ browser[k] = "open" /\ down[k] # <<>>
    /\ down' = [down EXCEPT ![k] = Tail(@)]
    /\ IF self[c].disposed THEN UNCHANGED clientOnly
       ELSE HandleServerFrame(c, Head(down[k]))
    /\ UNCHANGED <<browser, socketVars, pageVars, worldVars>>

(* ws.onopen: the attempts are forgotten, and a reconnect asks for a repaint.   *)
OnOpen(k) ==
    LET c == owner[k] IN
    /\ browser[k] = "connecting" /\ client[k] # "none"
    /\ browser' = [browser EXCEPT ![k] = "open"]
    /\ IF self[c].disposed THEN UNCHANGED <<self, refetch>>
       ELSE /\ self' = [self EXCEPT ![c].attempts = 0]
            /\ refetch' = [refetch EXCEPT ![k] = IF self[c].attempts > 0 THEN Asked ELSE @]
    /\ UNCHANGED <<socketVars, down, screen, received, written, page, stage, fetch, owner,
                   worldVars>>

ScheduleReconnect(c) ==
    IF self[c].disposed \/ self[c].timer \/ self[c].attempts >= RetryLimit
    THEN UNCHANGED self
    ELSE self' = [self EXCEPT ![c].attempts = @ + 1, ![c].timer = TRUE]

(* ws.onclose: the proxy closed its side and every frame before that was read.  *)
OnClose(k) ==
    /\ browser[k] = "open" /\ client[k] = "closed" /\ down[k] = <<>>
    /\ browser' = [browser EXCEPT ![k] = "closed"]
    /\ ScheduleReconnect(owner[k])
    /\ UNCHANGED <<socketVars, down, screen, received, written, pageVars, worldVars>>

(* ws.onerror and ws.onclose: the connection failed, or broke on the way.       *)
Drop(k) ==
    /\ browser[k] \in {"connecting", "open"} /\ drops < MaxDrops
    /\ drops' = drops + 1
    /\ browser' = [browser EXCEPT ![k] = "closed"]
    /\ down' = [down EXCEPT ![k] = <<>>]
    /\ ScheduleReconnect(owner[k])
    /\ UNCHANGED <<socketVars, screen, received, written, pageVars, answered, printed>>

(* The reconnect timer; dispose cancels it.                                     *)
TimerFires(c) ==
    /\ self[c].timer
    /\ OpenWebSocket(c, [self[c] EXCEPT !.timer = FALSE])
    /\ UNCHANGED <<socketVars, down, screen, page, stage, fetch, refetch, worldVars>>

(* term.onData and sendInput.                                                   *)
SendInput(c) ==
    LET k == self[c].ws IN
    /\ self[c].terminal /\ k # None
    /\ browser[k] = "open" /\ Len(typed[k]) < MaxKeys
    /\ ClientMessage(k, Len(typed[k]) + 1)
    /\ UNCHANGED <<clientOnly, pageVars, worldVars>>

Disposed(this) == [this EXCEPT !.disposed = TRUE, !.timer = FALSE, !.ws = None,
                               !.pendingFrames = <<>>, !.terminal = FALSE]

Dispose(c) ==
    /\ self' = [self EXCEPT ![c] = Disposed(@)]
    /\ browser' = [k \in Conns |-> IF k = self[c].ws THEN "closed" ELSE browser[k]]
    /\ down' = [k \in Conns |-> IF k = self[c].ws THEN <<>> ELSE down[k]]

------------------------------------------------------------------------------
(* The page.                                                                    *)

(* switchTo up to connect's lazy imports: the effect for a terminalId runs.     *)
SwitchTo(c) ==
    /\ page = NoClient /\ stage[c] = "unused"
    /\ page' = c
    /\ stage' = [stage EXCEPT ![c] = "importing"]
    /\ UNCHANGED <<proxyVars, clientOnly, fetch, refetch, owner, worldVars>>

(* The clean-up of that effect: the page shows another terminal, or none.       *)
Leave ==
    /\ page # NoClient
    /\ Dispose(page)
    /\ page' = NoClient
    /\ received' = [received EXCEPT ![page] = <<>>]
    /\ written' = [written EXCEPT ![page] = <<>>]
    /\ UNCHANGED <<socketVars, screen, stage, fetch, refetch, owner, worldVars>>

(* connect after its await, which does not ask for `disposed' again, and the    *)
(* page's fetch after connect.                                                  *)
ImportsReady(c) ==
    /\ stage[c] = "importing"
    /\ stage' = [stage EXCEPT ![c] = IF self[c].disposed THEN "orphan" ELSE "made"]
    /\ OpenWebSocket(c, [self[c] EXCEPT !.terminal = TRUE])
    /\ fetch' = [fetch EXCEPT ![c] = Asked]
    /\ UNCHANGED <<socketVars, down, screen, page, refetch, worldVars>>

(* fetchSnapshot brings the screen as it is, or an empty text if it is refused; *)
(* one that throws changes nothing, and is a request that stays unanswered.     *)
FetchAnswered(c) ==
    /\ fetch[c] = Asked
    /\ \/ broker /\ fetch' = [fetch EXCEPT ![c] = Answer(printed)]
       \/ fetch' = [fetch EXCEPT ![c] = Answer(Blank)]
    /\ UNCHANGED <<proxyVars, clientOnly, page, stage, refetch, owner, worldVars>>

(* switchTo after fetchSnapshot: an empty text flips `painted' too.             *)
PageRestores(c) ==
    /\ fetch[c].stage = "answered"
    /\ fetch' = [fetch EXCEPT ![c] = NoFetch]
    /\ RestoreSnapshot(c, fetch[c].shows)
    /\ UNCHANGED <<proxyVars, received, page, stage, refetch, owner, worldVars>>

(* onopen after onReconnect, which ignores an empty text: a refusal is again a  *)
(* request that stays unanswered.  The answer may come when the connection that *)
(* asked is gone.                                                               *)
RefetchAnswered(k) ==
    /\ refetch[k] = Asked /\ broker
    /\ refetch' = [refetch EXCEPT ![k] = Answer(printed)]
    /\ UNCHANGED <<proxyVars, clientOnly, page, stage, fetch, owner, worldVars>>

ReconnectRestores(k) ==
    /\ refetch[k].stage = "answered"
    /\ refetch' = [refetch EXCEPT ![k] = NoFetch]
    /\ RestoreSnapshot(owner[k], refetch[k].shows)
    /\ UNCHANGED <<proxyVars, received, page, stage, fetch, owner, worldVars>>

------------------------------------------------------------------------------
(* The broker, external here (see TermStream).                                  *)

Subscribed == {k \in Conns : upstream[k] = "open"}

(* Every socket is answered by one snapshot, or an error if the capture fails.  *)
PushSnapshot(k) ==
    /\ k \in Subscribed /\ ~answered[k]
    /\ answered' = [answered EXCEPT ![k] = TRUE]
    /\ Forward({k}, Snapshot(printed)) \/ Forward({k}, Error)
    /\ UNCHANGED <<browser, socketVars, clientOnly, pageVars, printed, drops>>

(* The terminal prints, and the chunk goes to every subscriber.  What it printed *)
(* before the first connection is in every snapshot and is not counted.         *)
PanePrints ==
    /\ broker /\ printed < MaxChunks /\ client[1] # "none"
    /\ printed' = printed + 1
    /\ Forward(Subscribed, Output(printed + 1))
    /\ UNCHANGED <<browser, socketVars, clientOnly, pageVars, answered, drops>>

Bridge(k) == ProxyStep(k) /\ UNCHANGED <<clientOnly, pageVars, worldVars>>
BrokerStep == (BrokerStops \/ BrokerStarts) /\ UNCHANGED <<clientOnly, pageVars, worldVars>>

ClientStep(c) == ImportsReady(c) \/ TimerFires(c) \/ PageRestores(c)
ConnStep(k) == OnOpen(k) \/ OnMessage(k) \/ OnClose(k) \/ PushSnapshot(k) \/ ReconnectRestores(k)

ClientNext ==
    \/ \E c \in Clients : SwitchTo(c) \/ SendInput(c) \/ FetchAnswered(c) \/ ClientStep(c)
    \/ Leave \/ PanePrints \/ BrokerStep
    \/ \E k \in Conns : Bridge(k) \/ ConnStep(k) \/ RefetchAnswered(k) \/ Drop(k)

ClientSpec == ClientInit /\ [][ClientNext]_clientVars

(* Events are delivered and timers fire; nothing is assumed of the user, the    *)
(* terminal, outages and requests.  Every step uses up a connection, a frame, a *)
(* request or a bound, so that one condition on all of them says as much as one *)
(* on each.                                                                     *)
Delivery == \/ \E c \in Clients : ClientStep(c)
            \/ \E k \in Conns : Bridge(k) \/ ConnStep(k)

FairClientSpec == ClientSpec /\ WF_clientVars(Delivery)

------------------------------------------------------------------------------
(* Properties.                                                                  *)

(* The buffer neither loses nor reorders: the frames written since a connection *)
(* was opened, followed by those that wait, are the frames received on it, and  *)
(* nothing waits once the terminal is painted, whichever repaint came first.    *)
FramesInOrder == \A c \in Clients : ~self[c].disposed =>
    /\ written[c] \o self[c].pendingFrames = received[c]
    /\ self[c].painted => self[c].pendingFrames = <<>>

(* A disposed instance never paints: not when a slow fetch answers, not when a  *)
(* frame comes in, not even when it was disposed before it had a terminal.      *)
DisposedStaysBlank ==
    [][\A c \in Clients : self[c].disposed => screen'[c] = screen[c]]_clientVars

Sockets(c) == {k \in Conns : owner[k] = c /\ browser[k] \in {"connecting", "open"}}

Unpainted(c) == /\ ~self[c].disposed /\ ~self[c].painted
                /\ \E k \in Sockets(c) : browser[k] = "open"

(* Live output resumes: an open socket does not leave its terminal unpainted,   *)
(* with every frame held back, unless the broker could not take the snapshot.   *)
LiveOutputResumes == \A c \in Clients :
    Unpainted(c) ~> (~Unpainted(c) \/ Contains(self[c].pendingFrames, Error))
==============================================================================
