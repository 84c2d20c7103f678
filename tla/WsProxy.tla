------------------------------- MODULE WsProxy -------------------------------
(* The WebSocket bridge of the web server (src/ddx-term-web/server.mjs): the    *)
(* browser only talks to its own origin, and for every /term/<id> upgrade the   *)
(* proxy opens a second socket to the broker and pipes messages both ways.      *)
(*                                                                              *)
(* One action is one event handler.  A connection k has a browser end, the      *)
(* proxy's socket to the browser (`client' in the source) and the proxy's       *)
(* socket to the broker (`upstream').  Messages from the broker travel in       *)
(* `down' until the browser handles them; the codes and reasons of the close    *)
(* frames (safeCloseCode) change no state and are left out.                     *)
EXTENDS Integers, Sequences

CONSTANTS MaxConns,    \* bound: connections opened by browsers
          MaxKeys,     \* bound: messages typed on a connection
          MaxOutages   \* bound: times the broker goes away

ASSUME ProxyAssumption == MaxConns \in Nat \ {0} /\ MaxKeys \in Nat /\ MaxOutages \in Nat

Conns == 1..MaxConns

VARIABLES
    browser,    \* k -> the browser's WebSocket: "unused", "connecting", "open", "closed"
    client,     \* k -> the proxy's socket to the browser: "none", "open", "closed"
    upstream,   \* k -> the proxy's socket to the broker: "none", "connecting",
                \*      "open", "lost" (the broker is gone, not noticed yet), "closed"
                \*      (or never made: its constructor threw)
    pending,    \* k -> messages held until upstream opens
    toBroker,   \* k -> messages sent on upstream
    typed,      \* k -> history: messages the proxy received from the browser
    down,       \* k -> frames on their way from the broker to the browser
    broker,     \* the broker accepts connections
    outages     \* times the broker went away

proxyVars == <<browser, client, upstream, pending, toBroker, typed, down,
               broker, outages>>

ProxyInit ==
    /\ browser = [k \in Conns |-> "unused"]
    /\ client = [k \in Conns |-> "none"]
    /\ upstream = [k \in Conns |-> "none"]
    /\ pending = [k \in Conns |-> <<>>]
    /\ toBroker = [k \in Conns |-> <<>>]
    /\ typed = [k \in Conns |-> <<>>]
    /\ down = [k \in Conns |-> <<>>]
    /\ broker = TRUE
    /\ outages = 0

(* wss.handleUpgrade: the handshake with the browser is completed before the    *)
(* broker is known to be there.  Where new WebSocket throws there is no upstream *)
(* and the browser's side is closed at once.                                    *)
HandleUpgrade(k) ==
    /\ browser[k] = "connecting" /\ client[k] = "none"
    /\ \/ /\ client' = [client EXCEPT ![k] = "open"]
          /\ upstream' = [upstream EXCEPT ![k] = "connecting"]
       \/ /\ client' = [client EXCEPT ![k] = "closed"]
          /\ upstream' = [upstream EXCEPT ![k] = "closed"]
    /\ UNCHANGED <<browser, pending, toBroker, typed, down, broker, outages>>

(* Mutant: what is held is left to a later turn.                                *)
UpstreamOpensUnflushed(k) ==
    /\ upstream[k] = "connecting" /\ broker
    /\ upstream' = [upstream EXCEPT ![k] = "open"]
    /\ UNCHANGED <<browser, client, pending, toBroker, typed, down, broker, outages>>

(* upstream.on('open'): what was typed meanwhile goes first.                    *)
UpstreamOpens(k) ==
    /\ upstream[k] = "connecting" /\ broker
    /\ upstream' = [upstream EXCEPT ![k] = "open"]
    /\ toBroker' = [toBroker EXCEPT ![k] = @ \o pending[k]]
    /\ pending' = [pending EXCEPT ![k] = <<>>]
    /\ UNCHANGED <<browser, client, typed, down, broker, outages>>

(* The messages of a bridge that is down are garbage.                           *)
Forget(k) == /\ pending' = [pending EXCEPT ![k] = <<>>]
             /\ toBroker' = [toBroker EXCEPT ![k] = <<>>]
             /\ typed' = [typed EXCEPT ![k] = <<>>]

UpstreamGone(k) == \/ upstream[k] = "connecting" /\ ~broker
                   \/ upstream[k] = "lost"

(* Mutant: the browser's side is left open.                                     *)
UpstreamClosesAlone(k) ==
    /\ UpstreamGone(k)
    /\ upstream' = [upstream EXCEPT ![k] = "closed"]
    /\ Forget(k)
    /\ UNCHANGED <<browser, client, down, broker, outages>>

(* upstream.on('close') and on('error'), with safeClose of the browser's side.  *)
UpstreamCloses(k) ==
    /\ UpstreamGone(k)
    /\ upstream' = [upstream EXCEPT ![k] = "closed"]
    /\ client' = [client EXCEPT ![k] = "closed"]
    /\ Forget(k)
    /\ UNCHANGED <<browser, down, broker, outages>>

(* client.on('message'): held while upstream connects; upstreamOpen stays set,  *)
(* so a message for an upstream that was lost is sent and goes nowhere.         *)
ClientMessage(k, m) ==
    /\ client[k] = "open"
    /\ typed' = IF upstream[k] # "lost" THEN [typed EXCEPT ![k] = Append(@, m)] ELSE typed
    /\ pending' = IF upstream[k] = "connecting"
                  THEN [pending EXCEPT ![k] = Append(@, m)] ELSE pending
    /\ toBroker' = IF upstream[k] = "open"
                   THEN [toBroker EXCEPT ![k] = Append(@, m)] ELSE toBroker
    /\ UNCHANGED <<browser, client, upstream, down, broker, outages>>

(* client.on('close') and on('error'): the browser's end is gone.               *)
ClientCloses(k) ==
    /\ browser[k] = "closed" /\ client[k] = "open"
    /\ client' = [client EXCEPT ![k] = "closed"]
    /\ upstream' = [upstream EXCEPT ![k] = "closed"]
    /\ Forget(k)
    /\ UNCHANGED <<browser, down, broker, outages>>

(* upstream.on('message'): a frame of the broker for every socket of `on'; what  *)
(* is sent to a browser end that is gone is lost.                               *)
Forward(on, frame) ==
    down' = [k \in Conns |-> IF k \in on /\ client[k] = "open" /\ browser[k] # "closed"
                             THEN Append(down[k], frame) ELSE down[k]]

(* External: the broker ends, and is started again.  What is said on a bridge   *)
(* that is lost is garbage.                                                     *)
BrokerStops ==
    /\ broker /\ outages < MaxOutages
    /\ broker' = FALSE
    /\ outages' = outages + 1
    /\ upstream' = [k \in Conns |-> IF upstream[k] = "open" THEN "lost" ELSE upstream[k]]
    /\ toBroker' = [k \in Conns |-> IF upstream[k] = "open" THEN <<>> ELSE toBroker[k]]
    /\ typed' = [k \in Conns |-> IF upstream[k] = "open" THEN <<>> ELSE typed[k]]
    /\ UNCHANGED <<browser, client, pending, down>>

BrokerStarts ==
    /\ ~broker
    /\ broker' = TRUE
    /\ UNCHANGED <<browser, client, upstream, pending, toBroker, typed, down, outages>>

ProxyStep(k) ==
    HandleUpgrade(k) \/ UpstreamOpens(k) \/ UpstreamCloses(k) \/ ClientCloses(k)

------------------------------------------------------------------------------

(* Both halves of a bridge live and die together: when one of the two sockets   *)
(* of a connection is closed so is the other, whichever side or outage ended    *)
(* it first.                                                                    *)
BridgeWhole == \A k \in Conns : client[k] = "closed" <=> upstream[k] = "closed"

(* What is typed reaches the broker once and in order: while a bridge is up,    *)
(* the messages sent to the broker followed by those held for it are the        *)
(* messages received from the browser.                                          *)
KeysInOrder == \A k \in Conns :
    upstream[k] \in {"none", "connecting", "open"} => toBroker[k] \o pending[k] = typed[k]
==============================================================================
