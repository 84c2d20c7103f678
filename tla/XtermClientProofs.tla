------------------------- MODULE XtermClientProofs -------------------------
(***************************************************************************)
(* Theorems about XtermClient and the bridge under it (WsProxy), for any   *)
(* number of instances, connections, keys, frames and outages.             *)
(*                                                                         *)
(* The bridge: its two halves live and die together, and what is typed     *)
(* reaches the broker once and in order.  The second rests on what the two *)
(* sockets say of each other: the browser can type only once the proxy has *)
(* begun to connect, and nothing is held once it has connected.            *)
(*                                                                         *)
(* The instance: the buffer of a connection neither loses nor reorders     *)
(* frames, and a disposed instance never paints.                           *)
(***************************************************************************)
EXTENDS XtermClient, SequenceTheorems, TLAPS

----------------------------------------------------------------------------
(* The bridge *)

Messages == Nat       \* what is typed: the how-manieth message it is

BridgeTypeOK ==
    /\ client \in [Conns -> {"none", "open", "closed"}]
    /\ upstream \in [Conns -> {"none", "connecting", "open", "lost", "closed"}]
    /\ pending \in [Conns -> Seq(Messages)]
    /\ toBroker \in [Conns -> Seq(Messages)]
    /\ typed \in [Conns -> Seq(Messages)]

\* What the proxy's two sockets of a connection say of each other.
SocketsAgree == \A k \in Conns :
    /\ client[k] = "none" <=> upstream[k] = "none"
    /\ upstream[k] \in {"none", "open"} => pending[k] = <<>>

BridgeIInv == BridgeTypeOK /\ SocketsAgree /\ BridgeWhole /\ KeysInOrder

\* The invariant of one connection.
BridgeOf(c, u, p, b, t) ==
    /\ c \in {"none", "open", "closed"}
    /\ u \in {"none", "connecting", "open", "lost", "closed"}
    /\ p \in Seq(Messages) /\ b \in Seq(Messages) /\ t \in Seq(Messages)
    /\ c = "none" <=> u = "none"
    /\ u \in {"none", "open"} => p = <<>>
    /\ c = "closed" <=> u = "closed"
    /\ u \in {"none", "connecting", "open"} => b \o p = t

OfConn(k) == BridgeOf(client[k], upstream[k], pending[k], toBroker[k], typed[k])

LEMMA EmptySequence == <<>> \in Seq(Messages) /\ \A s \in Seq(Messages) : s \o <<>> = s /\ <<>> \o s = s
  OBVIOUS

\* The functions of the bridge are over the connections.
Shaped ==
    /\ client = [k \in Conns |-> client[k]]
    /\ upstream = [k \in Conns |-> upstream[k]]
    /\ pending = [k \in Conns |-> pending[k]]
    /\ toBroker = [k \in Conns |-> toBroker[k]]
    /\ typed = [k \in Conns |-> typed[k]]

LEMMA BridgeByConn == BridgeIInv <=> Shaped /\ \A k \in Conns : OfConn(k)
  <1>1. ASSUME BridgeIInv PROVE Shaped /\ \A k \in Conns : OfConn(k)
    BY <1>1 DEF BridgeIInv, BridgeTypeOK, SocketsAgree, BridgeWhole, KeysInOrder, Shaped,
                OfConn, BridgeOf
  <1>2. ASSUME Shaped, \A k \in Conns : OfConn(k) PROVE BridgeIInv
    <2>1. BridgeTypeOK
      BY <1>2 DEF BridgeTypeOK, Shaped, OfConn, BridgeOf
    <2>2. SocketsAgree /\ BridgeWhole /\ KeysInOrder
      BY <1>2 DEF SocketsAgree, BridgeWhole, KeysInOrder, OfConn, BridgeOf
    <2> QED
      BY <2>1, <2>2 DEF BridgeIInv
  <1> QED
    BY <1>1, <1>2

LEMMA BridgeInit == ClientInit => BridgeIInv
  <1> SUFFICES ASSUME ClientInit PROVE BridgeIInv
    OBVIOUS
  <1>1. \A k \in Conns : /\ client[k] = "none" /\ upstream[k] = "none" /\ pending[k] = <<>>
                         /\ toBroker[k] = <<>> /\ typed[k] = <<>>
    BY DEF ClientInit, ProxyInit
  <1>2. Shaped
    BY DEF ClientInit, ProxyInit, Shaped
  <1>3. \A k \in Conns : OfConn(k)
    BY <1>1, EmptySequence DEF OfConn, BridgeOf
  <1> QED
    BY <1>2, <1>3, BridgeByConn

\* A step of one connection.
LEMMA OneConn ==
    ASSUME BridgeIInv, NEW k \in Conns, Shaped', OfConn(k)',
           \A j \in Conns \ {k} :
               /\ client'[j] = client[j] /\ upstream'[j] = upstream[j]
               /\ pending'[j] = pending[j] /\ toBroker'[j] = toBroker[j]
               /\ typed'[j] = typed[j]
    PROVE  BridgeIInv'
  <1>1. \A j \in Conns : OfConn(j)
    BY BridgeByConn
  <1>2. \A j \in Conns : OfConn(j)'
    BY <1>1 DEF OfConn
  <1>3. BridgeTypeOK'
    BY <1>2 DEF BridgeTypeOK, Shaped, OfConn, BridgeOf
  <1>4. SocketsAgree' /\ BridgeWhole' /\ KeysInOrder'
    BY <1>2 DEF SocketsAgree, BridgeWhole, KeysInOrder, OfConn, BridgeOf
  <1> QED
    BY <1>3, <1>4 DEF BridgeIInv

\* The messages of a bridge that is down are garbage.
LEMMA ForgetFacts ==
    ASSUME BridgeIInv, NEW k \in Conns, Forget(k),
           client' \in [Conns -> {"none", "open", "closed"}], client'[k] = "closed",
           upstream' = [upstream EXCEPT ![k] = "closed"],
           \A j \in Conns \ {k} : client'[j] = client[j]
    PROVE  BridgeIInv'
  <1>1. Shaped'
    BY DEF BridgeIInv, BridgeTypeOK, Shaped, Forget
  <1>2. /\ upstream'[k] = "closed" /\ pending'[k] = <<>> /\ toBroker'[k] = <<>>
        /\ typed'[k] = <<>>
        /\ \A j \in Conns \ {k} :
               /\ upstream'[j] = upstream[j] /\ pending'[j] = pending[j]
               /\ toBroker'[j] = toBroker[j] /\ typed'[j] = typed[j]
    BY DEF BridgeIInv, BridgeTypeOK, Forget
  <1>3. OfConn(k)'
    BY <1>2, EmptySequence DEF OfConn, BridgeOf
  <1> QED
    BY <1>1, <1>2, <1>3, OneConn

\* Every event handler of the proxy.
LEMMA BridgeStep ==
    ASSUME BridgeIInv, NEW k \in Conns, ProxyStep(k)
    PROVE  BridgeIInv'
  <1>0. BridgeTypeOK /\ OfConn(k) /\ Shaped
    BY BridgeByConn DEF BridgeIInv
  <1>1. CASE HandleUpgrade(k)
    <2>1. PICK c \in {"open", "closed"}, u \in {"connecting", "closed"} :
              /\ c = "closed" <=> u = "closed"
              /\ client[k] = "none" /\ client' = [client EXCEPT ![k] = c]
              /\ upstream' = [upstream EXCEPT ![k] = u]
              /\ UNCHANGED <<pending, toBroker, typed>>
      BY <1>1 DEF HandleUpgrade
    <2>2. client'[k] = c /\ upstream'[k] = u
      BY <1>0, <2>1 DEF BridgeTypeOK
    <2>3. OfConn(k)'
      BY <1>0, <2>1, <2>2 DEF OfConn, BridgeOf
    <2>4. Shaped'
      BY <1>0, <2>1 DEF Shaped
    <2> QED
      BY <1>0, <2>1, <2>3, <2>4, OneConn DEF BridgeTypeOK
  <1>2. CASE UpstreamOpens(k)
    <2>1. /\ upstream[k] = "connecting" /\ upstream' = [upstream EXCEPT ![k] = "open"]
          /\ toBroker' = [toBroker EXCEPT ![k] = toBroker[k] \o pending[k]]
          /\ pending' = [pending EXCEPT ![k] = <<>>]
          /\ UNCHANGED <<client, typed>>
      BY <1>2 DEF UpstreamOpens
    <2>2. toBroker[k] \o pending[k] = typed[k] /\ typed[k] \in Seq(Messages)
      BY <1>0, <2>1 DEF OfConn, BridgeOf
    <2>3. /\ upstream'[k] = "open" /\ toBroker'[k] = typed[k] /\ pending'[k] = <<>>
          /\ client'[k] = client[k] /\ typed'[k] = typed[k]
      BY <1>0, <2>1, <2>2 DEF BridgeTypeOK
    <2>4. OfConn(k)'
      BY <1>0, <2>1, <2>2, <2>3, EmptySequence DEF OfConn, BridgeOf
    <2>5. Shaped'
      BY <1>0, <2>1 DEF Shaped
    <2> QED
      BY <1>0, <2>1, <2>4, <2>5, OneConn DEF BridgeTypeOK
  <1>3. CASE UpstreamCloses(k)
    <2>1. /\ upstream' = [upstream EXCEPT ![k] = "closed"]
          /\ client' = [client EXCEPT ![k] = "closed"] /\ Forget(k)
      BY <1>3 DEF UpstreamCloses
    <2> QED
      BY <1>0, <2>1, ForgetFacts DEF BridgeTypeOK
  <1>4. CASE ClientCloses(k)
    <2>1. /\ upstream' = [upstream EXCEPT ![k] = "closed"]
          /\ client' = [client EXCEPT ![k] = "closed"] /\ Forget(k)
      BY <1>4 DEF ClientCloses
    <2> QED
      BY <1>0, <2>1, ForgetFacts DEF BridgeTypeOK
  <1> QED
    BY <1>1, <1>2, <1>3, <1>4 DEF ProxyStep

LEMMA MessageStep ==
    ASSUME BridgeIInv, NEW k \in Conns, NEW m \in Messages, ClientMessage(k, m)
    PROVE  BridgeIInv'
  <1>0. BridgeTypeOK /\ OfConn(k) /\ Shaped
    BY BridgeByConn DEF BridgeIInv
  <1>1. /\ client[k] = "open" /\ UNCHANGED <<client, upstream>>
        /\ typed' = IF upstream[k] # "lost"
                    THEN [typed EXCEPT ![k] = Append(typed[k], m)] ELSE typed
        /\ pending' = IF upstream[k] = "connecting"
                      THEN [pending EXCEPT ![k] = Append(pending[k], m)] ELSE pending
        /\ toBroker' = IF upstream[k] = "open"
                       THEN [toBroker EXCEPT ![k] = Append(toBroker[k], m)] ELSE toBroker
    BY DEF ClientMessage
  <1>2. Shaped'
    BY <1>0, <1>1 DEF Shaped
  <1>3. \A j \in Conns \ {k} : /\ pending'[j] = pending[j] /\ toBroker'[j] = toBroker[j]
                               /\ typed'[j] = typed[j]
    BY <1>0, <1>1 DEF BridgeTypeOK
  <1>4. upstream[k] # "lost" => typed'[k] = Append(typed[k], m) /\ typed'[k] \in Seq(Messages)
    BY <1>0, <1>1 DEF BridgeTypeOK
  <1>5. upstream[k] \in {"connecting", "open", "lost"}
    BY <1>0, <1>1 DEF OfConn, BridgeOf
  <1>6. CASE upstream[k] = "connecting"
    <2>1. pending'[k] = Append(pending[k], m) /\ toBroker'[k] = toBroker[k]
      BY <1>0, <1>1, <1>6 DEF BridgeTypeOK
    <2>2. toBroker[k] \o Append(pending[k], m) = Append(typed[k], m)
      <3>1. toBroker[k] \o pending[k] = typed[k]
        BY <1>0, <1>6 DEF OfConn, BridgeOf
      <3>2. toBroker[k] \in Seq(Messages) /\ pending[k] \in Seq(Messages)
        BY <1>0 DEF OfConn, BridgeOf
      <3>3. Append(toBroker[k] \o pending[k], m) = toBroker[k] \o Append(pending[k], m)
        <4>1. PICK held, sent : /\ sent \in Seq(Messages) /\ held \in Seq(Messages)
                                /\ sent = toBroker[k] /\ held = pending[k]
          BY <3>2
        <4>2. sent \in Seq(Messages) /\ held \in Seq(Messages)
          BY <4>1
        <4>3. Append(sent \o held, m) = sent \o Append(held, m)
          BY <4>2
        <4> QED
          BY <4>1, <4>3
      <3> QED
        BY <3>1, <3>3
    <2>3. pending'[k] \in Seq(Messages) /\ toBroker'[k] \in Seq(Messages)
      BY <1>0, <2>1 DEF OfConn, BridgeOf
    <2>4. OfConn(k)'
      BY <1>0, <1>1, <1>4, <1>6, <2>1, <2>2, <2>3 DEF OfConn, BridgeOf
    <2> QED
      BY <1>1, <1>2, <1>3, <2>4, OneConn
  <1>7. CASE upstream[k] = "open"
    <2>1. toBroker'[k] = Append(toBroker[k], m) /\ pending'[k] = pending[k]
      BY <1>0, <1>1, <1>7 DEF BridgeTypeOK
    <2>2. toBroker[k] = typed[k] /\ pending[k] = <<>>
      BY <1>0, <1>7, EmptySequence DEF OfConn, BridgeOf
    <2>3. toBroker'[k] \o pending'[k] = typed'[k]
      BY <1>4, <1>7, <2>1, <2>2, EmptySequence
    <2>4. OfConn(k)'
      BY <1>0, <1>1, <1>4, <1>7, <2>1, <2>2, <2>3, EmptySequence DEF OfConn, BridgeOf
    <2> QED
      BY <1>1, <1>2, <1>3, <2>4, OneConn
  <1>8. CASE upstream[k] = "lost"
    <2>1. toBroker'[k] = toBroker[k] /\ pending'[k] = pending[k] /\ typed'[k] = typed[k]
      BY <1>1, <1>8
    <2>2. OfConn(k)'
      BY <1>0, <1>1, <1>8, <2>1 DEF OfConn, BridgeOf
    <2> QED
      BY <1>1, <1>2, <1>3, <2>2, OneConn
  <1> QED
    BY <1>5, <1>6, <1>7, <1>8

LEMMA BridgeUnchanged ==
    ASSUME BridgeIInv, UNCHANGED <<client, upstream, pending, toBroker, typed>>
    PROVE  BridgeIInv'
  BY DEF BridgeIInv, BridgeTypeOK, SocketsAgree, BridgeWhole, KeysInOrder

LEMMA OutageStep ==
    ASSUME BridgeIInv, BrokerStops
    PROVE  BridgeIInv'
  <1>1. /\ upstream' = [k \in Conns |-> IF upstream[k] = "open" THEN "lost" ELSE upstream[k]]
        /\ toBroker' = [k \in Conns |-> IF upstream[k] = "open" THEN <<>> ELSE toBroker[k]]
        /\ typed' = [k \in Conns |-> IF upstream[k] = "open" THEN <<>> ELSE typed[k]]
        /\ UNCHANGED <<client, pending>>
    BY DEF BrokerStops
  <1>2. Shaped /\ \A k \in Conns : OfConn(k)
    BY BridgeByConn
  <1>3. Shaped'
    BY <1>1, <1>2 DEF Shaped
  <1>4. \A k \in Conns : OfConn(k)'
    <2> TAKE k \in Conns
    <2>1. CASE upstream[k] = "open"
      <3>1. upstream'[k] = "lost" /\ toBroker'[k] = <<>> /\ typed'[k] = <<>>
        BY <1>1, <2>1
      <3> QED
        BY <1>1, <1>2, <2>1, <3>1, EmptySequence DEF OfConn, BridgeOf
    <2>2. CASE upstream[k] # "open"
      <3>1. upstream'[k] = upstream[k] /\ toBroker'[k] = toBroker[k] /\ typed'[k] = typed[k]
        BY <1>1, <2>2
      <3> QED
        BY <1>1, <1>2, <2>2, <3>1 DEF OfConn, BridgeOf
    <2> QED
      BY <2>1, <2>2
  <1>5. BridgeTypeOK'
    BY <1>3, <1>4 DEF BridgeTypeOK, Shaped, OfConn, BridgeOf
  <1>6. SocketsAgree' /\ BridgeWhole' /\ KeysInOrder'
    BY <1>4 DEF SocketsAgree, BridgeWhole, KeysInOrder, OfConn, BridgeOf
  <1> QED
    BY <1>5, <1>6 DEF BridgeIInv

LEMMA BridgeInvariance == ClientSpec => []BridgeIInv
  <1>1. BridgeIInv /\ [ClientNext]_clientVars => BridgeIInv'
    <2> SUFFICES ASSUME BridgeIInv, [ClientNext]_clientVars PROVE BridgeIInv'
      OBVIOUS
    <2>1. ASSUME NEW k \in Conns, Bridge(k) PROVE BridgeIInv'
      BY <2>1, BridgeStep DEF Bridge
    <2>2. CASE BrokerStep
      <3>1. CASE BrokerStops
        BY <3>1, OutageStep
      <3>2. CASE BrokerStarts
        BY <3>2, BridgeUnchanged DEF BrokerStarts
      <3> QED
        BY <2>2, <3>1, <3>2 DEF BrokerStep
    <2>3. ASSUME NEW c \in Clients, SendInput(c) PROVE BridgeIInv'
      <3> DEFINE k == self[c].ws
      <3>1. ClientMessage(k, Len(typed[k]) + 1)
        BY <2>3 DEF SendInput
      <3>2. CASE k \in Conns
        <4>1. typed[k] \in Seq(Messages)
          BY <3>2 DEF BridgeIInv, BridgeTypeOK
        <4>2. Len(typed[k]) + 1 \in Messages
          BY <4>1 DEF Messages
        <4> HIDE DEF k
        <4> QED
          BY <3>1, <3>2, <4>2, MessageStep
      <3>3. CASE k \notin Conns
        <4>1. UNCHANGED <<client, upstream>> /\ typed' = typed /\ pending' = pending
              /\ toBroker' = toBroker
          <5> HIDE DEF k
          <5> QED
            BY <3>1, <3>3 DEF ClientMessage, BridgeIInv, BridgeTypeOK
        <4> QED
          BY <4>1, BridgeUnchanged
      <3> QED
        BY <3>2, <3>3
    <2>4. ASSUME \/ UNCHANGED socketVars
                 \/ UNCHANGED clientVars
          PROVE  BridgeIInv'
      BY <2>4, BridgeUnchanged DEF socketVars, clientVars, proxyVars
    <2>5. ASSUME NEW c \in Clients, SwitchTo(c) \/ FetchAnswered(c) \/ ClientStep(c)
          PROVE  UNCHANGED socketVars
      BY <2>5 DEF SwitchTo, FetchAnswered, ClientStep, ImportsReady, TimerFires, PageRestores,
                  proxyVars, socketVars
    <2>6. ASSUME NEW k \in Conns, ConnStep(k) \/ RefetchAnswered(k) \/ Drop(k)
          PROVE  UNCHANGED socketVars
      BY <2>6 DEF ConnStep, OnOpen, OnMessage, OnClose, PushSnapshot, ReconnectRestores,
                  RefetchAnswered, Drop, proxyVars, socketVars
    <2>7. ASSUME Leave \/ PanePrints
          PROVE  UNCHANGED socketVars
      BY <2>7 DEF Leave, PanePrints
    <2> QED
      BY <2>1, <2>2, <2>3, <2>4, <2>5, <2>6, <2>7 DEF ClientNext
  <1> QED
    BY <1>1, BridgeInit, PTL DEF ClientSpec

\* When one of the two sockets of a connection is closed so is the other,
\* whichever side or outage ended it, on any number of connections.
THEOREM HalvesDieTogether == ClientSpec => []BridgeWhole
  <1>1. BridgeIInv => BridgeWhole
    BY DEF BridgeIInv
  <1> QED
    BY <1>1, BridgeInvariance, PTL

\* What is typed reaches the broker once and in order, what was typed while the
\* proxy was connecting included.
THEOREM KeysArriveInOrder == ClientSpec => []KeysInOrder
  <1>1. BridgeIInv => KeysInOrder
    BY DEF BridgeIInv
  <1> QED
    BY <1>1, BridgeInvariance, PTL

----------------------------------------------------------------------------
(* The instance *)

Frames == [kind : {"output", "snapshot", "error"}, shows : Nat]

DownOK == down \in [Conns -> Seq(Frames)] /\ printed \in Nat

\* An instance has its fields; what its socket and its attempts are is not said.
ThisOK(this) ==
    this \in [disposed : BOOLEAN, terminal : BOOLEAN, painted : BOOLEAN,
              pendingFrames : Seq(Frames), attempts : {this.attempts}, timer : BOOLEAN,
              ws : {this.ws}]

\* What an instance holds back, has written and has received agree.
BufferOK(this, sent, got) ==
    /\ ThisOK(this) /\ sent \in Seq(Frames) /\ got \in Seq(Frames)
    /\ ~this.disposed => /\ sent \o this.pendingFrames = got
                         /\ this.painted => this.pendingFrames = <<>>

InstancesOK ==
    /\ self = [c \in Clients |-> self[c]]
    /\ screen = [c \in Clients |-> screen[c]]
    /\ written = [c \in Clients |-> written[c]]
    /\ received = [c \in Clients |-> received[c]]
    /\ \A c \in Clients : BufferOK(self[c], written[c], received[c])

FrameIInv == DownOK /\ InstancesOK

LEMMA NoFrames ==
    <<>> \in Seq(Frames) /\ \A s \in Seq(Frames) : s \o <<>> = s /\ <<>> \o s = s
  OBVIOUS

LEMMA FrameInit == ClientInit => FrameIInv
  <1> SUFFICES ASSUME ClientInit PROVE FrameIInv
    OBVIOUS
  <1>1. DownOK
    BY NoFrames DEF ClientInit, ProxyInit, DownOK
  <1>2. BufferOK(Fresh, <<>>, <<>>)
    <2>1. ThisOK(Fresh)
      BY NoFrames DEF ThisOK, Fresh
    <2>2. Fresh.pendingFrames = <<>>
      BY DEF Fresh
    <2> QED
      BY <2>1, <2>2, NoFrames DEF BufferOK
  <1>3. InstancesOK
    BY <1>2 DEF ClientInit, InstancesOK
  <1> QED
    BY <1>1, <1>3 DEF FrameIInv

\* A step of one instance; the screen may become what it will.
LEMMA OneInstance ==
    ASSUME FrameIInv, DownOK', NEW c,
           self' = [d \in Clients |-> self'[d]],
           screen' = [d \in Clients |-> screen'[d]],
           written' = [d \in Clients |-> written'[d]],
           received' = [d \in Clients |-> received'[d]],
           \A d \in Clients \ {c} : /\ self'[d] = self[d]
                                    /\ written'[d] = written[d] /\ received'[d] = received[d],
           c \in Clients => BufferOK(self'[c], written'[c], received'[c])
    PROVE  FrameIInv'
  <1>1. \A d \in Clients : BufferOK(self'[d], written'[d], received'[d])
    <2> TAKE d \in Clients
    <2>1. CASE d = c
      BY <2>1
    <2>2. CASE d # c
      BY <2>2 DEF FrameIInv, InstancesOK
    <2> QED
      BY <2>1, <2>2
  <1>2. \A d \in Clients : BufferOK(self[d], written[d], received[d])'
    BY <1>1 DEF BufferOK, ThisOK
  <1> QED
    BY <1>2 DEF FrameIInv, InstancesOK

LEMMA NothingInstance ==
    ASSUME FrameIInv, DownOK', UNCHANGED <<self, screen, written, received>>
    PROVE  FrameIInv'
  BY DEF FrameIInv, InstancesOK, BufferOK, ThisOK

\* A new connection starts with nothing received, written or held back.
LEMMA OpenInstance ==
    ASSUME FrameIInv, DownOK', NEW c \in Clients, NEW this, OpenWebSocket(c, this),
           ThisOK(this), UNCHANGED screen
    PROVE  FrameIInv'
  <1> DEFINE opened == [this EXCEPT !.painted = FALSE, !.pendingFrames = <<>>, !.ws = NextConn]
  <1>1. /\ self' = [self EXCEPT ![c] = opened]
        /\ received' = [received EXCEPT ![c] = <<>>] /\ written' = [written EXCEPT ![c] = <<>>]
    BY DEF OpenWebSocket
  <1>2. BufferOK(opened, <<>>, <<>>)
    <2>1. ThisOK(opened) /\ opened.pendingFrames = <<>>
      BY NoFrames DEF ThisOK
    <2> HIDE DEF opened
    <2> QED
      BY <2>1, NoFrames DEF BufferOK
  <1> HIDE DEF opened
  <1> QED
    BY <1>1, <1>2, OneInstance DEF FrameIInv, InstancesOK

\* A repaint writes what was held back, in order.
LEMMA PaintInstance ==
    ASSUME FrameIInv, DownOK', NEW c, NEW n, RestoreSnapshot(c, n), UNCHANGED received
    PROVE  FrameIInv'
  <1>0. InstancesOK
    BY DEF FrameIInv
  <1>1. CASE self[c].disposed
    BY <1>1, NothingInstance DEF RestoreSnapshot
  <1>2. CASE ~self[c].disposed
    <2>1. /\ self' = [self EXCEPT ![c].painted = TRUE, ![c].pendingFrames = <<>>]
          /\ written' = [written EXCEPT ![c] = written[c] \o self[c].pendingFrames]
          /\ screen' = [d \in Clients |-> screen'[d]]
      BY <1>0, <1>2 DEF RestoreSnapshot, Paint, InstancesOK
    <2>2. /\ self' = [d \in Clients |-> self'[d]]
          /\ written' = [d \in Clients |-> written'[d]]
          /\ \A d \in Clients \ {c} : self'[d] = self[d] /\ written'[d] = written[d]
      BY <1>0, <2>1 DEF InstancesOK
    <2>3. ASSUME c \in Clients
          PROVE  BufferOK(self'[c], written'[c], received'[c])
      <3>1. BufferOK(self[c], written[c], received[c])
        BY <1>0, <2>3 DEF InstancesOK
      <3>2. written'[c] = received[c] /\ received[c] \in Seq(Frames)
        BY <1>0, <1>2, <2>1, <2>3, <3>1 DEF InstancesOK, BufferOK
      <3>3. ThisOK(self'[c]) /\ self'[c].pendingFrames = <<>>
        <4>1. ThisOK(self[c])
          BY <3>1 DEF BufferOK
        <4>2. self'[c] = [self[c] EXCEPT !.painted = TRUE, !.pendingFrames = <<>>]
          BY <1>0, <2>1, <2>3 DEF InstancesOK
        <4> QED
          BY <4>1, <4>2, NoFrames DEF ThisOK
      <3> QED
        BY <3>2, <3>3, NoFrames DEF BufferOK
    <2> QED
      BY <1>0, <2>1, <2>2, <2>3, OneInstance DEF InstancesOK
  <1> QED
    BY <1>1, <1>2

\* ws.onmessage: a frame is held back, or written at once.
LEMMA MessageInstance ==
    ASSUME FrameIInv, DownOK', NEW c, NEW frame \in Frames, HandleServerFrame(c, frame),
           ~self[c].disposed
    PROVE  FrameIInv'
  <1>0. InstancesOK
    BY DEF FrameIInv
  <1>1. CASE frame.kind = "snapshot"
    BY <1>1, PaintInstance DEF HandleServerFrame
  <1>2. CASE frame.kind # "snapshot" /\ ~self[c].painted
    <2>1. /\ self' = [self EXCEPT ![c].pendingFrames = Append(self[c].pendingFrames, frame)]
          /\ received' = [received EXCEPT ![c] = Append(received[c], frame)]
          /\ UNCHANGED <<screen, written>>
      BY <1>2 DEF HandleServerFrame
    <2>2. /\ self' = [d \in Clients |-> self'[d]]
          /\ received' = [d \in Clients |-> received'[d]]
          /\ \A d \in Clients \ {c} : self'[d] = self[d] /\ received'[d] = received[d]
      BY <1>0, <2>1 DEF InstancesOK
    <2>3. ASSUME c \in Clients
          PROVE  BufferOK(self'[c], written'[c], received'[c])
      <3>1. BufferOK(self[c], written[c], received[c])
        BY <1>0, <2>3 DEF InstancesOK
      <3>2. PICK sent, held : /\ sent = written[c] /\ held = self[c].pendingFrames
                              /\ sent \in Seq(Frames) /\ held \in Seq(Frames)
                              /\ sent \o held = received[c]
        BY <3>1 DEF BufferOK, ThisOK
      <3>3. Append(sent \o held, frame) = sent \o Append(held, frame)
            /\ Append(held, frame) \in Seq(Frames) /\ Append(sent \o held, frame) \in Seq(Frames)
        <4>1. sent \in Seq(Frames) /\ held \in Seq(Frames)
          BY <3>2
        <4> QED
          BY <4>1
      <3>4. /\ self'[c] = [self[c] EXCEPT !.pendingFrames = Append(held, frame)]
            /\ received'[c] = Append(sent \o held, frame) /\ written'[c] = sent
        BY <1>0, <2>1, <2>3, <3>2 DEF InstancesOK
      <3>5. /\ ThisOK(self'[c]) /\ self'[c].pendingFrames = Append(held, frame)
            /\ self'[c].painted = self[c].painted
        BY <3>1, <3>3, <3>4 DEF BufferOK, ThisOK
      <3> QED
        BY <1>2, <3>2, <3>3, <3>4, <3>5 DEF BufferOK
    <2> QED
      BY <1>0, <2>1, <2>2, <2>3, OneInstance DEF InstancesOK
  <1>3. CASE frame.kind # "snapshot" /\ self[c].painted
    <2>1. /\ screen' = [d \in Clients |-> screen'[d]]
          /\ written' = [written EXCEPT ![c] = Append(written[c], frame)]
          /\ received' = [received EXCEPT ![c] = Append(received[c], frame)]
          /\ UNCHANGED self
      BY <1>0, <1>3 DEF HandleServerFrame, InstancesOK
    <2>2. /\ written' = [d \in Clients |-> written'[d]]
          /\ received' = [d \in Clients |-> received'[d]]
          /\ \A d \in Clients \ {c} : written'[d] = written[d] /\ received'[d] = received[d]
      BY <1>0, <2>1 DEF InstancesOK
    <2>3. ASSUME c \in Clients
          PROVE  BufferOK(self'[c], written'[c], received'[c])
      <3>1. BufferOK(self[c], written[c], received[c])
        BY <1>0, <2>3 DEF InstancesOK
      <3>2. self[c].pendingFrames = <<>> /\ written[c] = received[c]
            /\ written[c] \in Seq(Frames)
        BY <1>3, <3>1, NoFrames DEF BufferOK
      <3>3. written'[c] = Append(written[c], frame) /\ received'[c] = Append(written[c], frame)
        BY <1>0, <2>1, <2>3, <3>2 DEF InstancesOK
      <3>4. Append(written[c], frame) \in Seq(Frames)
        BY <3>2
      <3> QED
        BY <2>1, <3>1, <3>2, <3>3, <3>4, NoFrames DEF BufferOK
    <2> QED
      BY <1>0, <2>1, <2>2, <2>3, OneInstance DEF InstancesOK
  <1> QED
    BY <1>1, <1>2, <1>3

\* A change of the timer and of the attempts.
LEMMA OtherInstance ==
    ASSUME FrameIInv, DownOK', NEW c, UNCHANGED <<screen, written, received>>,
           \/ ScheduleReconnect(c)
           \/ self' = [self EXCEPT ![c].attempts = 0]
    PROVE  FrameIInv'
  <1>0. InstancesOK
    BY DEF FrameIInv
  <1>1. CASE UNCHANGED self
    BY <1>1, NothingInstance
  <1>2. CASE \/ self' = [self EXCEPT ![c].attempts = self[c].attempts + 1, ![c].timer = TRUE]
             \/ self' = [self EXCEPT ![c].attempts = 0]
    <2>1. /\ self' = [d \in Clients |-> self'[d]]
          /\ \A d \in Clients \ {c} : self'[d] = self[d]
      BY <1>0, <1>2 DEF InstancesOK
    <2>2. ASSUME c \in Clients
          PROVE  BufferOK(self'[c], written[c], received[c])
      <3>1. BufferOK(self[c], written[c], received[c])
        BY <1>0, <2>2 DEF InstancesOK
      <3>2. \/ self'[c] = [self[c] EXCEPT !.attempts = self[c].attempts + 1, !.timer = TRUE]
            \/ self'[c] = [self[c] EXCEPT !.attempts = 0]
        BY <1>0, <1>2, <2>2 DEF InstancesOK
      <3>3. /\ ThisOK(self'[c]) /\ self'[c].pendingFrames = self[c].pendingFrames
            /\ self'[c].painted = self[c].painted /\ self'[c].disposed = self[c].disposed
        <4>1. ThisOK(self[c])
          BY <3>1 DEF BufferOK
        <4> QED
          BY <3>2, <4>1 DEF ThisOK
      <3> QED
        BY <3>1, <3>3 DEF BufferOK
    <2> QED
      BY <1>0, <2>1, <2>2, OneInstance DEF InstancesOK
  <1> QED
    BY <1>1, <1>2 DEF ScheduleReconnect

\* The page leaves an instance, which is disposed.
LEMMA LeaveInstance ==
    ASSUME FrameIInv, DownOK', Leave
    PROVE  FrameIInv'
  <1>0. InstancesOK
    BY DEF FrameIInv
  <1>1. /\ self' = [self EXCEPT ![page] = Disposed(self[page])] /\ UNCHANGED screen
        /\ received' = [received EXCEPT ![page] = <<>>]
        /\ written' = [written EXCEPT ![page] = <<>>]
    BY DEF Leave, Dispose
  <1>2. /\ self' = [d \in Clients |-> self'[d]]
        /\ received' = [d \in Clients |-> received'[d]]
        /\ written' = [d \in Clients |-> written'[d]]
        /\ screen' = [d \in Clients |-> screen'[d]]
        /\ \A d \in Clients \ {page} : /\ self'[d] = self[d] /\ received'[d] = received[d]
                                       /\ written'[d] = written[d]
    BY <1>0, <1>1 DEF InstancesOK
  <1>3. ASSUME page \in Clients
        PROVE  BufferOK(self'[page], written'[page], received'[page])
    <2>1. ThisOK(self[page])
      BY <1>0, <1>3 DEF InstancesOK, BufferOK
    <2>2. self'[page] = Disposed(self[page]) /\ received'[page] = <<>> /\ written'[page] = <<>>
      BY <1>0, <1>1, <1>3 DEF InstancesOK
    <2>3. ThisOK(self'[page]) /\ self'[page].disposed
      BY <2>1, <2>2, NoFrames DEF ThisOK, Disposed
    <2> QED
      BY <2>2, <2>3, NoFrames DEF BufferOK
  <1> QED
    BY <1>2, <1>3, OneInstance

\* The frames on their way are frames.
LEMMA DownStep ==
    ASSUME DownOK, [ClientNext]_clientVars
    PROVE  DownOK'
  <1> USE DEF DownOK
  <1>1. ASSUME UNCHANGED <<down, printed>> PROVE DownOK'
    BY <1>1
  <1>2. \A n \in Nat : Output(n) \in Frames /\ Snapshot(n) \in Frames /\ Error \in Frames
    BY DEF Output, Snapshot, Error, Frames
  <1>3. ASSUME NEW on, NEW frame \in Frames, Forward(on, frame), printed' \in Nat
        PROVE  DownOK'
    <2>1. \A k \in Conns : Append(down[k], frame) \in Seq(Frames)
      OBVIOUS
    <2> QED
      BY <1>3, <2>1 DEF Forward
  <1>4. ASSUME NEW k \in Conns, OnMessage(k) PROVE DownOK'
    <2>1. down' = [down EXCEPT ![k] = Tail(down[k])] /\ down[k] # <<>> /\ printed' = printed
      BY <1>4 DEF OnMessage, worldVars
    <2>2. Tail(down[k]) \in Seq(Frames)
      BY <2>1
    <2> QED
      BY <2>1, <2>2
  <1>5. ASSUME NEW k \in Conns, PushSnapshot(k) PROVE DownOK'
    BY <1>2, <1>3, <1>5 DEF PushSnapshot
  <1>6. CASE PanePrints
    <2>1. Forward(Subscribed, Output(printed + 1)) /\ printed' = printed + 1
      BY <1>6 DEF PanePrints
    <2>2. printed + 1 \in Nat
      OBVIOUS
    <2> QED
      BY <1>2, <1>3, <2>1, <2>2
  <1>7. ASSUME \A k \in Conns : down'[k] = down[k] \/ down'[k] = <<>>,
               down' = [k \in Conns |-> down'[k]], printed' = printed
        PROVE  DownOK'
    BY <1>7, NoFrames
  <1>8. ASSUME NEW k \in Conns, Drop(k) PROVE DownOK'
    BY <1>7, <1>8 DEF Drop
  <1>9. CASE Leave
    BY <1>7, <1>9 DEF Leave, Dispose, worldVars
  <1>10. ASSUME NEW c \in Clients,
                SwitchTo(c) \/ SendInput(c) \/ FetchAnswered(c) \/ ClientStep(c)
         PROVE  UNCHANGED <<down, printed>>
    BY <1>10 DEF SwitchTo, SendInput, ClientMessage, FetchAnswered, ClientStep, ImportsReady,
                 TimerFires, PageRestores, proxyVars, worldVars
  <1>11. ASSUME NEW k \in Conns,
                \/ Bridge(k) \/ RefetchAnswered(k) \/ OnOpen(k) \/ OnClose(k)
                \/ ReconnectRestores(k)
         PROVE  UNCHANGED <<down, printed>>
    BY <1>11 DEF Bridge, ProxyStep, HandleUpgrade, UpstreamOpens, UpstreamCloses, ClientCloses,
                 RefetchAnswered, OnOpen, OnClose, ReconnectRestores, proxyVars, worldVars
  <1>12. CASE BrokerStep
    BY <1>1, <1>12 DEF BrokerStep, BrokerStops, BrokerStarts, worldVars
  <1>13. CASE UNCHANGED clientVars
    BY <1>1, <1>13 DEF clientVars, proxyVars, worldVars
  <1> QED
    BY <1>1, <1>4, <1>5, <1>6, <1>8, <1>9, <1>10, <1>11, <1>12, <1>13 DEF ClientNext, ConnStep

LEMMA FrameStep == FrameIInv /\ [ClientNext]_clientVars => FrameIInv'
  <1> SUFFICES ASSUME FrameIInv, [ClientNext]_clientVars PROVE FrameIInv'
    OBVIOUS
  <1>0. DownOK' /\ InstancesOK /\ DownOK
    BY DownStep DEF FrameIInv
  <1>1. ASSUME NEW c \in Clients, ImportsReady(c) \/ TimerFires(c) PROVE FrameIInv'
    <2>1. ThisOK(self[c])
      BY <1>0 DEF InstancesOK, BufferOK
    <2>2. ThisOK([self[c] EXCEPT !.terminal = TRUE]) /\ ThisOK([self[c] EXCEPT !.timer = FALSE])
      BY <2>1 DEF ThisOK
    <2>3. CASE ImportsReady(c)
      BY <1>0, <2>2, <2>3, OpenInstance DEF ImportsReady
    <2>4. CASE TimerFires(c)
      BY <1>0, <2>2, <2>4, OpenInstance DEF TimerFires
    <2> QED
      BY <1>1, <2>3, <2>4
  <1>2. ASSUME NEW c \in Clients, PageRestores(c) PROVE FrameIInv'
    BY <1>0, <1>2, PaintInstance DEF PageRestores
  <1>3. ASSUME NEW k \in Conns, ReconnectRestores(k) PROVE FrameIInv'
    BY <1>0, <1>3, PaintInstance DEF ReconnectRestores
  <1>4. ASSUME NEW k \in Conns, OnMessage(k) PROVE FrameIInv'
    <2>1. CASE self[owner[k]].disposed
      BY <1>0, <1>4, <2>1, NothingInstance DEF OnMessage, clientOnly
    <2>2. CASE ~self[owner[k]].disposed
      <3>1. HandleServerFrame(owner[k], Head(down[k])) /\ down[k] # <<>>
        BY <1>4, <2>2 DEF OnMessage
      <3>2. Head(down[k]) \in Frames
        BY <1>0, <3>1 DEF DownOK
      <3> QED
        BY <1>0, <2>2, <3>1, <3>2, MessageInstance
    <2> QED
      BY <2>1, <2>2
  <1>5. ASSUME NEW k \in Conns, OnOpen(k) \/ OnClose(k) \/ Drop(k) PROVE FrameIInv'
    <2>1. CASE OnOpen(k)
      <3>1. UNCHANGED <<screen, written, received>>
            /\ (UNCHANGED self \/ self' = [self EXCEPT ![owner[k]].attempts = 0])
        BY <2>1 DEF OnOpen
      <3> QED
        BY <1>0, <3>1, NothingInstance, OtherInstance
    <2>2. CASE OnClose(k) \/ Drop(k)
      BY <1>0, <2>2, OtherInstance DEF OnClose, Drop
    <2> QED
      BY <1>5, <2>1, <2>2
  <1>6. CASE Leave
    BY <1>0, <1>6, LeaveInstance
  <1>7. ASSUME UNCHANGED <<self, screen, written, received>> PROVE FrameIInv'
    BY <1>0, <1>7, NothingInstance
  <1>8. ASSUME NEW c \in Clients, SwitchTo(c) \/ SendInput(c) \/ FetchAnswered(c)
        PROVE  FrameIInv'
    BY <1>7, <1>8 DEF SwitchTo, SendInput, FetchAnswered, clientOnly
  <1>9. ASSUME NEW k \in Conns, Bridge(k) \/ PushSnapshot(k) \/ RefetchAnswered(k)
        PROVE  FrameIInv'
    BY <1>7, <1>9 DEF Bridge, PushSnapshot, RefetchAnswered, clientOnly
  <1>10. CASE PanePrints \/ BrokerStep \/ UNCHANGED clientVars
    BY <1>7, <1>10 DEF PanePrints, BrokerStep, clientVars, clientOnly
  <1> QED
    BY <1>1, <1>2, <1>3, <1>4, <1>5, <1>6, <1>8, <1>9, <1>10 DEF ClientNext, ClientStep, ConnStep

LEMMA FrameInvariance == ClientSpec => []FrameIInv
  BY FrameInit, FrameStep, PTL DEF ClientSpec

\* The buffer of a connection neither loses nor reorders frames, whichever of
\* the repaints comes first, over any number of reconnects.
THEOREM BufferInOrder == ClientSpec => []FramesInOrder
  <1>1. FrameIInv => FramesInOrder
    BY DEF FrameIInv, InstancesOK, BufferOK, FramesInOrder
  <1> QED
    BY <1>1, FrameInvariance, PTL

\* A disposed instance never paints: not when a fetch answers late, not when a
\* frame comes in, not even when it was disposed before it had a terminal.
THEOREM DisposedNeverPaints == ClientSpec => DisposedStaysBlank
  <1>1. ASSUME FrameIInv, [ClientNext]_clientVars, NEW c \in Clients, self[c].disposed
        PROVE  screen'[c] = screen[c]
    <2>0. InstancesOK
      BY <1>1 DEF FrameIInv
    <2>1. ASSUME NEW d, NEW n, RestoreSnapshot(d, n) PROVE screen'[c] = screen[c]
      BY <1>1, <2>0, <2>1 DEF RestoreSnapshot, Paint, InstancesOK
    <2>2. ASSUME NEW k \in Conns, OnMessage(k) PROVE screen'[c] = screen[c]
      <3>1. CASE self[owner[k]].disposed
        BY <2>2, <3>1 DEF OnMessage, clientOnly
      <3>2. CASE ~self[owner[k]].disposed
        <4>1. HandleServerFrame(owner[k], Head(down[k])) /\ owner[k] # c
          BY <1>1, <2>2, <3>2 DEF OnMessage
        <4> QED
          BY <2>0, <2>1, <4>1 DEF HandleServerFrame, InstancesOK
      <3> QED
        BY <3>1, <3>2
    <2>3. ASSUME NEW d \in Clients, PageRestores(d) PROVE screen'[c] = screen[c]
      BY <2>1, <2>3 DEF PageRestores
    <2>4. ASSUME NEW k \in Conns, ReconnectRestores(k) PROVE screen'[c] = screen[c]
      BY <2>1, <2>4 DEF ReconnectRestores
    <2>5. ASSUME NEW d \in Clients,
                 \/ SwitchTo(d) \/ SendInput(d) \/ FetchAnswered(d) \/ ImportsReady(d)
                 \/ TimerFires(d)
          PROVE  screen' = screen
      BY <2>5 DEF SwitchTo, SendInput, FetchAnswered, ImportsReady, TimerFires, clientOnly
    <2>6. ASSUME NEW k \in Conns,
                 \/ Bridge(k) \/ OnOpen(k) \/ OnClose(k) \/ PushSnapshot(k)
                 \/ RefetchAnswered(k) \/ Drop(k)
          PROVE  screen' = screen
      BY <2>6 DEF Bridge, OnOpen, OnClose, PushSnapshot, RefetchAnswered, Drop, clientOnly
    <2>7. ASSUME Leave \/ PanePrints \/ BrokerStep \/ UNCHANGED clientVars
          PROVE  screen' = screen
      BY <2>7 DEF Leave, PanePrints, BrokerStep, clientVars, clientOnly
    <2> QED
      BY <1>1, <2>2, <2>3, <2>4, <2>5, <2>6, <2>7 DEF ClientNext, ClientStep, ConnStep
  <1>2. FrameIInv /\ [ClientNext]_clientVars
            => [\A c \in Clients : self[c].disposed => screen'[c] = screen[c]]_clientVars
    BY <1>1
  <1> QED
    BY <1>2, FrameInvariance, PTL DEF ClientSpec, DisposedStaysBlank
============================================================================
