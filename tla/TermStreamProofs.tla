-------------------------- MODULE TermStreamProofs --------------------------
(***************************************************************************)
(* Proofs about ControlModeAttach and TermStream: one pty master at most,  *)
(* an attach loop that is never silently dead, subscriptions that match    *)
(* the connections, output in order and once, and no gap after a snapshot. *)
(***************************************************************************)
EXTENDS TermStream, TLAPS

----------------------------------------------------------------------------
(* The attach loop                                                         *)

AttachTypeOK ==
    /\ child \in [Ptys -> ChildStates] /\ proc \in Ptys \cup {NoPty}
    /\ reconnectTimer \in BOOLEAN /\ stopped \in BOOLEAN /\ started \in BOOLEAN
    /\ failedAttempts \in Nat

\* Until it is stopped the loop has no client but the one it holds, so the
\* exit it handles is that client's.
OnlyItsOwnClient ==
    /\ ~started => proc = NoPty /\ ~reconnectTimer
    /\ ~stopped => \A p \in Ptys : child[p] # "free" => proc = p

AttachIInv ==
    AttachTypeOK /\ OnlyItsOwnClient /\ NoLeakedMaster /\ AttachedOrReconnecting

LEMMA AttachInitHolds == AttachInit => AttachIInv
<1> SUFFICES ASSUME AttachInit PROVE AttachIInv
  OBVIOUS
<1>1. AttachTypeOK
  BY DEF AttachInit, AttachTypeOK, ChildStates
<1>2. OnlyItsOwnClient /\ NoLeakedMaster /\ AttachedOrReconnecting
  BY DEF AttachInit, OnlyItsOwnClient, NoLeakedMaster, AttachedOrReconnecting
<1> QED BY <1>1, <1>2 DEF AttachIInv

\* scheduleReconnect after the loop has let its client go.
LEMMA ReconnectArms ==
    ASSUME NEW timer \in BOOLEAN, stopped \in BOOLEAN, failedAttempts \in Nat,
           ScheduleReconnect(timer)
    PROVE  /\ reconnectTimer' \in BOOLEAN /\ stopped' \in BOOLEAN /\ failedAttempts' \in Nat
           /\ stopped => stopped'
           /\ ~stopped' => reconnectTimer'
<1>1. CASE stopped
  BY <1>1 DEF ScheduleReconnect
<1>2. CASE ~stopped
  <2>1. /\ failedAttempts' = failedAttempts + 1
        /\ stopped' = (failedAttempts' >= MaxAttempts)
        /\ reconnectTimer' = (timer \/ ~stopped')
    BY <1>2 DEF ScheduleReconnect
  <2>2. failedAttempts' \in Nat
    BY <2>1
  <2>3. stopped' \in BOOLEAN
    BY <2>1, <2>2, AttachAssumption
  <2> QED BY <1>2, <2>1, <2>2, <2>3
<1> QED BY <1>1, <1>2

LEMMA SpawnHolds ==
    ASSUME AttachIInv, Spawn, ~stopped, proc = NoPty, started' = TRUE
    PROVE  AttachIInv'
<1> USE AttachAssumption DEF AttachIInv
<1>1. \A p \in Ptys : child[p] = "free"
  BY DEF OnlyItsOwnClient, AttachTypeOK
<1>2. ASSUME NEW p \in Ptys, child' = [child EXCEPT ![p] = "starting"],
             masters' = (masters \ {proc}) \cup {p}, proc' = p,
             reconnectTimer' = FALSE, UNCHANGED <<failedAttempts, stopped>>
      PROVE  AttachIInv'
  BY <1>1, <1>2 DEF AttachTypeOK, OnlyItsOwnClient, NoLeakedMaster,
                    AttachedOrReconnecting, ChildStates
<1>3. ASSUME masters' = masters \ {proc}, proc' = NoPty, ScheduleReconnect(FALSE),
             UNCHANGED child
      PROVE  AttachIInv'
  <2>1. reconnectTimer' \in BOOLEAN /\ stopped' \in BOOLEAN /\ failedAttempts' \in Nat
        /\ (~stopped' => reconnectTimer')
    BY <1>3, ReconnectArms DEF AttachTypeOK
  <2> QED BY <1>1, <1>3, <2>1 DEF AttachTypeOK, OnlyItsOwnClient, NoLeakedMaster,
                                  AttachedOrReconnecting
<1> QED BY <1>2, <1>3 DEF Spawn

LEMMA AttachStepHolds == AttachIInv /\ [AttachNext]_attachVars => AttachIInv'
<1> SUFFICES ASSUME AttachIInv, [AttachNext]_attachVars PROVE AttachIInv'
  OBVIOUS
<1> USE AttachAssumption
<1>1. CASE Start
  BY <1>1, SpawnHolds DEF Start, AttachIInv, OnlyItsOwnClient
<1>2. CASE Stop
  BY <1>2 DEF Stop, AttachIInv, AttachTypeOK, OnlyItsOwnClient, NoLeakedMaster,
              AttachedOrReconnecting
<1>3. CASE TimerFires
  <2>1. CASE stopped
    BY <1>3, <2>1 DEF TimerFires, AttachIInv, AttachTypeOK, OnlyItsOwnClient,
                      NoLeakedMaster, AttachedOrReconnecting
  <2>2. CASE ~stopped
    <3>1. Spawn /\ started /\ UNCHANGED started /\ proc = NoPty
      BY <1>3, <2>2 DEF TimerFires, AttachIInv, AttachTypeOK, OnlyItsOwnClient,
                        AttachedOrReconnecting
    <3>2. started' = TRUE
      BY <3>1 DEF AttachIInv, AttachTypeOK
    <3> QED BY <2>2, <3>1, <3>2, SpawnHolds
  <2> QED BY <2>1, <2>2
<1>4. ASSUME NEW p \in Ptys, ClientPrints(p) \/ ClientExits(p) PROVE AttachIInv'
  <2>1. UNCHANGED <<proc, masters, reconnectTimer, stopped, started>>
        /\ failedAttempts' \in Nat
    BY <1>4 DEF ClientPrints, ClientExits, AttachIInv, AttachTypeOK
  <2>2. child' \in [Ptys -> ChildStates]
    BY <1>4 DEF ClientPrints, ClientExits, AttachIInv, AttachTypeOK, ChildStates
  <2>3. \A q \in Ptys : child'[q] # "free" => child[q] # "free"
    BY <1>4 DEF ClientPrints, ClientExits, AttachIInv, AttachTypeOK
  <2> QED BY <2>1, <2>2, <2>3 DEF AttachIInv, AttachTypeOK, OnlyItsOwnClient,
                                  NoLeakedMaster, AttachedOrReconnecting
<1>5. ASSUME NEW p \in Ptys, OnExit(p) PROVE AttachIInv'
  <2>1. /\ reconnectTimer' \in BOOLEAN /\ stopped' \in BOOLEAN /\ failedAttempts' \in Nat
        /\ stopped => stopped'
        /\ ~stopped' => reconnectTimer'
    BY <1>5, ReconnectArms DEF OnExit, AttachIInv, AttachTypeOK
  <2>2. /\ child' \in [Ptys -> ChildStates] /\ UNCHANGED started
        /\ \A q \in Ptys : child'[q] # "free" => q # p /\ child[q] # "free"
    BY <1>5 DEF OnExit, AttachIInv, AttachTypeOK, ChildStates
  <2>3. CASE proc = p
    <3>1. masters' = masters \ {p} /\ proc' = NoPty
      BY <1>5, <2>3 DEF OnExit
    <3>2. ~stopped => started
      BY <2>3 DEF AttachIInv, OnlyItsOwnClient
    <3> QED BY <2>1, <2>2, <2>3, <3>1, <3>2
            DEF AttachIInv, AttachTypeOK, OnlyItsOwnClient, NoLeakedMaster,
                AttachedOrReconnecting
  <2>4. CASE proc # p
    <3>1. UNCHANGED <<masters, proc>> /\ stopped
      BY <1>5, <2>4 DEF OnExit, AttachIInv, OnlyItsOwnClient
    <3>2. stopped' /\ reconnectTimer' = reconnectTimer
      BY <1>5, <3>1 DEF OnExit, ScheduleReconnect
    <3> QED BY <2>1, <2>2, <3>1, <3>2
            DEF AttachIInv, AttachTypeOK, OnlyItsOwnClient, NoLeakedMaster,
                AttachedOrReconnecting
  <2> QED BY <2>3, <2>4
<1>6. CASE SessionGone
  <2>1. UNCHANGED <<proc, masters, reconnectTimer, failedAttempts, stopped, started>>
        /\ child' \in [Ptys -> ChildStates]
        /\ \A q \in Ptys : child'[q] # "free" => child[q] # "free"
    BY <1>6 DEF SessionGone, AttachIInv, AttachTypeOK, ChildStates
  <2> QED BY <2>1 DEF AttachIInv, AttachTypeOK, OnlyItsOwnClient, NoLeakedMaster,
                      AttachedOrReconnecting
<1>7. CASE SessionBack \/ UNCHANGED attachVars
  BY <1>7 DEF SessionBack, attachVars, AttachIInv, AttachTypeOK, OnlyItsOwnClient,
              NoLeakedMaster, AttachedOrReconnecting
<1> QED
  BY <1>1, <1>2, <1>3, <1>4, <1>5, <1>6, <1>7 DEF AttachNext

\* The broker holds at most the pty master of its current attach, whatever the
\* order of spawns, exits, refusals and shutdown (spawn, onExit, stop).
THEOREM OneMaster == AttachSpec => []NoLeakedMaster
<1>1. AttachIInv => NoLeakedMaster
  BY DEF AttachIInv
<1> QED BY <1>1, AttachInitHolds, AttachStepHolds, PTL DEF AttachSpec

\* A loop that was started and neither stopped nor gave up holds a client or
\* has a reconnect scheduled, and never both (start, onExit,
\* scheduleReconnect).
THEOREM LoopAlive == AttachSpec => []AttachedOrReconnecting
<1>1. AttachIInv => AttachedOrReconnecting
  BY DEF AttachIInv
<1> QED BY <1>1, AttachInitHolds, AttachStepHolds, PTL DEF AttachSpec

----------------------------------------------------------------------------
(* The gateway composed with the loop                                      *)

\* Every step of the composition is a step of the loop or leaves it alone.
LEMMA StreamKeepsAttach == [StreamNext]_streamVars => [AttachNext]_attachVars
<1> USE DEF paneVars, gatewayVars
<1>1. AttachStep => AttachNext
  BY DEF AttachStep, AttachNext
<1>2. SessionEnds \/ ModuleDestroy => AttachNext
  BY DEF SessionEnds, ModuleDestroy, AttachNext
<1>3. PaneStep => UNCHANGED attachVars
  BY DEF PaneStep, WindowOpens, PanePrints, PaneResizes, WindowCloses, Register, Bind, Evict
<1>4. GatewayStep => UNCHANGED attachVars
  BY DEF GatewayStep, ReadLine, CoalesceTimer, Connect, CapturePane, PushSnapshot,
         SocketCloses, HandleDisconnect
<1>5. UNCHANGED streamVars => UNCHANGED attachVars
  BY DEF streamVars
<1> QED BY <1>1, <1>2, <1>3, <1>4, <1>5 DEF StreamNext

\* The gateway, its sockets and the panes only add steps the attach loop does
\* not see, so what holds of the loop alone holds of the broker.
THEOREM StreamRefinesAttach == StreamSpec => AttachSpec
<1>1. StreamInit => AttachInit
  BY DEF StreamInit
<1> QED BY <1>1, StreamKeepsAttach, PTL DEF StreamSpec, AttachSpec

----------------------------------------------------------------------------
(* Subscriptions                                                           *)

SocketStages == {"unused", "open", "closing", "closed"}

SocketsOK ==
    /\ wants \in [Sockets -> Terminals] /\ socket \in [Sockets -> SocketStages]
    /\ subscribers \in [Terminals -> SUBSET Sockets]

SubscriptionIInv == SocketsOK /\ SubscribersMatchConnections

\* The steps that leave the two maps alone.
SocketsStay == UNCHANGED <<socket, wants, subscribers, connections>>

LEMMA NotASocketStep ==
    ASSUME [StreamNext]_streamVars
    PROVE  \/ SocketsStay
           \/ \E s \in Sockets : Connect(s) \/ SocketCloses(s) \/ HandleDisconnect(s)
<1> USE DEF paneVars, gatewayVars, SocketsStay
<1>1. AttachStep \/ SessionEnds \/ ModuleDestroy => SocketsStay
  BY DEF AttachStep, SessionEnds, ModuleDestroy
<1>2. PaneStep => SocketsStay
  BY DEF PaneStep, WindowOpens, PanePrints, PaneResizes, WindowCloses, Register, Bind, Evict
<1>3. ReadLine \/ (\E t \in Terminals : CoalesceTimer(t)) => SocketsStay
  BY DEF ReadLine, CoalesceTimer
<1>4. (\E s \in Sockets : CapturePane(s) \/ PushSnapshot(s)) => SocketsStay
  BY DEF CapturePane, PushSnapshot
<1>5. UNCHANGED streamVars => SocketsStay
  BY DEF streamVars
<1> QED BY <1>1, <1>2, <1>3, <1>4, <1>5 DEF StreamNext, GatewayStep

LEMMA SubscriptionInit == StreamInit => SubscriptionIInv
<1> SUFFICES ASSUME StreamInit PROVE SubscriptionIInv
  OBVIOUS
<1>1. SocketsOK
  BY DEF StreamInit, SocketsOK, SocketStages
<1>2. SubscribersMatchConnections
  BY DEF StreamInit, SubscribersMatchConnections
<1> QED BY <1>1, <1>2 DEF SubscriptionIInv

LEMMA SubscriptionStep ==
    SubscriptionIInv /\ [StreamNext]_streamVars => SubscriptionIInv'
<1> SUFFICES ASSUME SubscriptionIInv, [StreamNext]_streamVars PROVE SubscriptionIInv'
  OBVIOUS
<1> USE DEF SubscriptionIInv
<1>1. CASE SocketsStay
  BY <1>1 DEF SocketsStay, SocketsOK, SubscribersMatchConnections
<1>2. ASSUME NEW s \in Sockets, Connect(s) PROVE SubscriptionIInv'
  <2>1. /\ socket[s] = "unused" /\ socket' = [socket EXCEPT ![s] = "open"]
        /\ subscribers' = [subscribers EXCEPT ![wants[s]] = subscribers[wants[s]] \cup {s}]
        /\ connections' = connections \cup {s} /\ wants' = wants
    BY <1>2 DEF Connect, SocketsOK
  <2>2. SocketsOK'
    BY <2>1 DEF SocketsOK, SocketStages
  <2>3. connections' = {r \in Sockets : socket'[r] \in {"open", "closing"}}
    BY <2>1 DEF SocketsOK, SubscribersMatchConnections
  <2>4. ASSUME NEW t \in Terminals
        PROVE  subscribers'[t] = {r \in connections' : wants'[r] = t}
    BY <2>1 DEF SocketsOK, SubscribersMatchConnections
  <2> QED BY <2>2, <2>3, <2>4 DEF SubscribersMatchConnections
<1>3. ASSUME NEW s \in Sockets, SocketCloses(s) PROVE SubscriptionIInv'
  <2>1. /\ socket[s] = "open" /\ socket' = [socket EXCEPT ![s] = "closing"]
        /\ UNCHANGED <<subscribers, connections, wants>>
    BY <1>3 DEF SocketCloses
  <2>2. SocketsOK'
    BY <2>1 DEF SocketsOK, SocketStages
  <2>3. connections' = {r \in Sockets : socket'[r] \in {"open", "closing"}}
    BY <2>1 DEF SocketsOK, SubscribersMatchConnections
  <2> QED BY <2>1, <2>2, <2>3 DEF SubscribersMatchConnections
<1>4. ASSUME NEW s \in Sockets, HandleDisconnect(s) PROVE SubscriptionIInv'
  <2>1. /\ socket[s] = "closing" /\ socket' = [socket EXCEPT ![s] = "closed"]
        /\ subscribers' = [subscribers EXCEPT ![wants[s]] = subscribers[wants[s]] \ {s}]
        /\ connections' = connections \ {s} /\ wants' = wants
    BY <1>4 DEF HandleDisconnect, SocketsOK
  <2>2. SocketsOK'
    BY <2>1 DEF SocketsOK, SocketStages
  <2>3. connections' = {r \in Sockets : socket'[r] \in {"open", "closing"}}
    BY <2>1 DEF SocketsOK, SubscribersMatchConnections
  <2>4. ASSUME NEW t \in Terminals
        PROVE  subscribers'[t] = {r \in connections' : wants'[r] = t}
    BY <2>1 DEF SocketsOK, SubscribersMatchConnections
  <2> QED BY <2>2, <2>3, <2>4 DEF SubscribersMatchConnections
<1> QED BY <1>1, <1>2, <1>3, <1>4, NotASocketStep

\* The gateway's two maps name the same sockets, each under the terminal of
\* its URL, from the connection to the close event (handleConnection,
\* handleDisconnect).
THEOREM SubscribersMatch == StreamSpec => []SubscribersMatchConnections
<1>1. SubscriptionIInv => SubscribersMatchConnections
  BY DEF SubscriptionIInv
<1> QED BY <1>1, SubscriptionInit, SubscriptionStep, PTL DEF StreamSpec

----------------------------------------------------------------------------
(* Frames and lines                                                        *)

LineKinds == {"output", "window-add", "window-close", "layout-change"}
LineType == [kind : LineKinds, terminal : Terminals, chunk : Nat]
FrameKinds == LineKinds \cup {"snapshot", "error"}
FrameType == [kind : FrameKinds, terminal : Terminals, chunks : Seq(Nat) \cup SUBSET Nat]

CaptureType == [stage : {"none", "running", "failed", "done"}, chunks : SUBSET Nat]

Increasing(chunks) == \A a, b \in DOMAIN chunks : a < b => chunks[a] < chunks[b]
OutputOf(frames) == UNION {ToSet(frames[i].chunks) : i \in OutputFrames(frames)}

LEMMA FrameTyped ==
    ASSUME NEW kind \in FrameKinds, NEW t \in Terminals, NEW chunks \in Seq(Nat) \cup SUBSET Nat
    PROVE  /\ Frame(kind, t, chunks) \in FrameType
           /\ Frame(kind, t, chunks).kind = kind /\ Frame(kind, t, chunks).chunks = chunks
BY DEF Frame, FrameType

LEMMA AppendFrame ==
    ASSUME NEW frames \in Seq(FrameType), NEW f \in FrameType
    PROVE  /\ Append(frames, f) \in Seq(FrameType)
           /\ Len(Append(frames, f)) = Len(frames) + 1
           /\ Append(frames, f)[Len(frames) + 1] = f
           /\ \A i \in DOMAIN frames : Append(frames, f)[i] = frames[i]
           /\ DOMAIN Append(frames, f) = DOMAIN frames \cup {Len(frames) + 1}
           /\ Len(frames) + 1 \notin DOMAIN frames
OBVIOUS

\* A frame that is no output changes nothing that was streamed.
LEMMA AppendOtherFrame ==
    ASSUME NEW frames \in Seq(FrameType), NEW f \in FrameType, f.kind # "output"
    PROVE  /\ OutputOf(Append(frames, f)) = OutputOf(frames)
           /\ InPrintOrder(frames) => InPrintOrder(Append(frames, f))
<1> DEFINE g == Append(frames, f)
<1>1. /\ \A i \in DOMAIN frames : g[i] = frames[i]
      /\ DOMAIN g = DOMAIN frames \cup {Len(frames) + 1} /\ g[Len(frames) + 1] = f
  BY AppendFrame
<1> HIDE DEF g
<1>2. OutputFrames(g) = OutputFrames(frames)
  BY <1>1 DEF OutputFrames
<1>3. \A i \in OutputFrames(frames) : g[i] = frames[i]
  BY <1>1 DEF OutputFrames
<1>4. OutputOf(g) = OutputOf(frames)
  BY <1>2, <1>3 DEF OutputOf
<1>5. InPrintOrder(frames) => InPrintOrder(g)
  BY <1>2, <1>3 DEF InPrintOrder
<1> QED BY <1>4, <1>5 DEF g

\* An output frame adds its chunks, in order if they are and if they were
\* printed after what was streamed before.
LEMMA AppendOutputFrame ==
    ASSUME NEW frames \in Seq(FrameType), NEW f \in FrameType, f.kind = "output"
    PROVE  /\ OutputOf(Append(frames, f)) = OutputOf(frames) \cup ToSet(f.chunks)
           /\ InPrintOrder(frames) /\ Increasing(f.chunks)
              /\ (\A n \in OutputOf(frames), m \in ToSet(f.chunks) : n < m)
              => InPrintOrder(Append(frames, f))
<1> DEFINE g == Append(frames, f)
           k == Len(frames) + 1
<1>1. /\ \A i \in DOMAIN frames : g[i] = frames[i] /\ i < k
      /\ DOMAIN g = DOMAIN frames \cup {k} /\ g[k] = f /\ k \notin DOMAIN frames
      /\ k \in Nat
  BY AppendFrame
<1> HIDE DEF g
<1>2. OutputFrames(g) = OutputFrames(frames) \cup {k} /\ k \notin OutputFrames(frames)
  BY <1>1 DEF OutputFrames
<1>3. \A i \in OutputFrames(frames) : g[i] = frames[i] /\ i < k /\ i \in Nat
  BY <1>1 DEF OutputFrames
<1> HIDE DEF k
<1>4. OutputOf(g) = OutputOf(frames) \cup ToSet(f.chunks)
  BY <1>1, <1>2, <1>3 DEF OutputOf
<1>5. ASSUME InPrintOrder(frames), Increasing(f.chunks),
             \A n \in OutputOf(frames), m \in ToSet(f.chunks) : n < m
      PROVE  InPrintOrder(g)
  <2> SUFFICES ASSUME NEW i \in OutputFrames(g), NEW j \in OutputFrames(g),
                      NEW a \in DOMAIN g[i].chunks, NEW b \in DOMAIN g[j].chunks,
                      i < j \/ (i = j /\ a < b)
               PROVE  g[i].chunks[a] < g[j].chunks[b]
    BY DEF InPrintOrder
  <2>1. CASE i # k /\ j # k
    BY <1>2, <1>3, <1>5, <2>1 DEF InPrintOrder
  <2>2. CASE i # k /\ j = k
    <3>1. g[i].chunks[a] \in OutputOf(frames)
      BY <1>2, <1>3, <2>2 DEF OutputOf, ToSet
    <3>2. g[j].chunks[b] \in ToSet(f.chunks)
      BY <1>1, <2>2 DEF ToSet
    <3> QED BY <1>5, <3>1, <3>2
  <2>3. CASE i = k /\ j = k
    BY <1>1, <1>5, <2>3 DEF Increasing
  <2>4. CASE i = k /\ j # k
    BY <1>1, <1>2, <1>3, <2>4
  <2> QED BY <2>1, <2>2, <2>3, <2>4
<1> QED BY <1>4, <1>5 DEF g, k

\* The lines the pty holds: output lines name chunks their terminal printed, in
\* the order they were printed.
LinesOK ==
    /\ printed \in Seq(Terminals) /\ lines \in Seq(LineType)
    /\ \A i \in DOMAIN lines :
          IF lines[i].kind = "output"
          THEN lines[i].chunk \in DOMAIN printed /\ printed[lines[i].chunk] = lines[i].terminal
          ELSE lines[i].chunk = 0
    /\ \A i, j \in DOMAIN lines :
          i < j /\ lines[i].kind = "output" /\ lines[j].kind = "output"
              => lines[i].chunk < lines[j].chunk

LEMMA UnreadIsOutput ==
    ASSUME LinesOK
    PROVE  \A n : n \in UnreadChunks <=>
               \E i \in DOMAIN lines : lines[i].kind = "output" /\ lines[i].chunk = n
<1>1. 0 \notin DOMAIN printed
  BY DEF LinesOK
<1> QED BY <1>1 DEF LinesOK, UnreadChunks

\* tmux reports something other than output.
LEMMA ReportOther ==
    ASSUME LinesOK, NEW line \in LineType, line.kind # "output", line.chunk = 0,
           Report(line), UNCHANGED printed
    PROVE  LinesOK' /\ UnreadChunks' = UnreadChunks
<1>1. CASE lines' = lines
  BY <1>1 DEF LinesOK, UnreadChunks
<1>2. CASE lines' = Append(lines, line)
  <2>1. /\ lines' \in Seq(LineType) /\ DOMAIN lines' = DOMAIN lines \cup {Len(lines) + 1}
        /\ \A i \in DOMAIN lines : lines'[i] = lines[i]
        /\ lines'[Len(lines) + 1] = line
    BY <1>2 DEF LinesOK
  <2>2. 0 \notin DOMAIN printed
    BY DEF LinesOK
  <2>3. LinesOK'
    BY <2>1 DEF LinesOK
  <2>4. UnreadChunks' = UnreadChunks
    BY <2>1, <2>2 DEF UnreadChunks
  <2> QED BY <2>3, <2>4
<1> QED BY <1>1, <1>2 DEF Report

\* A pane prints: the new chunk is read by the attached client or lost.
LEMMA PrintedLine ==
    ASSUME LinesOK, NEW t \in Terminals, PanePrints(t)
    PROVE  /\ LinesOK'
           /\ DOMAIN printed' = DOMAIN printed \cup {Len(printed) + 1}
           /\ \A n \in DOMAIN printed : printed'[n] = printed[n] /\ n < Len(printed) + 1
           /\ Len(printed) + 1 \in UnreadChunks' \cup lost'
           /\ UnreadChunks \subseteq UnreadChunks'
           /\ UnreadChunks' \subseteq UnreadChunks \cup {Len(printed) + 1}
           /\ lost \subseteq lost'
<1> DEFINE k == Len(printed) + 1
           line == Line("output", t, k)
<1>1. /\ printed' = Append(printed, t) /\ Report(line)
      /\ lost' = IF Streaming THEN lost ELSE lost \cup {k}
  BY DEF PanePrints
<1>2. /\ printed' \in Seq(Terminals) /\ DOMAIN printed' = DOMAIN printed \cup {k}
      /\ printed'[k] = t /\ k \in Nat /\ k \notin DOMAIN printed
      /\ \A n \in DOMAIN printed : printed'[n] = printed[n] /\ n < k
  BY <1>1 DEF LinesOK
<1>3. line \in LineType /\ line.kind = "output" /\ line.terminal = t /\ line.chunk = k
  BY <1>2 DEF Line, LineType, LineKinds
<1> HIDE DEF k, line
<1>5. \A i \in DOMAIN lines : lines[i].chunk # k
  <2>1. 0 \notin DOMAIN printed /\ k # 0
    BY <1>2 DEF LinesOK, k
  <2> QED BY <1>2, <2>1 DEF LinesOK
<1>4. CASE ~Streaming
  <2>1. lines' = lines /\ k \in lost' /\ lost \subseteq lost'
    BY <1>1, <1>4 DEF Report
  <2>2. LinesOK'
    BY <1>2, <2>1 DEF LinesOK
  <2>3. UnreadChunks' = UnreadChunks
    BY <1>2, <1>5, <2>1 DEF UnreadChunks
  <2> QED BY <1>2, <2>1, <2>2, <2>3 DEF k
<1>6. CASE Streaming
  <2>1. lines' = Append(lines, line) /\ lost' = lost
    BY <1>1, <1>6 DEF Report
  <2>2. /\ lines' \in Seq(LineType) /\ DOMAIN lines' = DOMAIN lines \cup {Len(lines) + 1}
        /\ \A i \in DOMAIN lines : lines'[i] = lines[i] /\ i < Len(lines) + 1
        /\ lines'[Len(lines) + 1] = line /\ Len(lines) + 1 \in Nat
    BY <1>3, <2>1 DEF LinesOK
  <2>3. LinesOK'
    <3>1. ASSUME NEW i \in DOMAIN lines'
          PROVE  IF lines'[i].kind = "output"
                 THEN lines'[i].chunk \in DOMAIN printed'
                      /\ printed'[lines'[i].chunk] = lines'[i].terminal
                 ELSE lines'[i].chunk = 0
      BY <1>2, <1>3, <2>2 DEF LinesOK
    <3>2. ASSUME NEW i \in DOMAIN lines', NEW j \in DOMAIN lines', i < j,
                 lines'[i].kind = "output", lines'[j].kind = "output"
          PROVE  lines'[i].chunk < lines'[j].chunk
      <4>1. i \in DOMAIN lines
        BY <2>2, <3>2 DEF LinesOK
      <4> QED BY <1>2, <1>3, <2>2, <3>2, <4>1 DEF LinesOK
    <3> QED BY <1>2, <2>2, <3>1, <3>2 DEF LinesOK
  <2>4. UnreadChunks' = UnreadChunks \cup {k}
    BY <1>2, <1>3, <1>5, <2>2 DEF UnreadChunks
  <2> QED BY <1>2, <2>1, <2>3, <2>4 DEF k
<1> QED BY <1>4, <1>6

\* The first line is read: its chunk, if it has one, was printed before every
\* chunk still unread.
LEMMA LineRead ==
    ASSUME LinesOK, lines # <<>>, lines' = Tail(lines), UNCHANGED printed
    PROVE  /\ LinesOK' /\ Head(lines) \in LineType
           /\ Head(lines).kind # "output" => UnreadChunks' = UnreadChunks
           /\ Head(lines).kind = "output" =>
                 /\ Head(lines).chunk \in UnreadChunks
                 /\ printed[Head(lines).chunk] = Head(lines).terminal
                 /\ UnreadChunks = UnreadChunks' \cup {Head(lines).chunk}
                 /\ \A m \in UnreadChunks' : Head(lines).chunk < m
<1> DEFINE h == Head(lines)
<1>1. /\ lines' \in Seq(LineType) /\ h \in LineType /\ h = lines[1] /\ 1 \in DOMAIN lines
      /\ \A i \in DOMAIN lines' : lines'[i] = lines[i + 1] /\ i + 1 \in DOMAIN lines /\ i \in Nat
      /\ \A i \in DOMAIN lines : i = 1 \/ (i - 1 \in DOMAIN lines' /\ lines[i] = lines'[i - 1])
      /\ \A i \in DOMAIN lines' : 1 < i + 1
  BY DEF LinesOK
<1> HIDE DEF h
<1>2. LinesOK'
  <2>1. \A i \in DOMAIN lines' :
            IF lines'[i].kind = "output"
            THEN lines'[i].chunk \in DOMAIN printed
                 /\ printed[lines'[i].chunk] = lines'[i].terminal
            ELSE lines'[i].chunk = 0
    BY <1>1 DEF LinesOK
  <2>2. ASSUME NEW i \in DOMAIN lines', NEW j \in DOMAIN lines', i < j,
               lines'[i].kind = "output", lines'[j].kind = "output"
        PROVE  lines'[i].chunk < lines'[j].chunk
    <3>1. i + 1 < j + 1
      BY <1>1, <2>2
    <3> QED BY <1>1, <2>2, <3>1 DEF LinesOK
  <2> QED BY <1>1, <2>1, <2>2 DEF LinesOK
<1>3. \A n : n \in UnreadChunks <=>
          \E i \in DOMAIN lines : lines[i].kind = "output" /\ lines[i].chunk = n
  BY UnreadIsOutput
<1>4. \A n : n \in UnreadChunks' <=>
          \E i \in DOMAIN lines' : lines'[i].kind = "output" /\ lines'[i].chunk = n
  <2>1. 0 \notin DOMAIN printed'
    BY <1>2 DEF LinesOK
  <2> QED BY <1>2, <2>1 DEF LinesOK, UnreadChunks
<1>5. CASE h.kind # "output"
  <2>1. ASSUME NEW n PROVE n \in UnreadChunks' <=> n \in UnreadChunks
    <3>1. n \in UnreadChunks' => n \in UnreadChunks
      BY <1>1, <1>3, <1>4
    <3>2. ASSUME n \in UnreadChunks PROVE n \in UnreadChunks'
      <4>1. PICK i \in DOMAIN lines : lines[i].kind = "output" /\ lines[i].chunk = n
        BY <1>3, <3>2
      <4>2. i - 1 \in DOMAIN lines' /\ lines[i] = lines'[i - 1]
        BY <1>1, <1>5, <4>1
      <4> QED BY <1>4, <4>1, <4>2
    <3> QED BY <3>1, <3>2
  <2> QED BY <1>1, <1>2, <1>5, <2>1 DEF h
<1>6. CASE h.kind = "output"
  <2>1. ASSUME NEW n PROVE n \in UnreadChunks <=> n \in UnreadChunks' \/ n = h.chunk
    <3>1. n \in UnreadChunks' \/ n = h.chunk => n \in UnreadChunks
      BY <1>1, <1>3, <1>4, <1>6
    <3>2. ASSUME n \in UnreadChunks, n # h.chunk PROVE n \in UnreadChunks'
      <4>1. PICK i \in DOMAIN lines : lines[i].kind = "output" /\ lines[i].chunk = n
        BY <1>3, <3>2
      <4>2. i - 1 \in DOMAIN lines' /\ lines[i] = lines'[i - 1]
        BY <1>1, <3>2, <4>1
      <4> QED BY <1>4, <4>1, <4>2
    <3> QED BY <3>1, <3>2
  <2>2. \A m \in UnreadChunks' : h.chunk < m
    <3> SUFFICES ASSUME NEW m \in UnreadChunks' PROVE h.chunk < m
      OBVIOUS
    <3>1. PICK i \in DOMAIN lines' : lines'[i].kind = "output" /\ lines'[i].chunk = m
      BY <1>4
    <3> QED BY <1>1, <1>6, <3>1 DEF LinesOK
  <2>3. printed[h.chunk] = h.terminal
    BY <1>1, <1>6 DEF LinesOK
  <2>4. UnreadChunks = UnreadChunks' \cup {h.chunk} /\ h.chunk \in UnreadChunks
    BY <2>1
  <2> QED BY <1>1, <1>2, <1>6, <2>2, <2>3, <2>4 DEF h
<1> QED BY <1>5, <1>6

\* The pty of the lines is gone or stays.
LEMMA LinesFollow ==
    ASSUME LinesOK, PtyFollows, UNCHANGED printed
    PROVE  /\ LinesOK' /\ UnreadChunks' \subseteq UnreadChunks
           /\ UnreadChunks \subseteq UnreadChunks' \cup lost' /\ lost \subseteq lost'
<1>1. CASE lines' = lines /\ lost' = lost
  BY <1>1 DEF LinesOK, UnreadChunks
<1>2. CASE lines' = <<>> /\ lost' = lost \cup UnreadChunks
  <2>1. LinesOK'
    BY <1>2 DEF LinesOK
  <2>2. UnreadChunks' = {}
    BY <1>2 DEF UnreadChunks
  <2> QED BY <1>2, <2>1, <2>2
<1> QED BY <1>1, <1>2 DEF PtyFollows

----------------------------------------------------------------------------
(* From the pane to the sockets                                            *)

FlowTypeOK ==
    /\ coalesce \in [Terminals -> Seq(Nat)]
    /\ sent \in [Sockets -> Seq(FrameType)]
    /\ capture \in [Sockets -> CaptureType]

\* What was sent was printed before what is held back, and that before what is
\* unread; each in order, and each of the right terminal.
FlowOK ==
    /\ \A t \in Terminals :
          /\ Increasing(coalesce[t]) /\ ToSet(coalesce[t]) \subseteq ChunksOf(t)
          /\ \A n \in ToSet(coalesce[t]), m \in UnreadChunks : n < m
    /\ \A s \in Sockets :
          /\ InPrintOrder(sent[s]) /\ OutputOf(sent[s]) \subseteq ChunksOf(wants[s])
          /\ \A n \in OutputOf(sent[s]), m \in ToSet(coalesce[wants[s]]) \cup UnreadChunks :
                n < m

\* Chunks accounted for on the way to s.
Reached(s) ==
    OutputOf(sent[s]) \cup ToSet(coalesce[wants[s]]) \cup UnreadChunks \cup lost

\* A socket's snapshot, taken or sent, and what is accounted for are the pane.
Covered ==
    \A s \in Sockets :
        /\ socket[s] = "unused" => sent[s] = <<>> /\ capture[s].stage = "none"
        /\ socket[s] = "open" => \A i \in Snapshots(sent[s]) :
              ChunksOf(wants[s]) \subseteq sent[s][i].chunks \cup Reached(s)
        /\ socket[s] = "open" /\ capture[s].stage = "done" =>
              ChunksOf(wants[s]) \subseteq capture[s].chunks \cup Reached(s)

PipeIInv == SubscriptionIInv /\ LinesOK /\ FlowTypeOK /\ FlowOK
StreamIInv == PipeIInv /\ Covered

\* Only frames that are no output are sent.
SendsOther ==
    \A s \in Sockets :
        \/ sent'[s] = sent[s]
        \/ \E f \in FrameType : f.kind # "output" /\ sent'[s] = Append(sent[s], f)

LEMMA OtherSent ==
    ASSUME FlowTypeOK, sent' \in [Sockets -> Seq(FrameType)], SendsOther, NEW s \in Sockets
    PROVE  /\ OutputOf(sent'[s]) = OutputOf(sent[s])
           /\ InPrintOrder(sent[s]) => InPrintOrder(sent'[s])
<1>1. CASE sent'[s] = sent[s]
  BY <1>1
<1>2. CASE sent'[s] # sent[s]
  <2>1. PICK f \in FrameType : f.kind # "output" /\ sent'[s] = Append(sent[s], f)
    BY <1>2 DEF SendsOther
  <2>2. sent[s] \in Seq(FrameType)
    BY DEF FlowTypeOK
  <2> QED BY <2>1, <2>2, AppendOtherFrame
<1> QED BY <1>1, <1>2

\* Steps that hold back and flush nothing: panes print, lines are dropped or
\* lost, other frames are sent.
LEMMA FlowKept ==
    ASSUME FlowTypeOK, FlowOK, wants \in [Sockets -> Terminals],
           sent' \in [Sockets -> Seq(FrameType)], SendsOther,
           capture' \in [Sockets -> CaptureType],
           UNCHANGED <<coalesce, wants>>,
           \A t \in Terminals : ChunksOf(t) \subseteq ChunksOf(t)',
           \A m \in UnreadChunks' : m \in UnreadChunks \/ \A n \in DOMAIN printed : n < m
    PROVE  FlowTypeOK' /\ FlowOK'
<1>1. FlowTypeOK'
  BY DEF FlowTypeOK
<1>2. ASSUME NEW t \in Terminals
      PROVE  /\ Increasing(coalesce'[t]) /\ ToSet(coalesce'[t]) \subseteq ChunksOf(t)'
             /\ \A n \in ToSet(coalesce'[t]), m \in UnreadChunks' : n < m
  BY DEF FlowOK, ChunksOf
<1>3. ASSUME NEW s \in Sockets
      PROVE  /\ InPrintOrder(sent'[s]) /\ OutputOf(sent'[s]) \subseteq ChunksOf(wants[s])'
             /\ \A n \in OutputOf(sent'[s]),
                   m \in ToSet(coalesce'[wants'[s]]) \cup UnreadChunks' : n < m
  <2>1. OutputOf(sent'[s]) = OutputOf(sent[s]) /\ InPrintOrder(sent'[s])
    BY OtherSent DEF FlowOK
  <2>2. OutputOf(sent[s]) \subseteq ChunksOf(wants[s]) /\ wants[s] \in Terminals
    BY DEF FlowOK
  <2>3. \A n \in OutputOf(sent[s]) : n \in DOMAIN printed
    BY <2>2 DEF ChunksOf
  <2>4. OutputOf(sent'[s]) \subseteq ChunksOf(wants[s])'
    BY <2>1, <2>2
  <2>5. \A n \in OutputOf(sent'[s]),
           m \in ToSet(coalesce'[wants'[s]]) \cup UnreadChunks' : n < m
    BY <2>1, <2>3 DEF FlowOK
  <2> QED BY <2>1, <2>4, <2>5
<1> QED BY <1>1, <1>2, <1>3 DEF FlowOK

\* An output line is read and its chunk held back.
LEMMA FlowHeld ==
    ASSUME FlowTypeOK, FlowOK, wants \in [Sockets -> Terminals],
           NEW t \in Terminals, NEW n \in Nat, n \in UnreadChunks, n \in ChunksOf(t),
           CoalesceOutput(t, n), UNCHANGED <<sent, wants, capture, printed>>,
           UnreadChunks' \subseteq UnreadChunks, \A m \in UnreadChunks' : n < m
    PROVE  /\ FlowTypeOK' /\ FlowOK'
           /\ ToSet(coalesce'[t]) = ToSet(coalesce[t]) \cup {n}
           /\ \A u \in Terminals \ {t} : coalesce'[u] = coalesce[u]
<1> DEFINE c == coalesce[t]
<1>1. c \in Seq(Nat) /\ Increasing(c) /\ ToSet(c) \subseteq ChunksOf(t)
      /\ \A k \in ToSet(c), m \in UnreadChunks : k < m
  BY DEF FlowTypeOK, FlowOK
<1>2. /\ coalesce' \in [Terminals -> Seq(Nat)]
      /\ coalesce'[t] = Append(c, n)
      /\ \A u \in Terminals \ {t} : coalesce'[u] = coalesce[u]
  BY DEF CoalesceOutput, FlowTypeOK
<1> HIDE DEF c
<1>3. ToSet(Append(c, n)) = ToSet(c) \cup {n}
  <2>1. /\ DOMAIN Append(c, n) = DOMAIN c \cup {Len(c) + 1}
        /\ Append(c, n)[Len(c) + 1] = n
        /\ \A i \in DOMAIN c : Append(c, n)[i] = c[i]
    BY <1>1
  <2> QED BY <2>1 DEF ToSet
<1>4. Increasing(Append(c, n))
  <2>1. \A a \in DOMAIN c : c[a] < n
    BY <1>1 DEF ToSet
  <2> QED BY <1>1, <2>1 DEF Increasing
<1>5. FlowTypeOK'
  BY <1>2 DEF FlowTypeOK
<1>6. \A u \in Terminals : ChunksOf(u)' = ChunksOf(u)
  BY DEF ChunksOf
<1>7. ASSUME NEW u \in Terminals
      PROVE  /\ Increasing(coalesce'[u]) /\ ToSet(coalesce'[u]) \subseteq ChunksOf(u)
             /\ \A k \in ToSet(coalesce'[u]), m \in UnreadChunks' : k < m
  <2>1. CASE u = t
    BY <1>1, <1>2, <1>3, <1>4, <2>1
  <2>2. CASE u # t
    BY <1>2, <2>2 DEF FlowOK
  <2> QED BY <2>1, <2>2
<1>8. ASSUME NEW s \in Sockets
      PROVE  \A k \in OutputOf(sent[s]), m \in ToSet(coalesce'[wants[s]]) \cup UnreadChunks' : k < m
  <2>1. \A k \in OutputOf(sent[s]), m \in ToSet(coalesce[wants[s]]) \cup UnreadChunks : k < m
    BY DEF FlowOK
  <2>2. ToSet(coalesce'[wants[s]]) \subseteq ToSet(coalesce[wants[s]]) \cup {n}
    BY <1>2, <1>3 DEF c
  <2> QED BY <2>1, <2>2
<1>9. FlowOK'
  BY <1>6, <1>7, <1>8 DEF FlowOK
<1> QED BY <1>2, <1>3, <1>5, <1>9 DEF c

\* The sockets that are sent what T's terminals held back.
Flushed(T, s) ==
    /\ wants[s] \in T /\ coalesce[wants[s]] # <<>>
    /\ socket[s] = "open" /\ s \in subscribers[wants[s]]

\* Buffers are emptied into the sockets.
LEMMA FlowFlushed ==
    ASSUME FlowTypeOK, FlowOK, wants \in [Sockets -> Terminals], NEW T,
           coalesce' = [t \in Terminals |-> IF t \in T THEN <<>> ELSE coalesce[t]],
           sent' = [s \in Sockets |->
                      IF Flushed(T, s)
                      THEN Append(sent[s], Frame("output", wants[s], coalesce[wants[s]]))
                      ELSE sent[s]],
           UNCHANGED <<wants, capture, printed>>, UnreadChunks' \subseteq UnreadChunks
    PROVE  /\ FlowTypeOK' /\ FlowOK'
           /\ \A s \in Sockets : /\ OutputOf(sent[s]) \subseteq OutputOf(sent'[s])
                                 /\ Flushed(T, s) => ToSet(coalesce[wants[s]]) \subseteq OutputOf(sent'[s])
                                 /\ Snapshots(sent'[s]) = Snapshots(sent[s])
                                 /\ \A i \in Snapshots(sent[s]) : sent'[s][i] = sent[s][i]
<1>1. \A t \in Terminals : coalesce[t] \in Seq(Nat) /\ <<>> \in Seq(Nat)
  BY DEF FlowTypeOK
<1>2. coalesce' \in [Terminals -> Seq(Nat)]
      /\ \A t \in Terminals : /\ t \in T => coalesce'[t] = <<>>
                              /\ t \notin T => coalesce'[t] = coalesce[t]
  <2>1. \A t \in Terminals : coalesce'[t] = IF t \in T THEN <<>> ELSE coalesce[t]
    OBVIOUS
  <2>2. \A t \in Terminals : coalesce'[t] \in Seq(Nat)
    BY <1>1, <2>1
  <2>3. coalesce' = [t \in Terminals |-> coalesce'[t]]
    OBVIOUS
  <2> QED BY <2>1, <2>2, <2>3
<1>3. ToSet(<<>>) = {} /\ Increasing(<<>>)
  BY DEF ToSet, Increasing
<1>4. \A t \in Terminals : ChunksOf(t)' = ChunksOf(t)
  BY DEF ChunksOf
<1>5. ASSUME NEW t \in Terminals
      PROVE  /\ Increasing(coalesce'[t]) /\ ToSet(coalesce'[t]) \subseteq ChunksOf(t)
             /\ \A n \in ToSet(coalesce'[t]), m \in UnreadChunks' : n < m
  BY <1>2, <1>3 DEF FlowOK
<1>6. ASSUME NEW s \in Sockets
      PROVE  /\ sent'[s] \in Seq(FrameType)
             /\ InPrintOrder(sent'[s]) /\ OutputOf(sent'[s]) \subseteq ChunksOf(wants[s])
             /\ \A n \in OutputOf(sent'[s]),
                   m \in ToSet(coalesce'[wants[s]]) \cup UnreadChunks' : n < m
             /\ OutputOf(sent[s]) \subseteq OutputOf(sent'[s])
             /\ Flushed(T, s) => ToSet(coalesce[wants[s]]) \subseteq OutputOf(sent'[s])
             /\ Snapshots(sent'[s]) = Snapshots(sent[s])
             /\ \A i \in Snapshots(sent[s]) : sent'[s][i] = sent[s][i]
  <2> DEFINE t == wants[s]
             f == Frame("output", t, coalesce[t])
  <2>1. t \in Terminals /\ sent[s] \in Seq(FrameType)
    BY DEF FlowTypeOK
  <2>2. f \in FrameType /\ f.kind = "output" /\ f.chunks = coalesce[t]
    <3>1. coalesce[t] \in Seq(Nat) \cup SUBSET Nat
      BY <1>1, <2>1
    <3>2. "output" \in FrameKinds
      BY DEF FrameKinds, LineKinds
    <3> HIDE DEF t
    <3> QED BY <2>1, <3>1, <3>2, FrameTyped, Zenon
  <2>3. /\ InPrintOrder(sent[s]) /\ OutputOf(sent[s]) \subseteq ChunksOf(t)
        /\ \A n \in OutputOf(sent[s]), m \in ToSet(coalesce[t]) \cup UnreadChunks : n < m
        /\ Increasing(coalesce[t]) /\ ToSet(coalesce[t]) \subseteq ChunksOf(t)
        /\ \A n \in ToSet(coalesce[t]), m \in UnreadChunks : n < m
    BY <2>1 DEF FlowOK
  <2> HIDE DEF f
  <2>4. CASE Flushed(T, s)
    <3>1. sent'[s] = Append(sent[s], f) /\ coalesce'[t] = <<>>
      <4>1. sent'[s] = IF Flushed(T, s) THEN Append(sent[s], f) ELSE sent[s]
        BY DEF f
      <4>2. t \in T
        BY <2>4 DEF Flushed
      <4> QED BY <1>2, <2>1, <2>4, <4>1, <4>2
    <3>2. OutputOf(sent'[s]) = OutputOf(sent[s]) \cup ToSet(coalesce[t])
      BY <2>1, <2>2, <3>1, AppendOutputFrame
    <3>3. InPrintOrder(sent'[s])
      BY <2>1, <2>2, <2>3, <3>1, AppendOutputFrame
    <3>4. ToSet(coalesce'[t]) = {}
      BY <1>3, <3>1
    <3>5. /\ sent'[s] \in Seq(FrameType)
          /\ Snapshots(sent'[s]) = Snapshots(sent[s])
          /\ \A i \in Snapshots(sent[s]) : sent'[s][i] = sent[s][i]
      BY <2>1, <2>2, <3>1, AppendFrame DEF Snapshots
    <3> HIDE DEF t
    <3>6. \A n \in OutputOf(sent'[s]), m \in ToSet(coalesce'[t]) \cup UnreadChunks' : n < m
      BY <2>3, <3>2, <3>4
    <3> QED BY <2>3, <3>2, <3>3, <3>5, <3>6 DEF t
  <2>5. CASE ~Flushed(T, s)
    <3>1. sent'[s] = sent[s]
      BY <2>5
    <3>2. ToSet(coalesce'[t]) \subseteq ToSet(coalesce[t])
      BY <1>2, <1>3, <2>1
    <3> QED BY <2>1, <2>3, <2>5, <3>1, <3>2
  <2> QED BY <2>4, <2>5
<1>7. FlowTypeOK'
  BY <1>2, <1>6 DEF FlowTypeOK
<1>8. FlowOK'
  BY <1>4, <1>5, <1>6 DEF FlowOK
<1> QED BY <1>6, <1>7, <1>8

\* No chunk drops out between the capture of a snapshot and its socket.
LEMMA CoveredKept ==
    ASSUME Covered, UNCHANGED <<wants, socket, capture>>,
           \A s \in Sockets : socket[s] = "open" =>
              /\ ChunksOf(wants[s])' \subseteq ChunksOf(wants[s]) \cup Reached(s)'
              /\ ChunksOf(wants[s]) \cap Reached(s) \subseteq Reached(s)'
              /\ \A i \in Snapshots(sent'[s]) :
                    i \in Snapshots(sent[s]) /\ sent'[s][i] = sent[s][i],
           \A s \in Sockets : socket[s] = "unused" => sent'[s] = sent[s]
    PROVE  Covered'
<1>1. ASSUME NEW s \in Sockets, socket[s] = "open", NEW X,
             ChunksOf(wants[s]) \subseteq X \cup Reached(s)
      PROVE  ChunksOf(wants[s])' \subseteq X \cup Reached(s)'
  BY <1>1
<1>2. ASSUME NEW s \in Sockets
      PROVE  /\ socket'[s] = "unused" => sent'[s] = <<>> /\ capture'[s].stage = "none"
             /\ socket'[s] = "open" => \A i \in Snapshots(sent'[s]) :
                   ChunksOf(wants[s])' \subseteq sent'[s][i].chunks \cup Reached(s)'
             /\ socket'[s] = "open" /\ capture'[s].stage = "done" =>
                   ChunksOf(wants[s])' \subseteq capture'[s].chunks \cup Reached(s)'
  <2>1. socket'[s] = "unused" => sent'[s] = <<>> /\ capture'[s].stage = "none"
    BY DEF Covered
  <2>2. ASSUME socket[s] = "open", NEW i \in Snapshots(sent'[s])
        PROVE  ChunksOf(wants[s])' \subseteq sent'[s][i].chunks \cup Reached(s)'
    <3>1. i \in Snapshots(sent[s]) /\ sent'[s][i] = sent[s][i]
      BY <2>2
    <3>2. ChunksOf(wants[s]) \subseteq sent[s][i].chunks \cup Reached(s)
      BY <2>2, <3>1 DEF Covered
    <3>3. ChunksOf(wants[s])' \subseteq sent[s][i].chunks \cup Reached(s)'
      BY <1>1, <2>2, <3>2
    <3> QED BY <3>1, <3>3
  <2>3. ASSUME socket[s] = "open", capture[s].stage = "done"
        PROVE  ChunksOf(wants[s])' \subseteq capture[s].chunks \cup Reached(s)'
    <3>1. ChunksOf(wants[s]) \subseteq capture[s].chunks \cup Reached(s)
      BY <2>3 DEF Covered
    <3> QED BY <1>1, <2>3, <3>1
  <2> QED BY <2>1, <2>2, <2>3
<1> QED BY <1>2 DEF Covered

\* A frame that is neither output nor snapshot.
LEMMA NoSnapshotSent ==
    ASSUME NEW frames \in Seq(FrameType), NEW f \in FrameType, f.kind # "snapshot"
    PROVE  \A i \in Snapshots(Append(frames, f)) :
              i \in Snapshots(frames) /\ Append(frames, f)[i] = frames[i]
<1> DEFINE g == Append(frames, f)
<1>1. /\ \A i \in DOMAIN frames : g[i] = frames[i]
      /\ DOMAIN g = DOMAIN frames \cup {Len(frames) + 1} /\ g[Len(frames) + 1] = f
  BY AppendFrame
<1> HIDE DEF g
<1>2. \A i \in Snapshots(g) : i \in Snapshots(frames) /\ g[i] = frames[i]
  BY <1>1 DEF Snapshots
<1> QED BY <1>2 DEF g

LEMMA StreamInitHolds == StreamInit => StreamIInv
<1> SUFFICES ASSUME StreamInit PROVE StreamIInv
  OBVIOUS
<1>1. LinesOK
  BY DEF StreamInit, LinesOK
<1>2. FlowTypeOK
  <2>1. <<>> \in Seq(Nat) /\ <<>> \in Seq(FrameType) /\ NoCapture \in CaptureType
    BY DEF NoCapture, CaptureType
  <2> QED BY <2>1 DEF StreamInit, FlowTypeOK
<1>3. ToSet(<<>>) = {} /\ Increasing(<<>>) /\ Snapshots(<<>>) = {} /\ OutputFrames(<<>>) = {}
  BY DEF ToSet, Increasing, Snapshots, OutputFrames
<1>4. OutputOf(<<>>) = {} /\ InPrintOrder(<<>>)
  BY <1>3 DEF OutputOf, InPrintOrder
<1>5. /\ \A t \in Terminals : coalesce[t] = <<>>
      /\ \A s \in Sockets : sent[s] = <<>> /\ socket[s] = "unused" /\ capture[s].stage = "none"
                            /\ wants[s] \in Terminals
  BY DEF StreamInit, NoCapture
<1>6. FlowOK
  BY <1>3, <1>4, <1>5 DEF FlowOK, UnreadChunks, StreamInit
<1>7. Covered
  BY <1>5 DEF Covered
<1> QED BY <1>1, <1>2, <1>6, <1>7, SubscriptionInit DEF StreamIInv, PipeIInv

\* Steps that touch no buffer and send nothing: what is unread may be reported
\* or get lost with its pty.
LEMMA QuietStep ==
    ASSUME StreamIInv, LinesOK', UNCHANGED <<gatewayVars, coalesce, sent, printed>>,
           UnreadChunks' \subseteq UnreadChunks, UnreadChunks \subseteq UnreadChunks' \cup lost',
           lost \subseteq lost'
    PROVE  LinesOK' /\ FlowTypeOK' /\ FlowOK' /\ Covered'
<1> USE DEF gatewayVars
<1>1. \A t \in Terminals : ChunksOf(t)' = ChunksOf(t)
  BY DEF ChunksOf
<1>2. FlowTypeOK' /\ FlowOK'
  <2>1. sent' \in [Sockets -> Seq(FrameType)] /\ SendsOther /\ capture' \in [Sockets -> CaptureType]
        /\ wants \in [Sockets -> Terminals] /\ FlowTypeOK /\ FlowOK
    BY DEF StreamIInv, PipeIInv, FlowTypeOK, SendsOther, SubscriptionIInv, SocketsOK
  <2> QED BY <1>1, <2>1, FlowKept
<1>3. \A s \in Sockets : wants[s] \in Terminals /\ ChunksOf(wants[s])' = ChunksOf(wants[s])
  BY <1>1 DEF StreamIInv, PipeIInv, SubscriptionIInv, SocketsOK, ChunksOf
<1>4. \A s \in Sockets : Reached(s) \subseteq Reached(s)'
  BY DEF Reached
<1>5. Covered'
  BY <1>3, <1>4, CoveredKept DEF StreamIInv
<1> QED BY <1>2, <1>5

FlowStep == LinesOK' /\ FlowTypeOK' /\ FlowOK' /\ Covered'

LEMMA StepOfPane == ASSUME StreamIInv, PaneStep PROVE FlowStep
<1> USE DEF FlowStep
<1>1. PICK t \in Terminals :
         \/ WindowOpens(t) \/ PanePrints(t) \/ PaneResizes(t) \/ WindowCloses(t)
         \/ Register(t) \/ Bind(t) \/ Evict(t)
  BY DEF PaneStep
<1>0. LinesOK /\ FlowTypeOK /\ FlowOK /\ Covered /\ wants \in [Sockets -> Terminals]
  BY DEF StreamIInv, PipeIInv, SubscriptionIInv, SocketsOK
<1>2. ASSUME NEW k \in LineKinds, k # "output", Report(Line(k, t, 0)),
             UNCHANGED <<gatewayVars, coalesce, sent, printed, lost>>
      PROVE  FlowStep
  <2> DEFINE line == Line(k, t, 0)
  <2>1. line \in LineType /\ line.kind # "output" /\ line.chunk = 0
    BY <1>2 DEF Line, LineType
  <2> HIDE DEF line
  <2>2. Report(line)
    BY <1>2 DEF line
  <2>3. LinesOK' /\ UnreadChunks' = UnreadChunks
    BY <1>0, <1>2, <2>1, <2>2, ReportOther
  <2> QED BY <1>2, <2>3, QuietStep
<1>3. CASE WindowOpens(t)
  BY <1>2, <1>3 DEF WindowOpens, gatewayVars, LineKinds
<1>4. CASE PaneResizes(t)
  BY <1>2, <1>4 DEF PaneResizes, gatewayVars, LineKinds
<1>5. CASE WindowCloses(t)
  BY <1>2, <1>5 DEF WindowCloses, gatewayVars, LineKinds
<1>6. CASE Register(t) \/ Bind(t) \/ Evict(t)
  <2>1. UNCHANGED <<gatewayVars, coalesce, sent, printed, lost, lines>>
    BY <1>6 DEF Register, Bind, Evict
  <2>2. LinesOK' /\ UnreadChunks' = UnreadChunks
    BY <1>0, <2>1 DEF LinesOK, UnreadChunks
  <2> QED BY <2>1, <2>2, QuietStep
<1>7. CASE PanePrints(t)
  <2> DEFINE k == Len(printed) + 1
  <2>1. /\ LinesOK'
        /\ DOMAIN printed' = DOMAIN printed \cup {k}
        /\ \A n \in DOMAIN printed : printed'[n] = printed[n] /\ n < k
        /\ k \in UnreadChunks' \cup lost'
        /\ UnreadChunks \subseteq UnreadChunks' /\ UnreadChunks' \subseteq UnreadChunks \cup {k}
        /\ lost \subseteq lost'
    BY <1>0, <1>7, PrintedLine
  <2>2. UNCHANGED <<gatewayVars, coalesce, sent>>
    BY <1>7 DEF PanePrints
  <2> HIDE DEF k
  <2> USE DEF gatewayVars
  <2>3. \A u \in Terminals : /\ ChunksOf(u) \subseteq ChunksOf(u)'
                             /\ ChunksOf(u)' \subseteq ChunksOf(u) \cup {k}
    BY <2>1 DEF ChunksOf
  <2>4. sent' \in [Sockets -> Seq(FrameType)] /\ SendsOther
        /\ capture' \in [Sockets -> CaptureType]
    BY <1>0, <2>2 DEF FlowTypeOK, SendsOther
  <2>5. FlowTypeOK' /\ FlowOK'
    BY <1>0, <2>1, <2>2, <2>3, <2>4, FlowKept
  <2>6. \A s \in Sockets : Reached(s) \cup {k} \subseteq Reached(s)'
    BY <2>1, <2>2 DEF Reached
  <2>7. \A s \in Sockets : ChunksOf(wants[s])' \subseteq ChunksOf(wants[s]) \cup {k}
    BY <1>0, <2>2, <2>3 DEF ChunksOf
  <2>8. Covered'
    BY <1>0, <2>2, <2>6, <2>7, CoveredKept
  <2> QED BY <2>1, <2>5, <2>8
<1> QED BY <1>1, <1>3, <1>4, <1>5, <1>6, <1>7

LEMMA StepOfLine == ASSUME StreamIInv, ReadLine PROVE FlowStep
<1> USE DEF FlowStep, gatewayVars
<1> DEFINE line == Head(lines)
           t == line.terminal
           n == line.chunk
<1>0. LinesOK /\ FlowTypeOK /\ FlowOK /\ Covered /\ wants \in [Sockets -> Terminals]
  BY DEF StreamIInv, PipeIInv, SubscriptionIInv, SocketsOK
<1>1. lines # <<>> /\ lines' = Tail(lines)
      /\ UNCHANGED <<printed, socket, wants, capture, subscribers, connections>>
  BY DEF ReadLine
<1>2. /\ LinesOK' /\ line \in LineType
      /\ line.kind # "output" => UnreadChunks' = UnreadChunks
      /\ line.kind = "output" =>
            /\ n \in UnreadChunks /\ printed[n] = t
            /\ UnreadChunks = UnreadChunks' \cup {n}
            /\ \A m \in UnreadChunks' : n < m
  BY <1>0, <1>1, LineRead
<1>3. /\ line.kind = "output" => DispatchOutput(line)
      /\ line.kind # "output" => DispatchEvent(line)
  BY DEF ReadLine
<1> HIDE DEF line
<1>4. t \in Terminals /\ n \in Nat /\ line.kind \in LineKinds
  BY <1>2 DEF LineType
<1>5. \A u \in Terminals : ChunksOf(u)' = ChunksOf(u)
  BY <1>1 DEF ChunksOf
<1>6. CASE line.kind = "output" /\ t \in bound \cap registered
  <2>1. CoalesceOutput(t, n) /\ UNCHANGED <<lost, sent>>
    BY <1>3, <1>6 DEF DispatchOutput
  <2>2. n \in ChunksOf(t)
    BY <1>2, <1>6 DEF ChunksOf, UnreadChunks
  <2>3. /\ FlowTypeOK' /\ FlowOK'
        /\ ToSet(coalesce'[t]) = ToSet(coalesce[t]) \cup {n}
        /\ \A u \in Terminals \ {t} : coalesce'[u] = coalesce[u]
    BY <1>0, <1>1, <1>2, <1>4, <1>6, <2>1, <2>2, FlowHeld
  <2>4. ASSUME NEW s \in Sockets
        PROVE  ChunksOf(wants[s]) \cap Reached(s) \subseteq Reached(s)'
    <3>1. CASE wants[s] = t
      BY <1>1, <1>2, <1>6, <2>1, <2>3, <3>1 DEF Reached
    <3>2. CASE wants[s] # t
      <4>1. n \notin ChunksOf(wants[s])
        BY <1>2, <1>6, <3>2 DEF ChunksOf
      <4>2. wants[s] \in Terminals \ {t}
        BY <1>0, <3>2
      <4> HIDE DEF n
      <4> QED BY <1>1, <1>2, <1>6, <2>1, <2>3, <4>1, <4>2 DEF Reached
    <3> QED BY <3>1, <3>2
  <2>5. \A s \in Sockets : ChunksOf(wants[s])' = ChunksOf(wants[s])
    BY <1>1 DEF ChunksOf
  <2>6. Covered'
    BY <1>0, <1>1, <2>1, <2>4, <2>5, CoveredKept
  <2> QED BY <1>2, <2>3, <2>6
<1>7. CASE line.kind = "output" /\ t \notin bound \cap registered
  <2>1. lost' = lost \cup {n} /\ UNCHANGED <<coalesce, sent>>
    BY <1>3, <1>7 DEF DispatchOutput
  <2> QED BY <1>1, <1>2, <1>7, <2>1, QuietStep
<1>8. CASE line.kind # "output" /\ t \notin registered
  <2>1. UNCHANGED <<coalesce, sent, lost>>
    BY <1>3, <1>8 DEF DispatchEvent
  <2> QED BY <1>1, <1>2, <1>8, <2>1, QuietStep
<1>9. CASE line.kind # "output" /\ t \in registered
  <2> DEFINE f == Frame(line.kind, t, <<>>)
  <2>1. Broadcast(t, f) /\ UNCHANGED <<coalesce, lost>>
    BY <1>3, <1>9 DEF DispatchEvent
  <2>2. f \in FrameType /\ f.kind # "output" /\ f.kind # "snapshot"
    <3>1. <<>> \in Seq(Nat) \cup SUBSET Nat /\ line.kind \in FrameKinds
      BY <1>4 DEF FrameKinds
    <3>2. f \in FrameType /\ f.kind = line.kind
      BY <1>4, <3>1, FrameTyped
    <3> QED BY <1>4, <1>9, <3>2 DEF LineKinds
  <2> HIDE DEF f
  <2>3. \A s \in Sockets : sent'[s] = IF s \in Receivers(t) THEN Append(sent[s], f) ELSE sent[s]
    BY <2>1 DEF Broadcast
  <2>4. \A s \in Sockets : sent[s] \in Seq(FrameType) /\ Append(sent[s], f) \in Seq(FrameType)
    BY <1>0, <2>2 DEF FlowTypeOK
  <2>5. sent' \in [Sockets -> Seq(FrameType)]
    <3>1. \A s \in Sockets : sent'[s] \in Seq(FrameType)
      BY <2>3, <2>4
    <3>2. sent' = [s \in Sockets |-> sent'[s]]
      BY <2>1 DEF Broadcast
    <3> QED BY <3>1, <3>2
  <2>6. SendsOther
    BY <2>2, <2>3 DEF SendsOther
  <2>7. FlowTypeOK' /\ FlowOK'
    <3>1. capture' \in [Sockets -> CaptureType] /\ UNCHANGED <<coalesce, wants>>
      BY <1>0, <1>1, <2>1 DEF FlowTypeOK
    <3> QED BY <1>0, <1>2, <1>5, <1>9, <2>5, <2>6, <3>1, FlowKept
  <2>8. \A s \in Sockets : Reached(s)' = Reached(s) /\ ChunksOf(wants[s])' = ChunksOf(wants[s])
    <3>1. \A s \in Sockets : OutputOf(sent'[s]) = OutputOf(sent[s])
      BY <1>0, <2>5, <2>6, OtherSent
    <3> QED BY <1>1, <1>2, <1>9, <2>1, <3>1 DEF Reached, ChunksOf
  <2>9. \A s \in Sockets : /\ \A i \in Snapshots(sent'[s]) :
                                i \in Snapshots(sent[s]) /\ sent'[s][i] = sent[s][i]
                           /\ socket[s] # "open" => sent'[s] = sent[s]
    <3> SUFFICES ASSUME NEW s \in Sockets
                 PROVE  /\ \A i \in Snapshots(sent'[s]) :
                              i \in Snapshots(sent[s]) /\ sent'[s][i] = sent[s][i]
                        /\ socket[s] # "open" => sent'[s] = sent[s]
      OBVIOUS
    <3>1. CASE s \in Receivers(t)
      <4>1. sent'[s] = Append(sent[s], f) /\ sent[s] \in Seq(FrameType)
        BY <2>3, <2>4, <3>1
      <4>2. \A i \in Snapshots(Append(sent[s], f)) :
               i \in Snapshots(sent[s]) /\ Append(sent[s], f)[i] = sent[s][i]
        BY <2>2, <4>1, NoSnapshotSent
      <4> QED BY <3>1, <4>1, <4>2 DEF Receivers
    <3>2. CASE s \notin Receivers(t)
      BY <2>3, <3>2
    <3> QED BY <3>1, <3>2
  <2>10. Covered'
    BY <1>0, <1>1, <2>8, <2>9, CoveredKept
  <2> QED BY <1>2, <2>7, <2>10
<1> QED BY <1>6, <1>7, <1>8, <1>9

\* Buffers are flushed, and lines may be lost with their pty at the same time.
LEMMA StepOfFlush ==
    ASSUME StreamIInv, NEW T,
           coalesce' = [t \in Terminals |-> IF t \in T THEN <<>> ELSE coalesce[t]],
           sent' = [s \in Sockets |->
                      IF Flushed(T, s)
                      THEN Append(sent[s], Frame("output", wants[s], coalesce[wants[s]]))
                      ELSE sent[s]],
           UNCHANGED <<gatewayVars, printed>>, LinesOK',
           UnreadChunks' \subseteq UnreadChunks, UnreadChunks \subseteq UnreadChunks' \cup lost',
           lost \subseteq lost'
    PROVE  FlowStep
<1> USE DEF FlowStep, gatewayVars
<1>0. FlowTypeOK /\ FlowOK /\ Covered /\ wants \in [Sockets -> Terminals]
      /\ SubscribersMatchConnections
  BY DEF StreamIInv, PipeIInv, SubscriptionIInv, SocketsOK
<1>1. /\ FlowTypeOK' /\ FlowOK'
      /\ \A s \in Sockets : /\ OutputOf(sent[s]) \subseteq OutputOf(sent'[s])
                            /\ Flushed(T, s) => ToSet(coalesce[wants[s]]) \subseteq OutputOf(sent'[s])
                            /\ Snapshots(sent'[s]) = Snapshots(sent[s])
                            /\ \A i \in Snapshots(sent[s]) : sent'[s][i] = sent[s][i]
  BY <1>0, FlowFlushed
<1>2. \A s \in Sockets : ChunksOf(wants[s])' = ChunksOf(wants[s])
  BY DEF ChunksOf
<1>3. ASSUME NEW s \in Sockets, socket[s] = "open"
      PROVE  Reached(s) \subseteq Reached(s)'
  <2> DEFINE t == wants[s]
  <2>1. t \in Terminals /\ s \in subscribers[t]
    BY <1>0, <1>3 DEF SubscribersMatchConnections
  <2>2. coalesce'[t] = IF t \in T THEN <<>> ELSE coalesce[t]
    BY <2>1
  <2>3. ToSet(coalesce[t]) \subseteq OutputOf(sent'[s]) \cup ToSet(coalesce'[t])
    <3>1. CASE t \in T /\ coalesce[t] # <<>>
      BY <1>1, <1>3, <2>1, <3>1 DEF Flushed
    <3>2. CASE t \in T /\ coalesce[t] = <<>>
      BY <2>2, <3>2
    <3>3. CASE t \notin T
      BY <2>2, <3>3
    <3> QED BY <3>1, <3>2, <3>3
  <2>4. OutputOf(sent[s]) \subseteq OutputOf(sent'[s])
    BY <1>1
  <2> QED BY <2>3, <2>4 DEF Reached
<1>4. \A s \in Sockets : socket[s] = "unused" => sent'[s] = sent[s]
  BY DEF Flushed
<1>5. Covered'
  BY <1>0, <1>1, <1>2, <1>3, <1>4, CoveredKept
<1> QED BY <1>1, <1>5

LEMMA StepOfTimer == ASSUME StreamIInv, NEW t \in Terminals, CoalesceTimer(t) PROVE FlowStep
<1>0. LinesOK /\ FlowTypeOK /\ SocketsOK /\ SubscribersMatchConnections
  BY DEF StreamIInv, PipeIInv, SubscriptionIInv
<1>1. /\ coalesce[t] # <<>> /\ coalesce' = [coalesce EXCEPT ![t] = <<>>]
      /\ sent' = [s \in Sockets |-> IF s \in Receivers(t)
                                    THEN Append(sent[s], Frame("output", t, coalesce[t]))
                                    ELSE sent[s]]
      /\ UNCHANGED <<gatewayVars, printed, lines, lost>>
  BY DEF CoalesceTimer, Broadcast
<1>2. coalesce' = [u \in Terminals |-> IF u \in {t} THEN <<>> ELSE coalesce[u]]
  BY <1>0, <1>1 DEF FlowTypeOK
<1>3. \A s \in Sockets : s \in Receivers(t) <=> Flushed({t}, s)
  BY <1>0, <1>1 DEF Receivers, Flushed, SubscribersMatchConnections, SocketsOK
<1>4. \A s \in Sockets : Flushed({t}, s) => wants[s] = t
  BY DEF Flushed
<1>5. sent' = [s \in Sockets |->
                 IF Flushed({t}, s)
                 THEN Append(sent[s], Frame("output", wants[s], coalesce[wants[s]]))
                 ELSE sent[s]]
  BY <1>1, <1>3, <1>4
<1>6. LinesOK' /\ UnreadChunks' = UnreadChunks
  BY <1>0, <1>1 DEF LinesOK, UnreadChunks
<1> QED BY <1>1, <1>2, <1>5, <1>6, StepOfFlush

LEMMA StepOfLoop == ASSUME StreamIInv, AttachStep \/ SessionEnds \/ ModuleDestroy PROVE FlowStep
<1>0. LinesOK /\ FlowTypeOK /\ SocketsOK /\ SubscribersMatchConnections
  BY DEF StreamIInv, PipeIInv, SubscriptionIInv
<1>1. CASE AttachStep
  <2>1. PtyFollows /\ UNCHANGED <<gatewayVars, coalesce, sent, printed>>
    BY <1>1 DEF AttachStep
  <2>2. LinesOK' /\ UnreadChunks' \subseteq UnreadChunks
        /\ UnreadChunks \subseteq UnreadChunks' \cup lost' /\ lost \subseteq lost'
    BY <1>0, <2>1, LinesFollow
  <2> QED BY <2>1, <2>2, QuietStep DEF FlowStep
<1>2. CASE SessionEnds
  <2>1. UNCHANGED <<gatewayVars, coalesce, sent, printed, lines, lost>>
    BY <1>2 DEF SessionEnds
  <2>2. LinesOK' /\ UnreadChunks' = UnreadChunks
    BY <1>0, <2>1 DEF LinesOK, UnreadChunks
  <2> QED BY <2>1, <2>2, QuietStep DEF FlowStep
<1>3. CASE ModuleDestroy
  <2>1. /\ PtyFollows /\ UNCHANGED <<gatewayVars, printed>>
        /\ coalesce' = [t \in Terminals |-> <<>>]
        /\ sent' = [s \in Sockets |->
                      IF socket[s] = "open" /\ s \in subscribers[wants[s]]
                         /\ coalesce[wants[s]] # <<>>
                      THEN Append(sent[s], Frame("output", wants[s], coalesce[wants[s]]))
                      ELSE sent[s]]
    BY <1>3 DEF ModuleDestroy
  <2>2. LinesOK' /\ UnreadChunks' \subseteq UnreadChunks
        /\ UnreadChunks \subseteq UnreadChunks' \cup lost' /\ lost \subseteq lost'
    BY <1>0, <2>1, LinesFollow
  <2>3. coalesce' = [u \in Terminals |-> IF u \in Terminals THEN <<>> ELSE coalesce[u]]
    BY <2>1
  <2>4. \A s \in Sockets : (socket[s] = "open" /\ s \in subscribers[wants[s]]
                             /\ coalesce[wants[s]] # <<>>) <=> Flushed(Terminals, s)
    BY <1>0 DEF Flushed, SocketsOK
  <2>5. sent' = [s \in Sockets |->
                   IF Flushed(Terminals, s)
                   THEN Append(sent[s], Frame("output", wants[s], coalesce[wants[s]]))
                   ELSE sent[s]]
    BY <2>1, <2>4
  <2> QED BY <2>1, <2>2, <2>3, <2>5, StepOfFlush
<1> QED BY <1>1, <1>2, <1>3

\* A step of one socket that sends no output, seen by the invariant.
LEMMA SocketStep ==
    ASSUME StreamIInv, NEW s \in Sockets,
           UNCHANGED <<printed, lines, coalesce, wants, lost>>,
           sent' \in [Sockets -> Seq(FrameType)], SendsOther,
           capture' \in [Sockets -> CaptureType],
           \A r \in Sockets \ {s} :
              socket'[r] = socket[r] /\ sent'[r] = sent[r] /\ capture'[r] = capture[r],
           socket'[s] # "unused",
           socket'[s] = "open" => \A i \in Snapshots(sent'[s]) :
              ChunksOf(wants[s]) \subseteq sent'[s][i].chunks \cup Reached(s),
           socket'[s] = "open" /\ capture'[s].stage = "done" =>
              ChunksOf(wants[s]) \subseteq capture'[s].chunks \cup Reached(s)
    PROVE  FlowStep
<1> USE DEF FlowStep
<1>0. LinesOK /\ FlowTypeOK /\ FlowOK /\ Covered /\ wants \in [Sockets -> Terminals]
  BY DEF StreamIInv, PipeIInv, SubscriptionIInv, SocketsOK
<1>1. LinesOK' /\ UnreadChunks' = UnreadChunks
  BY <1>0 DEF LinesOK, UnreadChunks
<1>2. \A t \in Terminals : ChunksOf(t)' = ChunksOf(t)
  BY DEF ChunksOf
<1>3. FlowTypeOK' /\ FlowOK'
  BY <1>0, <1>1, <1>2, FlowKept
<1>4. \A r \in Sockets : OutputOf(sent'[r]) = OutputOf(sent[r])
  BY <1>0, OtherSent
<1>5. \A r \in Sockets : Reached(r)' = Reached(r) /\ ChunksOf(wants[r])' = ChunksOf(wants[r])
  BY <1>1, <1>4 DEF Reached, ChunksOf
<1>6. ASSUME NEW r \in Sockets
      PROVE  /\ socket'[r] = "unused" => sent'[r] = <<>> /\ capture'[r].stage = "none"
             /\ socket'[r] = "open" => \A i \in Snapshots(sent'[r]) :
                   ChunksOf(wants[r])' \subseteq sent'[r][i].chunks \cup Reached(r)'
             /\ socket'[r] = "open" /\ capture'[r].stage = "done" =>
                   ChunksOf(wants[r])' \subseteq capture'[r].chunks \cup Reached(r)'
  <2>1. CASE r = s
    BY <1>5, <2>1
  <2>2. CASE r # s
    BY <1>0, <1>5, <2>2 DEF Covered
  <2> QED BY <2>1, <2>2
<1>7. Covered'
  BY <1>6 DEF Covered
<1> QED BY <1>1, <1>3, <1>7

LEMMA StepOfSocket ==
    ASSUME StreamIInv, NEW s \in Sockets,
           Connect(s) \/ CapturePane(s) \/ PushSnapshot(s) \/ SocketCloses(s)
           \/ HandleDisconnect(s)
    PROVE  FlowStep
<1> USE DEF paneVars
<1>0. /\ LinesOK /\ FlowTypeOK /\ Covered /\ wants \in [Sockets -> Terminals]
      /\ socket \in [Sockets -> SocketStages] /\ sent[s] \in Seq(FrameType)
      /\ capture[s] \in CaptureType
  BY DEF StreamIInv, PipeIInv, SubscriptionIInv, SocketsOK, FlowTypeOK
<1>1. UNCHANGED <<printed, lines, coalesce, wants, lost>>
  BY DEF Connect, CapturePane, PushSnapshot, SocketCloses, HandleDisconnect
<1>2. ASSUME UNCHANGED sent
      PROVE  sent' \in [Sockets -> Seq(FrameType)] /\ SendsOther
  BY <1>0, <1>2 DEF FlowTypeOK, SendsOther
<1>3. ASSUME NEW c \in CaptureType, capture' = [capture EXCEPT ![s] = c]
      PROVE  /\ capture' \in [Sockets -> CaptureType] /\ capture'[s] = c
             /\ \A r \in Sockets \ {s} : capture'[r] = capture[r]
  BY <1>0, <1>3 DEF FlowTypeOK
<1>4. NoCapture \in CaptureType /\ Capturing \in CaptureType /\ CaptureFailed \in CaptureType
      /\ NoCapture.stage # "done" /\ Capturing.stage # "done" /\ CaptureFailed.stage # "done"
  BY DEF NoCapture, Capturing, CaptureFailed, CaptureType
<1>5. CASE Connect(s)
  <2> DEFINE c == IF wants[s] \in registered THEN Capturing ELSE CaptureFailed
  <2>1. /\ socket[s] = "unused" /\ socket' = [socket EXCEPT ![s] = "open"]
        /\ capture' = [capture EXCEPT ![s] = c] /\ sent' = sent
    BY <1>5 DEF Connect
  <2>2. c \in CaptureType /\ c.stage # "done"
    BY <1>4
  <2> HIDE DEF c
  <2>3. Snapshots(sent'[s]) = {}
    BY <1>0, <2>1 DEF Covered, Snapshots
  <2> QED BY <1>0, <1>1, <1>2, <1>3, <2>1, <2>2, <2>3, SocketStep
<1>6. CASE CapturePane(s)
  <2>0. ChunksOf(wants[s]) \in SUBSET Nat
    BY <1>0 DEF ChunksOf, LinesOK
  <2> DEFINE k == ChunksOf(wants[s])
             c == IF window[wants[s]] = "open" THEN Captured(k) ELSE CaptureFailed
  <2>1. /\ capture[s].stage = "running" /\ capture' = [capture EXCEPT ![s] = c]
        /\ UNCHANGED <<sent, socket>>
    BY <1>6 DEF CapturePane
  <2> HIDE DEF k
  <2>2. c \in CaptureType /\ (c.stage = "done" => c.chunks = k)
    BY <1>4, <2>0 DEF Captured, CaptureType, k
  <2> HIDE DEF c
  <2>3. socket[s] # "unused"
    BY <1>0, <2>1 DEF Covered
  <2>4. socket[s] = "open" => \A i \in Snapshots(sent[s]) :
           ChunksOf(wants[s]) \subseteq sent[s][i].chunks \cup Reached(s)
    BY <1>0 DEF Covered
  <2>5. /\ capture' \in [Sockets -> CaptureType] /\ capture'[s] = c
        /\ \A r \in Sockets \ {s} :
              socket'[r] = socket[r] /\ sent'[r] = sent[r] /\ capture'[r] = capture[r]
    BY <1>3, <2>1, <2>2
  <2>6. capture'[s].stage = "done" =>
           ChunksOf(wants[s]) \subseteq capture'[s].chunks \cup Reached(s)
    BY <2>2, <2>5 DEF k
  <2> QED BY <1>1, <1>2, <2>1, <2>3, <2>4, <2>5, <2>6, SocketStep
<1>7. CASE SocketCloses(s) \/ HandleDisconnect(s)
  <2>1. /\ socket'[s] \notin {"unused", "open"}
        /\ \A r \in Sockets \ {s} : socket'[r] = socket[r]
        /\ UNCHANGED <<capture, sent>>
    BY <1>0, <1>7 DEF SocketCloses, HandleDisconnect
  <2>2. capture' \in [Sockets -> CaptureType]
    BY <1>0, <2>1 DEF FlowTypeOK
  <2> QED BY <1>1, <1>2, <2>1, <2>2, SocketStep
<1>8. CASE PushSnapshot(s)
  <2> DEFINE done == capture[s].stage = "done"
             f == IF done THEN Frame("snapshot", wants[s], capture[s].chunks)
                  ELSE Frame("error", wants[s], <<>>)
  <2>1. /\ capture[s].stage \in {"done", "failed"} /\ capture' = [capture EXCEPT ![s] = NoCapture]
        /\ sent' = IF socket[s] # "open" THEN sent
                   ELSE [sent EXCEPT ![s] = Append(sent[s], f)]
        /\ UNCHANGED socket
    BY <1>0, <1>8 DEF PushSnapshot, FlowTypeOK
  <2>2. /\ f \in FrameType /\ f.kind # "output"
        /\ f.kind = "snapshot" => done /\ f.chunks = capture[s].chunks
    <3>1. /\ <<>> \in Seq(Nat) \cup SUBSET Nat /\ capture[s].chunks \in Seq(Nat) \cup SUBSET Nat
          /\ "snapshot" \in FrameKinds /\ "error" \in FrameKinds /\ wants[s] \in Terminals
      BY <1>0 DEF CaptureType, FrameKinds
    <3>2. CASE done
      BY <3>1, <3>2, FrameTyped
    <3>3. CASE ~done
      <4>1. Frame("error", wants[s], <<>>) \in FrameType
            /\ Frame("error", wants[s], <<>>).kind = "error"
        BY <3>1, FrameTyped
      <4> QED BY <3>3, <4>1
    <3> QED BY <3>2, <3>3
  <2> HIDE DEF f
  <2>3. socket[s] # "unused"
    BY <1>0, <2>1 DEF Covered
  <2>4. CASE socket[s] # "open"
    BY <1>1, <1>2, <1>3, <1>4, <2>1, <2>3, <2>4, SocketStep
  <2>5. CASE socket[s] = "open"
    <3>1. sent' = [sent EXCEPT ![s] = Append(sent[s], f)]
      BY <2>1, <2>5
    <3>2. /\ sent' \in [Sockets -> Seq(FrameType)] /\ sent'[s] = Append(sent[s], f)
          /\ \A r \in Sockets \ {s} : sent'[r] = sent[r]
      BY <1>0, <2>2, <3>1 DEF FlowTypeOK
    <3>3. SendsOther
      BY <2>2, <3>2 DEF SendsOther
    <3>4. ASSUME NEW i \in Snapshots(sent'[s])
          PROVE  ChunksOf(wants[s]) \subseteq sent'[s][i].chunks \cup Reached(s)
      <4>1. CASE i \in DOMAIN sent[s]
        <5>1. i \in Snapshots(sent[s]) /\ sent'[s][i] = sent[s][i]
          BY <1>0, <2>2, <3>2, <3>4, <4>1, AppendFrame DEF Snapshots
        <5> QED BY <1>0, <2>5, <5>1 DEF Covered
      <4>2. CASE i \notin DOMAIN sent[s]
        <5>1. sent'[s][i] = f /\ f.kind = "snapshot"
          BY <1>0, <2>2, <3>2, <3>4, <4>2, AppendFrame DEF Snapshots
        <5> QED BY <1>0, <2>2, <2>5, <5>1 DEF Covered
      <4> QED BY <4>1, <4>2
    <3> QED BY <1>1, <1>3, <1>4, <2>1, <2>3, <3>2, <3>3, <3>4, SocketStep
  <2> QED BY <2>4, <2>5
<1> QED BY <1>5, <1>6, <1>7, <1>8

LEMMA StreamStepHolds == StreamIInv /\ [StreamNext]_streamVars => StreamIInv'
<1> SUFFICES ASSUME StreamIInv, [StreamNext]_streamVars PROVE StreamIInv'
  OBVIOUS
<1>1. FlowStep
  <2>1. CASE UNCHANGED streamVars
    <3>1. UNCHANGED <<gatewayVars, coalesce, sent, printed, lines, lost>>
      BY <2>1 DEF streamVars, gatewayVars
    <3>2. LinesOK' /\ UnreadChunks' = UnreadChunks
      BY <3>1 DEF LinesOK, UnreadChunks, StreamIInv, PipeIInv
    <3> QED BY <3>1, <3>2, QuietStep DEF FlowStep
  <2> QED BY <2>1, StepOfLoop, StepOfPane, StepOfLine, StepOfTimer, StepOfSocket
          DEF StreamNext, GatewayStep
<1>2. SubscriptionIInv'
  BY SubscriptionStep DEF StreamIInv, PipeIInv
<1> QED BY <1>1, <1>2 DEF FlowStep, StreamIInv, PipeIInv

\* What a socket is sent as live output is its own terminal's, each chunk once
\* and in the order the pane printed them, whatever the timers, reattaches,
\* disconnects and the shutdown flush do in between (coalesceOutput, flush).
THEOREM OutputOrdered == StreamSpec => []OutputInOrderOnce
<1>1. StreamIInv => OutputInOrderOnce
  BY DEF StreamIInv, PipeIInv, FlowOK, OutputInOrderOnce, Streamed, OutputOf, ChunksOf
<1> QED BY <1>1, StreamInitHolds, StreamStepHolds, PTL DEF StreamSpec

\* After its snapshot an open socket misses no chunk the gateway was given: the
\* subscription is there before the capture, so what is printed meanwhile is
\* held back or sent and never dropped (handleConnection, pushInitialSnapshot).
THEOREM SnapshotLeavesNoGap == StreamSpec => []NoGapAfterSnapshot
<1>1. StreamIInv => NoGapAfterSnapshot
  BY DEF StreamIInv, Covered, Reached, NoGapAfterSnapshot, Streamed, OutputOf, InFlight
<1> QED BY <1>1, StreamInitHolds, StreamStepHolds, PTL DEF StreamSpec

=============================================================================
