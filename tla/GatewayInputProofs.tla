------------------------- MODULE GatewayInputProofs -------------------------
(***************************************************************************)
(* Proofs about the input path, for every set of terminals and sockets and *)
(* every bound: its types, that one command runs per terminal, that the    *)
(* promise chain implements the FIFO queue of InputQueue, and that a pane  *)
(* receives the frames of its terminal in the order they came.             *)
(*                                                                         *)
(* The argument is one invariant, Chain: the settled links of a terminal   *)
(* are a prefix of its links, a link that runs or may start is the first   *)
(* after that prefix, and an absent map entry means that the prefix is all *)
(* there is, so that a new link started on a resolved promise overtakes    *)
(* nothing.  PanesOK carries that order from the chain to the panes.       *)
(***************************************************************************)
EXTENDS GatewayInput, SequenceTheorems, TLAPS

Chain(t) ==
    /\ Len(served[t]) <= Len(links[t])
    /\ \A n \in 1..Len(served[t]) : served[t][n] = n
    /\ \A i \in DOMAIN links[t] : Settled(links[t][i]) <=> i <= Len(served[t])
    /\ \A i \in Running(t) : i = Len(served[t]) + 1
    /\ \A i \in DOMAIN links[t] : links[t][i].prev \in {0, i - 1}
    /\ \A i \in DOMAIN links[t] :
          links[t][i].stage = "waiting" /\ links[t][i].prev = 0
              => i = Len(served[t]) + 1
    /\ tail[t] \in {0, Len(links[t])}
    /\ tail[t] = 0 => Len(served[t]) = Len(links[t])

InputIInv == InputTypeOK /\ \A t \in Terminals : Chain(t)

USE InputAssumption DEF Windows, Stages, Outcomes

----------------------------------------------------------------------------
(* Sequences changed at one place.                                         *)

\* Replacing a link keeps the typing, the length and the other links.
LEMMA LinkReplaced ==
    ASSUME links \in [Terminals -> Seq(LinkType)],
           NEW t \in Terminals, NEW i \in DOMAIN links[t], NEW l \in LinkType,
           links' = [links EXCEPT ![t] = [@ EXCEPT ![i] = l]]
    PROVE  /\ links' \in [Terminals -> Seq(LinkType)]
           /\ \A u \in Terminals : /\ Len(links'[u]) = Len(links[u])
                                   /\ DOMAIN links'[u] = DOMAIN links[u]
                                   /\ u # t => links'[u] = links[u]
           /\ links'[t][i] = l
           /\ \A j \in DOMAIN links[t] : j # i => links'[t][j] = links[t][j]
  <1>1. links[t] \in Seq(LinkType) /\ i \in 1..Len(links[t])
    OBVIOUS
  <1> DEFINE s == [links[t] EXCEPT ![i] = l]
  <1>2. s \in Seq(LinkType) /\ Len(s) = Len(links[t])
    BY <1>1
  <1>3. links'[t] = s /\ \A u \in Terminals : u # t => links'[u] = links[u]
    OBVIOUS
  <1>4. links' \in [Terminals -> Seq(LinkType)]
    BY <1>2
  <1>5. s[i] = l /\ \A j \in DOMAIN links[t] : j # i => s[j] = links[t][j]
    BY <1>1
  <1> QED BY <1>1, <1>2, <1>3, <1>4, <1>5

\* Appending to one of a family of sequences.
LEMMA Appended ==
    ASSUME NEW S, NEW f \in [Terminals -> Seq(S)], NEW t \in Terminals, NEW x \in S,
           NEW g, g = [f EXCEPT ![t] = Append(@, x)]
    PROVE  /\ g \in [Terminals -> Seq(S)]
           /\ Len(g[t]) = Len(f[t]) + 1
           /\ g[t][Len(f[t]) + 1] = x
           /\ DOMAIN g[t] = 1..(Len(f[t]) + 1)
           /\ \A j \in 1..Len(f[t]) : g[t][j] = f[t][j]
           /\ \A u \in Terminals : u # t => g[u] = f[u]
  <1>1. f[t] \in Seq(S)
    OBVIOUS
  <1>2. g[t] = Append(f[t], x)
    OBVIOUS
  <1> QED BY <1>1, <1>2

\* The frames after the first m of a terminal, as the queue maps them: what
\* accepting one more and finishing the first do to them.
LEMMA RangeGrows ==
    ASSUME NEW m \in Nat, NEW k \in Nat
    PROVE  /\ Len([n \in 1..k |-> m + n]) = k
           /\ Append([n \in 1..k |-> m + n], k + m + 1) = [n \in 1..(k + 1) |-> m + n]
  <1> DEFINE r == [n \in 1..k |-> m + n]
             q == [n \in 1..(k + 1) |-> m + n]
  <1>1. r \in Seq(Nat) /\ Len(r) = k
    OBVIOUS
  <1>2. q \in Seq(Nat) /\ Len(q) = k + 1
    OBVIOUS
  <1>3. Append(r, k + m + 1) \in Seq(Nat) /\ Len(Append(r, k + m + 1)) = k + 1
    BY <1>1
  <1>4. \A j \in 1..(k + 1) : Append(r, k + m + 1)[j] = q[j]
    BY <1>1
  <1> QED BY <1>1, <1>2, <1>3, <1>4

LEMMA RangeShrinks ==
    ASSUME NEW m \in Nat, NEW k \in Nat \ {0}
    PROVE  /\ [n \in 1..k |-> m + n] # <<>>
           /\ Head([n \in 1..k |-> m + n]) = m + 1
           /\ Tail([n \in 1..k |-> m + n]) = [n \in 1..(k - 1) |-> (m + 1) + n]
  <1> DEFINE r == [n \in 1..k |-> m + n]
             q == [n \in 1..(k - 1) |-> (m + 1) + n]
  <1>1. r \in Seq(Nat) /\ Len(r) = k
    OBVIOUS
  <1>2. q \in Seq(Nat) /\ Len(q) = k - 1
    OBVIOUS
  <1>3. Tail(r) \in Seq(Nat) /\ Len(Tail(r)) = k - 1
    BY <1>1
  <1>4. \A j \in 1..(k - 1) : Tail(r)[j] = q[j]
    BY <1>1
  <1>5. Head(r) = m + 1 /\ r # <<>>
    BY <1>1
  <1>6. Tail(r) = q
    <2> HIDE DEF r, q
    <2> QED BY <1>2, <1>3, <1>4, SeqEqual
  <1> QED BY <1>5, <1>6

----------------------------------------------------------------------------
(* What a step does to the queue: nothing, one frame accepted at the end,  *)
(* or the first unfinished frame finished.                                 *)

SameLengths == \A u \in Terminals : Len(links'[u]) = Len(links[u])
Keeps == SameLengths /\ served' = served
Accepts(t) ==
    /\ \A u \in Terminals : Len(links'[u]) = IF u = t THEN Len(links[u]) + 1
                                                    ELSE Len(links[u])
    /\ served' = served
Finishes(t) ==
    /\ SameLengths
    /\ Len(served[t]) < Len(links[t])
    /\ served' = [served EXCEPT ![t] = Append(@, Len(served[t]) + 1)]
Effect == Keeps \/ \E t \in Terminals : Accepts(t) \/ Finishes(t)

LEMMA InitChain == InputInit => InputIInv
  BY DEF InputInit, InputIInv, InputTypeOK, Chain, Running, LinkType

\* A link that may start, or that runs, is the first unfinished one.
LEMMA ReadyIsFirst ==
    ASSUME InputIInv, NEW t \in Terminals, NEW i \in DOMAIN links[t],
           Ready(t, i) \/ links[t][i].stage \in {"text", "enter"}
    PROVE  /\ i = Len(served[t]) + 1 /\ i \in 1..Len(links[t])
           /\ ~Settled(links[t][i]) /\ links[t][i] \in LinkType
  <1>1. links[t] \in Seq(LinkType) /\ served[t] \in Seq(1..MaxFrames)
    BY DEF InputIInv, InputTypeOK
  <1>2. i \in 1..Len(links[t]) /\ links[t][i] \in LinkType
    BY <1>1
  <1>3. Len(served[t]) \in Nat
    BY <1>1
  <1>4. Chain(t)
    BY DEF InputIInv
  <1>5. CASE Ready(t, i)
    <2>1. CASE links[t][i].prev = 0
      BY <1>2, <1>4, <1>5, <2>1 DEF Chain, Ready, Settled
    <2>2. CASE links[t][i].prev # 0
      <3>1. links[t][i].prev = i - 1 /\ i - 1 \in 1..Len(links[t])
        BY <1>2, <1>4, <2>2 DEF Chain
      <3>2. i - 1 <= Len(served[t])
        BY <1>1, <1>4, <1>5, <2>2, <3>1 DEF Chain, Ready
      <3>3. ~Settled(links[t][i]) /\ ~(i <= Len(served[t]))
        BY <1>1, <1>2, <1>4, <1>5 DEF Chain, Ready, Settled
      <3> QED BY <1>2, <1>3, <3>2, <3>3
    <2> QED BY <2>1, <2>2
  <1>6. CASE links[t][i].stage \in {"text", "enter"}
    BY <1>2, <1>4, <1>6 DEF Chain, Running, Settled
  <1> QED BY <1>5, <1>6

\* A step that changes neither links nor served nor tail keeps Chain.
LEMMA ChainUntouched ==
    ASSUME InputIInv, UNCHANGED <<links, served, tail>>
    PROVE  \A t \in Terminals : Chain(t)'
  BY DEF InputIInv, Chain, Running, Settled

\* The first unfinished link moves on to run a command.
LEMMA RunFirst ==
    ASSUME InputIInv, NEW t \in Terminals, NEW i \in DOMAIN links[t],
           NEW l \in LinkType,
           i = Len(served[t]) + 1, i \in 1..Len(links[t]), ~Settled(links[t][i]),
           l.stage \in {"text", "enter"}, l.prev = links[t][i].prev, l.window \in Windows,
           links' = [links EXCEPT ![t] = [@ EXCEPT ![i] = l]],
           UNCHANGED <<served, tail>>
    PROVE  /\ links' \in [Terminals -> Seq(LinkType)]
           /\ \A u \in Terminals : Len(links'[u]) <= MaxFrames /\ tail'[u] <= Len(links'[u])
           /\ \A u \in Terminals : \A j \in Running(u)' : links'[u][j].window \in Windows
           /\ \A u \in Terminals : Chain(u)'
           /\ Keeps
  <1>1. links \in [Terminals -> Seq(LinkType)]
    BY DEF InputIInv, InputTypeOK
  <1>2. /\ links' \in [Terminals -> Seq(LinkType)]
        /\ \A u \in Terminals : /\ Len(links'[u]) = Len(links[u])
                                /\ DOMAIN links'[u] = DOMAIN links[u]
                                /\ u # t => links'[u] = links[u]
        /\ links'[t][i] = l
        /\ \A j \in DOMAIN links[t] : j # i => links'[t][j] = links[t][j]
    BY <1>1, LinkReplaced
  <1>3. \A u \in Terminals : Len(links'[u]) <= MaxFrames /\ tail'[u] <= Len(links'[u])
    BY <1>2 DEF InputIInv, InputTypeOK
  <1>4. \A u \in Terminals : \A j \in Running(u)' : links'[u][j].window \in Windows
    BY <1>2 DEF InputIInv, InputTypeOK, Running
  <1>5. ASSUME NEW u \in Terminals PROVE Chain(u)'
    <2>1. Chain(u) /\ Chain(t)
      BY DEF InputIInv
    <2>2. CASE u # t
      BY <1>2, <2>1, <2>2 DEF Chain, Running, Settled
    <2>3. CASE u = t
      <3>1. \A j \in DOMAIN links'[t] : Settled(links'[t][j]) <=> j <= Len(served'[t])
        BY <1>2, <2>1 DEF Chain, Settled
      <3>2. \A j \in Running(t)' : j = Len(served'[t]) + 1
        BY <1>2, <2>1 DEF Chain, Running
      <3>3. \A j \in DOMAIN links'[t] :
               /\ links'[t][j].prev \in {0, j - 1}
               /\ links'[t][j].stage = "waiting" /\ links'[t][j].prev = 0
                     => j = Len(served'[t]) + 1
        BY <1>2, <2>1 DEF Chain
      <3> QED BY <1>2, <2>1, <2>3, <3>1, <3>2, <3>3 DEF Chain
    <2> QED BY <2>2, <2>3
  <1>6. Keeps
    BY <1>2 DEF Keeps, SameLengths
  <1> QED BY <1>2, <1>3, <1>4, <1>5, <1>6

\* The first unfinished link settles.
LEMMA SettleFirst ==
    ASSUME InputIInv, NEW t \in Terminals, NEW i \in DOMAIN links[t],
           NEW o \in Outcomes,
           i = Len(served[t]) + 1, i \in 1..Len(links[t]), ~Settled(links[t][i]),
           links[t][i] \in LinkType,
           Settle(t, i, o), UNCHANGED tail
    PROVE  /\ links' \in [Terminals -> Seq(LinkType)]
           /\ served' \in [Terminals -> Seq(1..MaxFrames)]
           /\ \A u \in Terminals : Len(links'[u]) <= MaxFrames /\ tail'[u] <= Len(links'[u])
           /\ \A u \in Terminals : \A j \in Running(u)' : links'[u][j].window \in Windows
           /\ \A u \in Terminals : Chain(u)'
           /\ Finishes(t)
  <1> DEFINE l == [links[t][i] EXCEPT !.stage = "settled", !.outcome = o]
  <1>1. /\ links \in [Terminals -> Seq(LinkType)]
        /\ served \in [Terminals -> Seq(1..MaxFrames)]
        /\ Len(links[t]) <= MaxFrames /\ i \in 1..MaxFrames
    BY DEF InputIInv, InputTypeOK
  <1>2. l \in LinkType /\ l.stage = "settled" /\ l.prev = links[t][i].prev
    BY DEF LinkType
  <1>3. links' = [links EXCEPT ![t] = [@ EXCEPT ![i] = l]]
    BY <1>1 DEF Settle
  <1> HIDE DEF l
  <1>4. /\ links' \in [Terminals -> Seq(LinkType)]
        /\ \A u \in Terminals : /\ Len(links'[u]) = Len(links[u])
                                /\ DOMAIN links'[u] = DOMAIN links[u]
                                /\ u # t => links'[u] = links[u]
        /\ links'[t][i] = l
        /\ \A j \in DOMAIN links[t] : j # i => links'[t][j] = links[t][j]
    BY <1>1, <1>2, <1>3, LinkReplaced
  <1>5. served' = [served EXCEPT ![t] = Append(@, i)]
    BY DEF Settle
  <1>6. /\ served' \in [Terminals -> Seq(1..MaxFrames)]
        /\ Len(served'[t]) = i
        /\ served'[t][i] = i
        /\ \A j \in 1..Len(served[t]) : served'[t][j] = served[t][j]
        /\ \A u \in Terminals : u # t => served'[u] = served[u]
    BY <1>1, <1>5, Appended
  <1>7. \A u \in Terminals : Len(links'[u]) <= MaxFrames /\ tail'[u] <= Len(links'[u])
    BY <1>4 DEF InputIInv, InputTypeOK
  <1>8. ASSUME NEW u \in Terminals, NEW j \in Running(u)'
        PROVE  links'[u][j].window \in Windows
    <2>1. j \in DOMAIN links[u] /\ links'[u][j].stage \in {"text", "enter"}
      BY <1>4 DEF Running
    <2>2. links'[u][j] = links[u][j]
      BY <1>2, <1>4, <2>1
    <2>3. j \in Running(u)
      BY <2>1, <2>2 DEF Running
    <2> QED BY <2>2, <2>3 DEF InputIInv, InputTypeOK
  <1>9. ASSUME NEW u \in Terminals PROVE Chain(u)'
    <2>1. Chain(u) /\ Chain(t)
      BY DEF InputIInv
    <2>2. CASE u # t
      BY <1>4, <1>6, <2>1, <2>2 DEF Chain, Running, Settled
    <2>3. CASE u = t
      <3>0. Len(served[t]) \in Nat /\ Len(links[t]) \in Nat /\ DOMAIN links[t] = 1..Len(links[t])
        BY <1>1
      <3>1. \A j \in DOMAIN links'[t] : Settled(links'[t][j]) <=> j <= Len(served'[t])
        <4> SUFFICES ASSUME NEW j \in 1..Len(links[t])
                     PROVE  Settled(links'[t][j]) <=> j <= i
          BY <1>4, <1>6, <3>0
        <4>1. CASE j = i
          BY <1>2, <1>4, <4>1 DEF Settled
        <4>2. CASE j # i
          BY <1>4, <2>1, <3>0, <4>2 DEF Chain
        <4> QED BY <4>1, <4>2
      <3>2. \A j \in Running(t)' : j = Len(served'[t]) + 1
        BY <1>2, <1>4, <2>1 DEF Chain, Running
      <3>3. \A j \in DOMAIN links'[t] :
               /\ links'[t][j].prev \in {0, j - 1}
               /\ links'[t][j].stage = "waiting" /\ links'[t][j].prev = 0
                     => j = Len(served'[t]) + 1
        BY <1>2, <1>4, <2>1 DEF Chain
      <3>4. \A n \in 1..Len(served'[t]) : served'[t][n] = n
        <4>1. \A n \in 1..Len(served[t]) : served'[t][n] = n
          BY <1>6, <2>1 DEF Chain
        <4>2. \A n \in 1..i : n = i \/ n \in 1..Len(served[t])
          BY <3>0
        <4> QED BY <1>6, <4>1, <4>2
      <3>5. tail'[t] \in {0, Len(links'[t])} /\ (tail'[t] = 0 => Len(served'[t]) = Len(links'[t]))
        BY <1>4, <1>6, <2>1, <3>0 DEF Chain
      <3> QED BY <1>4, <1>6, <2>3, <3>1, <3>2, <3>3, <3>4, <3>5 DEF Chain
    <2> QED BY <2>2, <2>3
  <1>10. Finishes(t)
    BY <1>1, <1>4, <1>5 DEF Finishes, SameLengths
  <1> QED BY <1>4, <1>6, <1>7, <1>8, <1>9, <1>10

----------------------------------------------------------------------------
(* The invariant is kept by every action, each with one effect.            *)

LEMMA ReceiveKeeps ==
    ASSUME InputIInv, NEW s \in Sockets, NEW t \in Terminals, NEW k \in Kinds,
           Receive(s, t, k)
    PROVE  InputIInv' /\ Effect
  <1>1. CASE subscribed[s] # t
    <2>1. UNCHANGED <<links, served, tail, windowVars, pane, subscribed>>
          /\ socket' = [socket EXCEPT ![s] = "closing"]
      BY <1>1 DEF Receive
    <2>2. InputTypeOK'
      BY <2>1 DEF InputIInv, InputTypeOK, windowVars, Running
    <2>3. Keeps
      BY <2>1 DEF Keeps, SameLengths
    <2> QED BY <2>1, <2>2, <2>3, ChainUntouched DEF InputIInv, Effect
  <1>2. CASE subscribed[s] = t
    <2> DEFINE l == Link(s, k, tail[t])
    <2>1. /\ links' = [links EXCEPT ![t] = Append(@, l)]
          /\ tail' = [tail EXCEPT ![t] = Len(links[t]) + 1]
          /\ UNCHANGED <<socket, subscribed, windowVars, pane, served>>
          /\ Len(links[t]) < MaxFrames
      BY <1>2 DEF Receive, EnqueueInput
    <2>2. /\ links \in [Terminals -> Seq(LinkType)]
          /\ tail \in [Terminals -> 0..MaxFrames]
          /\ served \in [Terminals -> Seq(1..MaxFrames)]
      BY DEF InputIInv, InputTypeOK
    <2>3. l \in LinkType /\ l.stage = "waiting" /\ l.prev = tail[t]
      BY <2>2 DEF Link, LinkType
    <2> HIDE DEF l
    <2>4. /\ links' \in [Terminals -> Seq(LinkType)]
          /\ Len(links'[t]) = Len(links[t]) + 1
          /\ links'[t][Len(links[t]) + 1] = l
          /\ DOMAIN links'[t] = 1..(Len(links[t]) + 1)
          /\ \A j \in 1..Len(links[t]) : links'[t][j] = links[t][j]
          /\ \A u \in Terminals : u # t => links'[u] = links[u]
      BY <2>1, <2>2, <2>3, Appended
    <2>5. Len(links[t]) \in Nat /\ DOMAIN links[t] = 1..Len(links[t])
      BY <2>2
    <2>6. \A u \in Terminals : Len(links'[u]) <= MaxFrames /\ tail'[u] <= Len(links'[u])
      BY <2>1, <2>2, <2>4, <2>5 DEF InputIInv, InputTypeOK
    <2>7. ASSUME NEW u \in Terminals, NEW j \in Running(u)'
          PROVE  links'[u][j].window \in Windows
      <3>1. j \in DOMAIN links[u] /\ links'[u][j] = links[u][j]
        <4>1. j \in DOMAIN links'[u] /\ links'[u][j].stage \in {"text", "enter"}
          BY DEF Running
        <4>2. CASE u # t
          BY <2>4, <4>1, <4>2
        <4>3. CASE u = t
          <5>1. j # Len(links[t]) + 1
            BY <2>3, <2>4, <4>1, <4>3
          <5>2. j \in 1..Len(links[t])
            BY <2>4, <2>5, <4>1, <4>3, <5>1
          <5> QED BY <2>4, <2>5, <4>3, <5>2
        <4> QED BY <4>2, <4>3
      <3>2. j \in Running(u)
        BY <3>1 DEF Running
      <3> QED BY <3>1, <3>2 DEF InputIInv, InputTypeOK
    <2>8. InputTypeOK'
      <3>1. tail' \in [Terminals -> 0..MaxFrames]
        BY <2>1, <2>2, <2>5
      <3>2. pane' = pane /\ served' = served /\ UNCHANGED <<subscribed, socket, windowVars>>
        BY <2>1
      <3> QED BY <2>4, <2>6, <2>7, <3>1, <3>2 DEF InputIInv, InputTypeOK, windowVars
    <2>9. ASSUME NEW u \in Terminals PROVE Chain(u)'
      <3>1. Chain(u) /\ Chain(t)
        BY DEF InputIInv
      <3>2. CASE u # t
        BY <2>1, <2>4, <3>1, <3>2 DEF Chain, Running, Settled
      <3>3. CASE u = t
        <4>0. Len(served[t]) \in Nat /\ served' = served
          BY <2>1, <2>2
        <4>1. \A j \in DOMAIN links'[t] : Settled(links'[t][j]) <=> j <= Len(served[t])
          <5>1. ~Settled(links'[t][Len(links[t]) + 1])
            BY <2>3, <2>4 DEF Settled
          <5>2. \A j \in 1..Len(links[t]) : Settled(links'[t][j]) <=> j <= Len(served[t])
            BY <2>4, <2>5, <3>1 DEF Chain
          <5> QED BY <2>4, <2>5, <3>1, <4>0, <5>1, <5>2 DEF Chain
        <4>2. \A j \in Running(t)' : j = Len(served[t]) + 1
          <5>1. \A j \in Running(t)' : j \in Running(t)
            BY <2>3, <2>4, <2>5 DEF Running
          <5> QED BY <3>1, <5>1 DEF Chain
        <4>3. l.prev \in {0, Len(links[t])} /\ (l.prev = 0 => Len(served[t]) = Len(links[t]))
          BY <2>3, <3>1 DEF Chain
        <4>4. \A j \in DOMAIN links'[t] :
                 /\ links'[t][j].prev \in {0, j - 1}
                 /\ links'[t][j].stage = "waiting" /\ links'[t][j].prev = 0
                       => j = Len(served[t]) + 1
          <5>1. \A j \in 1..Len(links[t]) :
                   /\ links'[t][j].prev \in {0, j - 1}
                   /\ links'[t][j].stage = "waiting" /\ links'[t][j].prev = 0
                         => j = Len(served[t]) + 1
            BY <2>4, <2>5, <3>1 DEF Chain
          <5>2. \A j \in DOMAIN links'[t] : j \in 1..Len(links[t]) \/ j = Len(links[t]) + 1
            BY <2>4, <2>5
          <5>3. Len(links[t]) = (Len(links[t]) + 1) - 1
            BY <2>5
          <5>4. /\ links'[t][Len(links[t]) + 1].prev \in {0, (Len(links[t]) + 1) - 1}
                /\ links'[t][Len(links[t]) + 1].prev = 0
                      => Len(links[t]) + 1 = Len(served[t]) + 1
            BY <2>4, <4>3, <5>3
          <5> QED BY <5>1, <5>2, <5>4
        <4>5. tail'[t] = Len(links'[t]) /\ tail'[t] # 0 /\ Len(served[t]) <= Len(links'[t])
          BY <2>1, <2>2, <2>4, <2>5, <3>1, <4>0 DEF Chain
        <4> QED BY <3>1, <3>3, <4>0, <4>1, <4>2, <4>4, <4>5 DEF Chain
      <3> QED BY <3>2, <3>3
    <2>10. Accepts(t)
      BY <2>1, <2>4 DEF Accepts
    <2> QED BY <2>8, <2>9, <2>10 DEF InputIInv, Effect
  <1> QED BY <1>1, <1>2

LEMMA StartKeeps ==
    ASSUME InputIInv, NEW t \in Terminals, NEW i \in DOMAIN links[t], Start(t, i)
    PROVE  InputIInv' /\ Effect
  <1>1. /\ i = Len(served[t]) + 1 /\ i \in 1..Len(links[t])
        /\ ~Settled(links[t][i]) /\ links[t][i] \in LinkType
    BY ReadyIsFirst DEF Start
  <1>2. UNCHANGED <<connVars, windowVars, tail, pane>>
    BY DEF Start
  <1>3. CASE current[t] = 0
    <2>1. Settle(t, i, "dropped") /\ "dropped" \in Outcomes /\ UNCHANGED tail
      BY <1>2, <1>3 DEF Start
    <2>2. /\ links' \in [Terminals -> Seq(LinkType)]
          /\ served' \in [Terminals -> Seq(1..MaxFrames)]
          /\ \A u \in Terminals : Len(links'[u]) <= MaxFrames /\ tail'[u] <= Len(links'[u])
          /\ \A u \in Terminals : \A j \in Running(u)' : links'[u][j].window \in Windows
          /\ \A u \in Terminals : Chain(u)'
          /\ Finishes(t)
      BY <1>1, <2>1, SettleFirst
    <2> QED BY <1>2, <2>2 DEF InputIInv, InputTypeOK, connVars, windowVars, Effect
  <1>4. CASE current[t] # 0
    <2> DEFINE l == [links[t][i] EXCEPT !.stage = "text", !.window = current[t]]
    <2>1. current[t] \in Windows
      BY <1>4 DEF InputIInv, InputTypeOK
    <2>2. l \in LinkType /\ l.stage = "text" /\ l.prev = links[t][i].prev /\ l.window \in Windows
      BY <1>1, <2>1 DEF LinkType
    <2>3. links' = [links EXCEPT ![t] = [@ EXCEPT ![i] = l]] /\ UNCHANGED <<served, tail>>
      BY <1>2, <1>4 DEF Start, InputIInv, InputTypeOK
    <2> HIDE DEF l
    <2>4. /\ links' \in [Terminals -> Seq(LinkType)]
          /\ \A u \in Terminals : Len(links'[u]) <= MaxFrames /\ tail'[u] <= Len(links'[u])
          /\ \A u \in Terminals : \A j \in Running(u)' : links'[u][j].window \in Windows
          /\ \A u \in Terminals : Chain(u)'
          /\ Keeps
      BY <1>1, <2>2, <2>3, RunFirst
    <2> QED BY <1>2, <2>3, <2>4 DEF InputIInv, InputTypeOK, connVars, windowVars, Effect
  <1> QED BY <1>3, <1>4

LEMMA SendKeysEndsKeeps ==
    ASSUME InputIInv, NEW t \in Terminals, NEW i \in DOMAIN links[t], SendKeysEnds(t, i)
    PROVE  InputIInv' /\ Effect
  <1>1. /\ i = Len(served[t]) + 1 /\ i \in 1..Len(links[t])
        /\ ~Settled(links[t][i]) /\ links[t][i] \in LinkType
    BY ReadyIsFirst DEF SendKeysEnds
  <1>2. UNCHANGED <<connVars, windowVars, tail>> /\ links[t][i].stage \in {"text", "enter"}
    BY DEF SendKeysEnds
  <1>3. links[t][i].window \in Windows
    BY <1>2 DEF InputIInv, InputTypeOK, Running
  <1>4. pane' \in [Terminals -> [Windows -> Seq((1..MaxFrames) \X {"text", "enter"})]]
    <2> DEFINE w == links[t][i].window
               x == <<i, links[t][i].stage>>
    <2>1. pane \in [Terminals -> [Windows -> Seq((1..MaxFrames) \X {"text", "enter"})]]
      BY DEF InputIInv, InputTypeOK
    <2>2. x \in (1..MaxFrames) \X {"text", "enter"}
      BY <1>1, <1>2 DEF InputIInv, InputTypeOK
    <2>3. pane' = [pane EXCEPT ![t] = [@ EXCEPT ![w] = Append(pane[t][w], x)]]
      BY <2>1 DEF SendKeysEnds, Typed
    <2> HIDE DEF w, x
    <2>4. Append(pane[t][w], x) \in Seq((1..MaxFrames) \X {"text", "enter"})
      BY <1>3, <2>1, <2>2 DEF w
    <2>5. [pane[t] EXCEPT ![w] = Append(pane[t][w], x)]
              \in [Windows -> Seq((1..MaxFrames) \X {"text", "enter"})]
      BY <2>1, <2>4
    <2> QED BY <2>1, <2>3, <2>5
  <1>5. CASE links[t][i].kind = "line" /\ links[t][i].stage = "text"
    <2> DEFINE l == [links[t][i] EXCEPT !.stage = "enter"]
    <2>1. l \in LinkType /\ l.stage = "enter" /\ l.prev = links[t][i].prev /\ l.window \in Windows
      BY <1>1, <1>3 DEF LinkType
    <2>2. links' = [links EXCEPT ![t] = [@ EXCEPT ![i] = l]] /\ UNCHANGED <<served, tail>>
      BY <1>2, <1>5 DEF SendKeysEnds, InputIInv, InputTypeOK
    <2> HIDE DEF l
    <2>3. /\ links' \in [Terminals -> Seq(LinkType)]
          /\ \A u \in Terminals : Len(links'[u]) <= MaxFrames /\ tail'[u] <= Len(links'[u])
          /\ \A u \in Terminals : \A j \in Running(u)' : links'[u][j].window \in Windows
          /\ \A u \in Terminals : Chain(u)'
          /\ Keeps
      BY <1>1, <2>1, <2>2, RunFirst
    <2> QED BY <1>2, <1>4, <2>2, <2>3 DEF InputIInv, InputTypeOK, connVars, windowVars, Effect
  <1>6. CASE ~(links[t][i].kind = "line" /\ links[t][i].stage = "text")
    <2>1. Settle(t, i, "sent") /\ "sent" \in Outcomes /\ UNCHANGED tail
      BY <1>2, <1>6 DEF SendKeysEnds
    <2>2. /\ links' \in [Terminals -> Seq(LinkType)]
          /\ served' \in [Terminals -> Seq(1..MaxFrames)]
          /\ \A u \in Terminals : Len(links'[u]) <= MaxFrames /\ tail'[u] <= Len(links'[u])
          /\ \A u \in Terminals : \A j \in Running(u)' : links'[u][j].window \in Windows
          /\ \A u \in Terminals : Chain(u)'
          /\ Finishes(t)
      BY <1>1, <2>1, SettleFirst
    <2> QED BY <1>2, <1>4, <2>2 DEF InputIInv, InputTypeOK, connVars, windowVars, Effect
  <1> QED BY <1>5, <1>6

LEMMA SendKeysFailsKeeps ==
    ASSUME InputIInv, NEW t \in Terminals, NEW i \in DOMAIN links[t], SendKeysFails(t, i)
    PROVE  InputIInv' /\ Effect
  <1>1. /\ i = Len(served[t]) + 1 /\ i \in 1..Len(links[t])
        /\ ~Settled(links[t][i]) /\ links[t][i] \in LinkType
    BY ReadyIsFirst DEF SendKeysFails
  <1>2. UNCHANGED <<connVars, windowVars, tail, pane>>
    BY DEF SendKeysFails
  <1>3. Settle(t, i, "failed") /\ "failed" \in Outcomes /\ UNCHANGED tail
    BY <1>2 DEF SendKeysFails
  <1>4. /\ links' \in [Terminals -> Seq(LinkType)]
        /\ served' \in [Terminals -> Seq(1..MaxFrames)]
        /\ \A u \in Terminals : Len(links'[u]) <= MaxFrames /\ tail'[u] <= Len(links'[u])
        /\ \A u \in Terminals : \A j \in Running(u)' : links'[u][j].window \in Windows
        /\ \A u \in Terminals : Chain(u)'
        /\ Finishes(t)
    BY <1>1, <1>3, SettleFirst
  <1> QED BY <1>2, <1>4 DEF InputIInv, InputTypeOK, connVars, windowVars, Effect

LEMMA FinallyKeeps ==
    ASSUME InputIInv, NEW t \in Terminals, NEW i \in DOMAIN links[t], Finally(t, i)
    PROVE  InputIInv' /\ Effect
  <1> DEFINE l == [links[t][i] EXCEPT !.stage = "done"]
  <1>1. /\ links \in [Terminals -> Seq(LinkType)]
        /\ tail \in [Terminals -> 0..MaxFrames]
        /\ served \in [Terminals -> Seq(1..MaxFrames)]
    BY DEF InputIInv, InputTypeOK
  <1>2. links[t][i] \in LinkType /\ i \in 1..Len(links[t]) /\ DOMAIN links[t] = 1..Len(links[t])
    BY <1>1
  <1>3. l \in LinkType /\ l.stage = "done" /\ l.prev = links[t][i].prev
    BY <1>2 DEF LinkType
  <1>4. links' = [links EXCEPT ![t] = [@ EXCEPT ![i] = l]]
    BY <1>1 DEF Finally
  <1> HIDE DEF l
  <1>5. /\ links' \in [Terminals -> Seq(LinkType)]
        /\ \A u \in Terminals : /\ Len(links'[u]) = Len(links[u])
                                /\ DOMAIN links'[u] = DOMAIN links[u]
                                /\ u # t => links'[u] = links[u]
        /\ links'[t][i] = l
        /\ \A j \in DOMAIN links[t] : j # i => links'[t][j] = links[t][j]
    BY <1>1, <1>3, <1>4, LinkReplaced
  <1>6. /\ tail' = [tail EXCEPT ![t] = IF @ = i THEN 0 ELSE @]
        /\ links[t][i].stage = "settled"
        /\ UNCHANGED <<connVars, windowVars, pane, served>>
    BY DEF Finally
  <1>7. tail' \in [Terminals -> 0..MaxFrames]
        /\ \A u \in Terminals : Len(links'[u]) <= MaxFrames /\ tail'[u] <= Len(links'[u])
    BY <1>1, <1>5, <1>6 DEF InputIInv, InputTypeOK
  <1>8. ASSUME NEW u \in Terminals, NEW j \in Running(u)'
        PROVE  links'[u][j].window \in Windows
    <2>1. j \in DOMAIN links[u] /\ links'[u][j].stage \in {"text", "enter"}
      BY <1>5 DEF Running
    <2>2. links'[u][j] = links[u][j]
      BY <1>3, <1>5, <2>1
    <2>3. j \in Running(u)
      BY <2>1, <2>2 DEF Running
    <2> QED BY <2>2, <2>3 DEF InputIInv, InputTypeOK
  <1>9. InputTypeOK'
    <2>1. pane' = pane /\ served' = served /\ UNCHANGED <<connVars, windowVars>>
      BY <1>6
    <2> QED BY <1>5, <1>7, <1>8, <2>1 DEF InputIInv, InputTypeOK, connVars, windowVars
  <1>10. ASSUME NEW u \in Terminals PROVE Chain(u)'
    <2>1. Chain(u) /\ Chain(t) /\ served' = served
      BY <1>6 DEF InputIInv
    <2>2. CASE u # t
      BY <1>1, <1>5, <1>6, <2>1, <2>2 DEF Chain, Running, Settled
    <2>3. CASE u = t
      <3>1. \A j \in DOMAIN links[t] : Settled(links'[t][j]) <=> Settled(links[t][j])
        BY <1>3, <1>5, <1>6 DEF Settled
      <3>2. \A j \in Running(t)' : j \in Running(t)
        BY <1>3, <1>5 DEF Running
      <3>3. \A j \in DOMAIN links[t] :
               /\ links'[t][j].prev = links[t][j].prev
               /\ links'[t][j].stage = "waiting" => links[t][j].stage = "waiting"
        BY <1>3, <1>5
      <3>4. tail'[t] \in {0, Len(links'[t])} /\ (tail'[t] = 0 => Len(served[t]) = Len(links'[t]))
        <4>1. CASE tail[t] = i
          <5>1. i = Len(links[t]) /\ i <= Len(served[t]) /\ Len(served[t]) <= Len(links[t])
            BY <1>2, <1>6, <2>1, <4>1 DEF Chain, Settled
          <5>2. Len(served[t]) \in Nat /\ Len(links[t]) \in Nat
            BY <1>1
          <5> QED BY <1>1, <1>5, <1>6, <4>1, <5>1, <5>2
        <4>2. CASE tail[t] # i
          BY <1>1, <1>5, <1>6, <2>1, <4>2 DEF Chain
        <4> QED BY <4>1, <4>2
      <3> QED BY <1>5, <2>1, <2>3, <3>1, <3>2, <3>3, <3>4 DEF Chain
    <2> QED BY <2>2, <2>3
  <1>11. Keeps
    BY <1>5, <1>6 DEF Keeps, SameLengths
  <1> QED BY <1>9, <1>10, <1>11 DEF InputIInv, Effect

\* Sockets, windows and registrations leave the chains alone.
LEMMA OthersKeep ==
    ASSUME InputIInv,
           \/ \E s \in Sockets : SocketCloses(s)
           \/ \E t \in Terminals : WindowDies(t) \/ Evict(t) \/ Recreate(t)
           \/ UNCHANGED inputVars
    PROVE  InputIInv' /\ Effect
  <1>1. UNCHANGED <<links, served, tail>>
    BY DEF SocketCloses, WindowDies, Evict, Recreate, inputVars
  <1>2. Keeps /\ \A t \in Terminals : Chain(t)'
    BY <1>1, ChainUntouched DEF Keeps, SameLengths
  <1>3. ASSUME NEW s \in Sockets, SocketCloses(s) PROVE InputTypeOK'
    BY <1>3 DEF InputIInv, InputTypeOK, SocketCloses, windowVars, Running
  <1>4. ASSUME NEW t \in Terminals, WindowDies(t) PROVE InputTypeOK'
    <2>0. deaths \in 0..MaxDeaths /\ alive \subseteq Terminals \X Windows
      BY DEF InputIInv, InputTypeOK
    <2>3. deaths < MaxDeaths /\ deaths' = deaths + 1 /\ alive' = alive \ {<<t, opened[t]>>}
      BY <1>4 DEF WindowDies
    <2>4. deaths' \in 0..MaxDeaths
      BY <2>0, <2>3, InputAssumption
    <2>5. alive' \subseteq Terminals \X Windows
      BY <2>0, <2>3
    <2>1. deaths' \in 0..MaxDeaths /\ alive' \subseteq Terminals \X Windows
      BY <2>4, <2>5
    <2>2. UNCHANGED <<subscribed, socket, current, opened, links, tail, pane, served>>
      BY <1>4 DEF WindowDies, connVars
    <2> QED BY <2>1, <2>2 DEF InputIInv, InputTypeOK, Running
  <1>5. ASSUME NEW t \in Terminals, Evict(t) PROVE InputTypeOK'
    BY <1>5 DEF InputIInv, InputTypeOK, Evict, connVars, Running
  <1>6. ASSUME NEW t \in Terminals, Recreate(t) PROVE InputTypeOK'
    <2>0. /\ opened \in [Terminals -> Windows] /\ current \in [Terminals -> {0} \cup Windows]
          /\ alive \subseteq Terminals \X Windows
      BY DEF InputIInv, InputTypeOK
    <2>1. opened[t] + 1 \in Windows
      BY <1>6, <2>0 DEF Recreate
    <2>2. opened' \in [Terminals -> Windows] /\ current' \in [Terminals -> {0} \cup Windows]
      BY <1>6, <2>0, <2>1 DEF Recreate
    <2>3. alive' \subseteq Terminals \X Windows
      BY <1>6, <2>0, <2>1 DEF Recreate
    <2>4. UNCHANGED <<subscribed, socket, deaths, links, tail, pane, served>>
      BY <1>6 DEF Recreate, connVars
    <2> QED BY <2>2, <2>3, <2>4 DEF InputIInv, InputTypeOK, Running
  <1>7. ASSUME UNCHANGED inputVars PROVE InputTypeOK'
    BY <1>7 DEF InputIInv, InputTypeOK, inputVars, connVars, windowVars, Running
  <1> QED BY <1>2, <1>3, <1>4, <1>5, <1>6, <1>7 DEF InputIInv, Effect

LEMMA InputStep == InputIInv /\ [InputNext]_inputVars => InputIInv' /\ Effect
  <1> SUFFICES ASSUME InputIInv, [InputNext]_inputVars PROVE InputIInv' /\ Effect
    OBVIOUS
  <1>1. ASSUME NEW s \in Sockets, NEW t \in Terminals, NEW k \in Kinds, Receive(s, t, k)
        PROVE  InputIInv' /\ Effect
    BY <1>1, ReceiveKeeps
  <1>2. ASSUME NEW t \in Terminals, NEW i \in DOMAIN links[t], LinkStep(t, i)
        PROVE  InputIInv' /\ Effect
    BY <1>2, StartKeeps, SendKeysEndsKeeps, SendKeysFailsKeeps, FinallyKeeps DEF LinkStep
  <1>3. ASSUME \/ \E s \in Sockets : SocketCloses(s)
               \/ \E t \in Terminals : WindowDies(t) \/ Evict(t) \/ Recreate(t)
               \/ UNCHANGED inputVars
        PROVE  InputIInv' /\ Effect
    BY <1>3, OthersKeep
  <1> QED BY <1>1, <1>2, <1>3 DEF InputNext

----------------------------------------------------------------------------
\* The input path is type correct, and a running command always has the
\* window its frame was resolved to.
THEOREM InputTypeCorrect == InputSpec => []InputTypeOK
  <1>1. InputIInv => InputTypeOK
    BY DEF InputIInv
  <1> QED BY <1>1, InitChain, InputStep, PTL DEF InputSpec

\* At most one send-keys runs for a terminal, however many frames arrive
\* while one runs and whatever entries of the map of tails are dropped.
THEOREM OneCommandAtATime == InputSpec => []OneCommandPerTerminal
  <1>1. InputIInv => OneCommandPerTerminal
    BY DEF InputIInv, Chain, OneCommandPerTerminal
  <1> QED BY <1>1, InitChain, InputStep, PTL DEF InputSpec

\* What a step does to the chains it does to the queue they stand for.
LEMMA EffectIsQueueStep ==
    ASSUME InputIInv, Effect
    PROVE  [Queue!QNext]_(Queue!queueVars)
  <1> DEFINE q == [t \in Terminals |-> Unfinished(t)]
  <1>1. /\ links \in [Terminals -> Seq(LinkType)]
        /\ served \in [Terminals -> Seq(1..MaxFrames)]
        /\ \A t \in Terminals : Len(served[t]) <= Len(links[t])
    BY DEF InputIInv, InputTypeOK, Chain
  <1>2. \A t \in Terminals : /\ Len(links[t]) \in Nat /\ Len(served[t]) \in Nat
                            /\ Len(links[t]) - Len(served[t]) \in Nat
    <2> TAKE t \in Terminals
    <2>1. links[t] \in Seq(LinkType) /\ served[t] \in Seq(1..MaxFrames)
      BY <1>1
    <2>2. Len(links[t]) \in Nat /\ Len(served[t]) \in Nat
      BY <2>1
    <2> QED BY <1>1, <2>2
  <1>3. CASE Keeps
    BY <1>3 DEF Keeps, SameLengths, Queue!queueVars, Unfinished
  <1>4. ASSUME NEW t \in Terminals, Accepts(t) PROVE Queue!QNext
    <2> DEFINE m == Len(served[t])
               k == Len(links[t]) - Len(served[t])
    <2>1. \A u \in Terminals : u # t => q'[u] = q[u]
      BY <1>4 DEF Accepts, Unfinished
    <2>2. q[t] = [n \in 1..k |-> m + n]
      BY DEF Unfinished
    <2>3. q'[t] = [n \in 1..(k + 1) |-> m + n]
      <3>1. Len(links'[t]) - Len(served'[t]) = k + 1 /\ served' = served
        BY <1>2, <1>4 DEF Accepts
      <3> QED BY <3>1 DEF Unfinished
    <2>4. m \in Nat /\ k \in Nat
      BY <1>2
    <2>5. q'[t] = Append(q[t], Len(q[t]) + Len(served[t]) + 1)
      <3> HIDE DEF m, k, q
      <3>1. Len(q[t]) = k /\ Append(q[t], k + m + 1) = q'[t]
        BY <2>2, <2>3, <2>4, RangeGrows
      <3> QED BY <3>1 DEF m
    <2>6. q' = [q EXCEPT ![t] = Append(q[t], Len(q[t]) + Len(served[t]) + 1)]
      BY <2>1, <2>5
    <2>7. Queue!Accept(t)
      BY <1>4, <2>6 DEF Queue!Accept, Accepts
    <2> QED BY <2>7 DEF Queue!QNext
  <1>5. ASSUME NEW t \in Terminals, Finishes(t) PROVE Queue!QNext
    <2> DEFINE m == Len(served[t])
               k == Len(links[t]) - Len(served[t])
    <2>0. m + 1 \in 1..MaxFrames
      BY <1>1, <1>2, <1>5 DEF Finishes, InputIInv, InputTypeOK
    <2>1. /\ Len(served'[t]) = m + 1
          /\ \A u \in Terminals : u # t => served'[u] = served[u]
      BY <1>1, <1>5, <2>0, Appended DEF Finishes
    <2>2. \A u \in Terminals : u # t => q'[u] = q[u]
      <3>1. \A u \in Terminals : Len(links'[u]) = Len(links[u])
        BY <1>5 DEF Finishes, SameLengths
      <3> QED BY <2>1, <3>1 DEF Unfinished
    <2>3. q[t] = [n \in 1..k |-> m + n]
      BY DEF Unfinished
    <2>4. q'[t] = [n \in 1..(k - 1) |-> (m + 1) + n]
      <3>1. Len(links'[t]) - Len(served'[t]) = k - 1
        <4>1. Len(links'[t]) = Len(links[t])
          BY <1>5 DEF Finishes, SameLengths
        <4> QED BY <1>2, <2>1, <4>1
      <3> QED BY <2>1, <3>1 DEF Unfinished
    <2>5. m \in Nat /\ k \in Nat \ {0}
      BY <1>2, <1>5 DEF Finishes
    <2>6. q[t] # <<>> /\ Head(q[t]) = m + 1 /\ Tail(q[t]) = q'[t]
      <3> HIDE DEF m, k, q
      <3>1. /\ [n \in 1..k |-> m + n] # <<>>
            /\ Head([n \in 1..k |-> m + n]) = m + 1
            /\ Tail([n \in 1..k |-> m + n]) = [n \in 1..(k - 1) |-> (m + 1) + n]
        BY <2>5, RangeShrinks
      <3> QED BY <2>3, <2>4, <3>1
    <2>7. q' = [q EXCEPT ![t] = Tail(q[t])]
      BY <2>2, <2>6
    <2>8. served' = [served EXCEPT ![t] = Append(served[t], Head(q[t]))]
      BY <1>5, <2>6 DEF Finishes
    <2>9. Queue!Finish(t)
      BY <2>6, <2>7, <2>8 DEF Queue!Finish
    <2> QED BY <2>9 DEF Queue!QNext
  <1> QED BY <1>3, <1>4, <1>5 DEF Effect

\* The promise chains of the gateway implement a FIFO queue per terminal:
\* frames are finished in the order they were accepted, each once.
THEOREM InputIsFifo == InputSpec => QueueSpec
  <1>1. InputInit => Queue!QInit
    <2> SUFFICES ASSUME InputInit PROVE Queue!QInit
      OBVIOUS
    <2>1. \A t \in Terminals : links[t] = <<>> /\ served[t] = <<>>
      BY DEF InputInit
    <2>2. [n \in 1..(0 - 0) |-> 0 + n] = <<>>
      <3> DEFINE r == [n \in 1..(0 - 0) |-> 0 + n]
      <3>1. r \in Seq(Nat) /\ Len(r) = 0
        OBVIOUS
      <3> HIDE DEF r
      <3>2. r = <<>>
        BY <3>1, EmptySeq
      <3> QED BY <3>2 DEF r
    <2>3. \A t \in Terminals : Len(links[t]) = 0 /\ Len(served[t]) = 0
      <3>1. Len(<<>>) = 0
        BY EmptySeq
      <3> QED BY <2>1, <3>1, Zenon
    <2>4. \A t \in Terminals : Unfinished(t) = <<>>
      BY <2>2, <2>3 DEF Unfinished
    <2> QED BY <2>4 DEF InputInit, Queue!QInit
  <1>2. InputIInv /\ [InputNext]_inputVars => [Queue!QNext]_(Queue!queueVars)
    BY InputStep, EffectIsQueueStep
  <1> QED BY <1>1, <1>2, InitChain, InputStep, PTL DEF InputSpec, QueueSpec, Queue!QSpec
----------------------------------------------------------------------------
(* What is in the panes: text of links that have sent it, and at the end   *)
(* of a pane the text whose Enter is running.                              *)

Begun(link) == Settled(link) \/ link.stage = "enter"

PanesOK ==
    /\ PaneInOrder
    /\ \A t \in Terminals : \A w \in Windows : \A j \in DOMAIN pane[t][w] :
          pane[t][w][j][1] \in DOMAIN links[t] /\ Begun(links[t][pane[t][w][j][1]])
    /\ \A t \in Terminals : \A i \in DOMAIN links[t] : links[t][i].stage = "enter" =>
          LET typed == pane[t][links[t][i].window]
          IN  Len(typed) > 0 /\ typed[Len(typed)] = <<i, "text">>

LEMMA PanesInit == InputInit => PanesOK
  <1> SUFFICES ASSUME InputInit PROVE PanesOK
    OBVIOUS
  <1>1. \A t \in Terminals : links[t] = <<>> /\ \A w \in Windows : pane[t][w] = <<>>
    BY DEF InputInit
  <1>2. DOMAIN <<>> = {}
    <2>1. <<>> \in Seq(Nat) /\ Len(<<>>) = 0
      OBVIOUS
    <2>2. DOMAIN <<>> = 1..Len(<<>>)
      BY <2>1
    <2> QED BY <2>1, <2>2
  <1>3. \A t \in Terminals : DOMAIN links[t] = {} /\ \A w \in Windows : DOMAIN pane[t][w] = {}
    BY <1>1, <1>2, Zenon
  <1> QED BY <1>3 DEF PanesOK, PaneInOrder

\* A step that types nothing, takes no link back and begins no Enter.
LEMMA NothingTyped ==
    ASSUME PanesOK, pane' = pane,
           \A t \in Terminals : \A i \in DOMAIN links[t] :
               i \in DOMAIN links'[t] /\ (Begun(links[t][i]) => Begun(links'[t][i])),
           \A t \in Terminals : \A i \in DOMAIN links'[t] : links'[t][i].stage = "enter" =>
               i \in DOMAIN links[t] /\ links'[t][i] = links[t][i]
    PROVE  PanesOK'
  <1>1. PaneInOrder'
    BY DEF PanesOK, PaneInOrder
  <1>2. ASSUME NEW t \in Terminals, NEW w \in Windows, NEW j \in DOMAIN pane'[t][w]
        PROVE  pane'[t][w][j][1] \in DOMAIN links'[t] /\ Begun(links'[t][pane'[t][w][j][1]])
    BY DEF PanesOK
  <1>3. ASSUME NEW t \in Terminals, NEW i \in DOMAIN links'[t], links'[t][i].stage = "enter"
        PROVE  LET typed == pane'[t][links'[t][i].window]
               IN  Len(typed) > 0 /\ typed[Len(typed)] = <<i, "text">>
    BY <1>3 DEF PanesOK
  <1> QED BY <1>1, <1>2, <1>3 DEF PanesOK

\* A link moves on, and types nothing.
LEMMA LinkMoves ==
    ASSUME InputIInv, PanesOK, NEW t \in Terminals, NEW i \in DOMAIN links[t],
           NEW l \in LinkType, links' = [links EXCEPT ![t] = [@ EXCEPT ![i] = l]],
           l.stage # "enter", Begun(links[t][i]) => Begun(l), pane' = pane
    PROVE  PanesOK'
  <1>1. links \in [Terminals -> Seq(LinkType)]
    BY DEF InputIInv, InputTypeOK
  <1>2. /\ \A u \in Terminals : /\ DOMAIN links'[u] = DOMAIN links[u]
                                /\ u # t => links'[u] = links[u]
        /\ links'[t][i] = l
        /\ \A j \in DOMAIN links[t] : j # i => links'[t][j] = links[t][j]
    BY <1>1, LinkReplaced
  <1>3. ASSUME NEW u \in Terminals, NEW j \in DOMAIN links[u]
        PROVE  j \in DOMAIN links'[u] /\ (Begun(links[u][j]) => Begun(links'[u][j]))
    BY <1>2
  <1>4. ASSUME NEW u \in Terminals, NEW j \in DOMAIN links'[u], links'[u][j].stage = "enter"
        PROVE  j \in DOMAIN links[u] /\ links'[u][j] = links[u][j]
    BY <1>2, <1>4
  <1> QED BY <1>3, <1>4, NothingTyped

LEMMA SettleMoves ==
    ASSUME InputIInv, NEW t \in Terminals, NEW i \in DOMAIN links[t],
           NEW o \in Outcomes, Settle(t, i, o)
    PROVE  \E l \in LinkType :
              links' = [links EXCEPT ![t] = [@ EXCEPT ![i] = l]] /\ l.stage = "settled"
  <1> DEFINE l == [links[t][i] EXCEPT !.stage = "settled", !.outcome = o]
  <1>1. links[t] \in Seq(LinkType) /\ links \in [Terminals -> Seq(LinkType)]
    BY DEF InputIInv, InputTypeOK
  <1>2. links[t][i] \in LinkType
    BY <1>1
  <1>3. l \in LinkType /\ l.stage = "settled"
    BY <1>2 DEF LinkType
  <1>4. links' = [links EXCEPT ![t] = [@ EXCEPT ![i] = l]]
    BY <1>1 DEF Settle
  <1> HIDE DEF l
  <1> QED BY <1>3, <1>4

LEMMA SettlePanes ==
    ASSUME InputIInv, PanesOK, NEW t \in Terminals, NEW i \in DOMAIN links[t],
           NEW o \in Outcomes, Settle(t, i, o), pane' = pane
    PROVE  PanesOK'
  <1>1. PICK l \in LinkType :
            links' = [links EXCEPT ![t] = [@ EXCEPT ![i] = l]] /\ l.stage = "settled"
    BY SettleMoves
  <1>2. l.stage # "enter" /\ Begun(l)
    BY <1>1 DEF Begun, Settled
  <1> QED BY <1>1, <1>2, LinkMoves

LEMMA StartPanes ==
    ASSUME InputIInv, PanesOK, NEW t \in Terminals, NEW i \in DOMAIN links[t], Start(t, i)
    PROVE  PanesOK'
  <1>1. CASE current[t] = 0
    <2>1. Settle(t, i, "dropped") /\ "dropped" \in Outcomes /\ pane' = pane
      BY <1>1 DEF Start
    <2> QED BY <2>1, SettlePanes
  <1>2. CASE current[t] # 0
    <2> DEFINE l == [links[t][i] EXCEPT !.stage = "text", !.window = current[t]]
    <2>1. /\ links[t] \in Seq(LinkType) /\ links \in [Terminals -> Seq(LinkType)]
          /\ current[t] \in Windows
      BY <1>2 DEF InputIInv, InputTypeOK
    <2>2. links[t][i] \in LinkType
      BY <2>1
    <2>3. l \in LinkType /\ l.stage = "text"
      BY <2>1, <2>2 DEF LinkType
    <2>4. links' = [links EXCEPT ![t] = [@ EXCEPT ![i] = l]] /\ pane' = pane
      BY <2>1, <1>2 DEF Start
    <2>5. ~Begun(links[t][i])
      BY DEF Start, Ready, Begun, Settled
    <2> HIDE DEF l
    <2> QED BY <2>3, <2>4, <2>5, LinkMoves
  <1> QED BY <1>1, <1>2

LEMMA FinallyPanes ==
    ASSUME InputIInv, PanesOK, NEW t \in Terminals, NEW i \in DOMAIN links[t], Finally(t, i)
    PROVE  PanesOK'
  <1> DEFINE l == [links[t][i] EXCEPT !.stage = "done"]
  <1>1. links[t] \in Seq(LinkType) /\ links \in [Terminals -> Seq(LinkType)]
    BY DEF InputIInv, InputTypeOK
  <1>2. links[t][i] \in LinkType
    BY <1>1
  <1>3. l \in LinkType /\ l.stage = "done"
    BY <1>2 DEF LinkType
  <1>4. links' = [links EXCEPT ![t] = [@ EXCEPT ![i] = l]] /\ pane' = pane
    BY <1>1 DEF Finally
  <1> HIDE DEF l
  <1>5. l.stage # "enter" /\ Begun(l)
    BY <1>3 DEF Begun, Settled
  <1> QED BY <1>3, <1>4, <1>5, LinkMoves

\* What a pane holds is of links that have settled or wait for their Enter, so
\* it is older than a text that ends now; and the last text before an Enter is
\* its own.
LEMMA TypedPanes ==
    ASSUME InputIInv, PanesOK, NEW t \in Terminals, NEW i \in DOMAIN links[t],
           SendKeysEnds(t, i)
    PROVE  PanesOK'
  <1> DEFINE w == links[t][i].window
             x == <<i, links[t][i].stage>>
             old == pane[t][w]
             Items == (1..MaxFrames) \X {"text", "enter"}
  <1>1. /\ i = Len(served[t]) + 1 /\ i \in 1..Len(links[t])
        /\ links[t][i] \in LinkType
    BY ReadyIsFirst DEF SendKeysEnds
  <1>2. /\ links \in [Terminals -> Seq(LinkType)]
        /\ pane \in [Terminals -> [Windows -> Seq(Items)]]
        /\ links[t][i].stage \in {"text", "enter"}
        /\ Len(links[t]) <= MaxFrames /\ DOMAIN links[t] = 1..Len(links[t])
        /\ Len(served[t]) \in Nat
    <2>1. /\ links \in [Terminals -> Seq(LinkType)]
          /\ pane \in [Terminals -> [Windows -> Seq(Items)]]
          /\ served \in [Terminals -> Seq(1..MaxFrames)]
          /\ Len(links[t]) <= MaxFrames
      BY DEF InputIInv, InputTypeOK
    <2>2. links[t] \in Seq(LinkType) /\ served[t] \in Seq(1..MaxFrames)
      BY <2>1
    <2>3. links[t][i].stage \in {"text", "enter"}
      BY DEF SendKeysEnds
    <2> HIDE DEF Items
    <2> QED BY <2>1, <2>2, <2>3
  <1>3. w \in Windows
    BY <1>2 DEF InputIInv, InputTypeOK, Running
  <1>4. old \in Seq(Items) /\ x \in Items /\ DOMAIN old = 1..Len(old) /\ Len(old) \in Nat
    <2>1. x \in Items
      BY <1>1, <1>2
    <2>2. old \in Seq(Items)
      <3> HIDE DEF Items, w
      <3> QED BY <1>2, <1>3
    <2> HIDE DEF Items, old, x
    <2> QED BY <2>1, <2>2
  <1>5. pane' = [pane EXCEPT ![t] = [@ EXCEPT ![w] = Append(old, x)]]
    BY <1>2 DEF SendKeysEnds, Typed
  <1>6. PICK l \in LinkType :
           /\ links' = [links EXCEPT ![t] = [@ EXCEPT ![i] = l]]
           /\ \/ l.stage = "settled"
              \/ l.stage = "enter" /\ links[t][i].stage = "text" /\ l.window = w
    <2>1. CASE links[t][i].kind = "line" /\ links[t][i].stage = "text"
      <3> DEFINE l == [links[t][i] EXCEPT !.stage = "enter"]
      <3>1. l \in LinkType /\ l.stage = "enter" /\ l.window = w
        BY <1>1 DEF LinkType
      <3>2. links' = [links EXCEPT ![t] = [@ EXCEPT ![i] = l]]
        BY <1>2, <2>1 DEF SendKeysEnds
      <3> HIDE DEF l, w
      <3> QED BY <3>1, <3>2, <2>1
    <2>2. CASE ~(links[t][i].kind = "line" /\ links[t][i].stage = "text")
      <3>1. Settle(t, i, "sent") /\ "sent" \in Outcomes
        BY <2>2 DEF SendKeysEnds
      <3> HIDE DEF w
      <3> QED BY <3>1, SettleMoves
    <2> QED BY <2>1, <2>2
  <1>7. /\ \A u \in Terminals : /\ DOMAIN links'[u] = DOMAIN links[u]
                                /\ u # t => links'[u] = links[u]
        /\ links'[t][i] = l
        /\ \A j \in DOMAIN links[t] : j # i => links'[t][j] = links[t][j]
    BY <1>2, <1>6, LinkReplaced
  <1> HIDE DEF w
  <1>8. /\ \A u \in Terminals, v \in Windows :
              u # t \/ v # w => pane'[u][v] = pane[u][v]
        /\ pane'[t][w] = Append(old, x)
    BY <1>2, <1>3, <1>5
  <1>9. /\ Len(pane'[t][w]) = Len(old) + 1 /\ DOMAIN pane'[t][w] = 1..(Len(old) + 1)
        /\ pane'[t][w][Len(old) + 1] = x
        /\ \A j \in 1..Len(old) : pane'[t][w][j] = old[j]
    BY <1>4, <1>8
  <1>10. \A j \in 1..Len(old) : old[j][1] \in DOMAIN links[t] /\ Begun(links[t][old[j][1]])
    BY <1>3, <1>4 DEF PanesOK
  <1>11. links[t][i].stage = "text" => \A j \in 1..Len(old) : old[j][1] < i
    <2> SUFFICES ASSUME links[t][i].stage = "text", NEW j \in 1..Len(old)
                 PROVE  old[j][1] < i
      OBVIOUS
    <2> DEFINE n == old[j][1]
    <2>1. n \in 1..Len(links[t]) /\ Begun(links[t][n])
      BY <1>2, <1>10
    <2>2. Chain(t)
      BY DEF InputIInv
    <2>3. n # i
      BY <2>1 DEF Begun, Settled
    <2> HIDE DEF n
    <2>4. Settled(links[t][n])
      BY <1>1, <1>2, <2>1, <2>2, <2>3 DEF Begun, Chain, Running
    <2>5. n <= Len(served[t])
      BY <1>2, <2>1, <2>2, <2>4 DEF Chain
    <2> QED BY <1>1, <1>2, <2>1, <2>5 DEF n
  <1>12. links[t][i].stage = "enter" => Len(old) > 0 /\ old[Len(old)] = <<i, "text">>
    BY DEF PanesOK, w
  <1> HIDE DEF old
  <1>13. PaneInOrder'
    <2> SUFFICES ASSUME NEW u \in Terminals, NEW v \in Windows, NEW j \in DOMAIN pane'[u][v]
                 PROVE  /\ pane'[u][v][j][2] = "enter" =>
                              j > 1 /\ pane'[u][v][j - 1] = <<pane'[u][v][j][1], "text">>
                        /\ \A k \in 1..(j - 1) : pane'[u][v][j][2] = "text" =>
                              pane'[u][v][k][1] < pane'[u][v][j][1]
      BY DEF PaneInOrder
    <2>1. CASE u # t \/ v # w
      BY <1>8, <2>1 DEF PanesOK, PaneInOrder
    <2>2. CASE u = t /\ v = w
      <3>1. j \in 1..(Len(old) + 1)
        BY <2>2, <1>9
      <3>2. CASE j = Len(old) + 1
        <4>1. pane'[u][v][j] = x /\ x[1] = i /\ x[2] = links[t][i].stage
          BY <2>2, <3>2, <1>9
        <4>2. ASSUME x[2] = "enter"
              PROVE  j > 1 /\ pane'[u][v][j - 1] = <<x[1], "text">>
          <5>1. Len(old) > 0 /\ old[Len(old)] = <<i, "text">>
            BY <4>1, <4>2, <1>12
          <5>2. pane'[t][w][Len(old)] = old[Len(old)]
            BY <5>1, <1>4, <1>9
          <5> QED BY <4>1, <5>1, <5>2, <3>2, <2>2, <1>4
        <4>3. ASSUME x[2] = "text", NEW k \in 1..(j - 1)
              PROVE  pane'[u][v][k][1] < x[1]
          <5>1. k \in 1..Len(old) /\ pane'[t][w][k] = old[k]
            BY <3>2, <1>4, <1>9
          <5> QED BY <4>1, <4>3, <5>1, <2>2, <1>11
        <4> HIDE DEF x
        <4> QED BY <4>1, <4>2, <4>3
      <3>3. CASE j # Len(old) + 1
        <4>1. j \in 1..Len(old) /\ \A k \in 1..j : k \in 1..Len(old)
          BY <3>1, <3>3, <1>4
        <4>2. /\ old[j][2] = "enter" => j > 1 /\ old[j - 1] = <<old[j][1], "text">>
              /\ \A k \in 1..(j - 1) : old[j][2] = "text" => old[k][1] < old[j][1]
          BY <4>1, <1>3, <1>4 DEF PanesOK, PaneInOrder, old
        <4>3. \A k \in 1..j : pane'[u][v][k] = old[k]
          BY <4>1, <2>2, <1>9
        <4>4. j \in 1..j /\ (j > 1 => j - 1 \in 1..j) /\ \A k \in 1..(j - 1) : k \in 1..j
          BY <4>1, <1>4
        <4> QED BY <4>2, <4>3, <4>4
      <3> QED BY <3>2, <3>3
    <2> QED BY <2>1, <2>2
  <1>14. Begun(l)
    BY <1>6 DEF Begun, Settled
  <1>15. ASSUME NEW u \in Terminals, NEW v \in Windows, NEW j \in DOMAIN pane'[u][v]
         PROVE  /\ pane'[u][v][j][1] \in DOMAIN links'[u]
                /\ Begun(links'[u][pane'[u][v][j][1]])
    <2>1. \A n \in DOMAIN links[u] : Begun(links[u][n]) => Begun(links'[u][n])
      BY <1>7, <1>14
    <2>2. CASE u # t \/ v # w
      BY <1>7, <1>8, <2>1, <2>2 DEF PanesOK
    <2>3. CASE u = t /\ v = w /\ j = Len(old) + 1
      BY <1>7, <1>9, <1>14, <2>3
    <2>4. CASE u = t /\ v = w /\ j # Len(old) + 1
      <3>1. j \in 1..Len(old) /\ pane'[u][v][j] = old[j]
        BY <2>4, <1>4, <1>9
      <3> QED BY <3>1, <1>7, <1>10, <2>1, <2>4
    <2> QED BY <2>2, <2>3, <2>4
  <1>16. ASSUME NEW u \in Terminals, NEW j \in DOMAIN links'[u], links'[u][j].stage = "enter"
         PROVE  LET typed == pane'[u][links'[u][j].window]
                IN  Len(typed) > 0 /\ typed[Len(typed)] = <<j, "text">>
    <2>1. CASE u = t /\ j = i
      <3>1. l.window = w /\ links[t][i].stage = "text"
        BY <2>1, <1>6, <1>7, <1>16
      <3> QED BY <3>1, <2>1, <1>4, <1>7, <1>9
    <2>2. CASE ~(u = t /\ j = i)
      <3>1. j \in DOMAIN links[u] /\ links'[u][j] = links[u][j]
        BY <2>2, <1>7
      <3>2. u # t
        <4>1. ASSUME u = t PROVE FALSE
          <5>1. i \in Running(t) /\ j \in Running(t) /\ Chain(t)
            BY <1>2, <3>1, <4>1, <1>16 DEF Running, InputIInv
          <5> QED BY <5>1, <4>1, <2>2 DEF Chain
        <4> QED BY <4>1
      <3> DEFINE v == links[u][j].window
      <3>3. v \in Windows
        BY <3>1, <1>16 DEF InputIInv, InputTypeOK, Running
      <3>4. links[u][j].stage = "enter" /\ links'[u][j].window = v
        BY <3>1, <1>16
      <3>5. Len(pane[u][v]) > 0 /\ pane[u][v][Len(pane[u][v])] = <<j, "text">>
        BY <3>1, <3>4 DEF PanesOK
      <3> HIDE DEF v
      <3>6. pane'[u][v] = pane[u][v]
        BY <3>2, <3>3, <1>8
      <3> QED BY <3>4, <3>5, <3>6
    <2> QED BY <2>1, <2>2
  <1> QED BY <1>13, <1>15, <1>16 DEF PanesOK

LEMMA ReceivePanes ==
    ASSUME InputIInv, PanesOK, NEW s \in Sockets, NEW t \in Terminals, NEW k \in Kinds,
           Receive(s, t, k)
    PROVE  PanesOK'
  <1>1. CASE subscribed[s] # t
    <2>1. links' = links /\ pane' = pane
      BY <1>1 DEF Receive
    <2> QED BY <2>1, NothingTyped
  <1>2. CASE subscribed[s] = t
    <2> DEFINE l == Link(s, k, tail[t])
    <2>1. links' = [links EXCEPT ![t] = Append(@, l)] /\ pane' = pane
      BY <1>2 DEF Receive, EnqueueInput
    <2>2. links \in [Terminals -> Seq(LinkType)] /\ tail \in [Terminals -> 0..MaxFrames]
      BY DEF InputIInv, InputTypeOK
    <2>3. l \in LinkType /\ l.stage = "waiting"
      BY <2>2 DEF Link, LinkType
    <2> HIDE DEF l
    <2>4. /\ links'[t][Len(links[t]) + 1] = l
          /\ DOMAIN links'[t] = 1..(Len(links[t]) + 1)
          /\ \A j \in 1..Len(links[t]) : links'[t][j] = links[t][j]
          /\ \A u \in Terminals : u # t => links'[u] = links[u]
      BY <2>1, <2>2, <2>3, Appended
    <2>5. DOMAIN links[t] = 1..Len(links[t]) /\ Len(links[t]) \in Nat
      BY <2>2
    <2>6. ASSUME NEW u \in Terminals, NEW j \in DOMAIN links[u]
          PROVE  j \in DOMAIN links'[u] /\ (Begun(links[u][j]) => Begun(links'[u][j]))
      BY <2>4, <2>5
    <2>7. ASSUME NEW u \in Terminals, NEW j \in DOMAIN links'[u], links'[u][j].stage = "enter"
          PROVE  j \in DOMAIN links[u] /\ links'[u][j] = links[u][j]
      BY <2>3, <2>4, <2>5, <2>7
    <2> QED BY <2>1, <2>6, <2>7, NothingTyped
  <1> QED BY <1>1, <1>2

\* Text and Enter of the frames of a terminal reach each pane in the order the
\* frames arrived, no Enter without its text before it, whatever fails, dies or
\* is created again between two commands.
THEOREM PanesInOrder == InputSpec => []PaneInOrder
  <1>1. InputIInv /\ PanesOK /\ [InputNext]_inputVars => PanesOK'
    <2> SUFFICES ASSUME InputIInv, PanesOK, [InputNext]_inputVars PROVE PanesOK'
      OBVIOUS
    <2>1. ASSUME NEW s \in Sockets, NEW t \in Terminals, NEW k \in Kinds, Receive(s, t, k)
          PROVE  PanesOK'
      BY <2>1, ReceivePanes
    <2>2. ASSUME NEW t \in Terminals, NEW i \in DOMAIN links[t], LinkStep(t, i)
          PROVE  PanesOK'
      <3>1. CASE SendKeysFails(t, i)
        <4>1. Settle(t, i, "failed") /\ "failed" \in Outcomes /\ pane' = pane
          BY <3>1 DEF SendKeysFails
        <4> QED BY <4>1, SettlePanes
      <3> QED BY <2>2, <3>1, StartPanes, TypedPanes, FinallyPanes DEF LinkStep
    <2>3. ASSUME \/ \E s \in Sockets : SocketCloses(s)
                 \/ \E t \in Terminals : WindowDies(t) \/ Evict(t) \/ Recreate(t)
                 \/ UNCHANGED inputVars
          PROVE  PanesOK'
      <3>1. links' = links /\ pane' = pane
        BY <2>3 DEF SocketCloses, WindowDies, Evict, Recreate, inputVars
      <3> QED BY <3>1, NothingTyped
    <2> QED BY <2>1, <2>2, <2>3 DEF InputNext
  <1>2. PanesOK => PaneInOrder
    BY DEF PanesOK
  <1> QED BY <1>1, <1>2, PanesInit, InitChain, InputStep, PTL DEF InputSpec
=============================================================================
