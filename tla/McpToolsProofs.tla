--------------------------- MODULE McpToolsProofs ---------------------------
(***************************************************************************)
(* Theorems about McpTools, for any number of verbs in flight, terminals,  *)
(* windows and lines: the types hold, no delta skips a line, and no        *)
(* terminal of the local map is orphaned.                                  *)
(*                                                                         *)
(* The inductive invariant has three parts.  CallsOK: what a verb knows of *)
(* its terminal by the stage it is at.  CursorsOK: with NoLineSkipped, a   *)
(* name that is free in the local map has no cursor left that the next     *)
(* terminal of that name would inherit.  NamesOK: with NoOrphanTerminal,   *)
(* under each name of which no two creates overlapped, a create in flight  *)
(* is alone, and so is a destroy that has killed its window and is about   *)
(* to release the name; a name of which creates did overlap names and      *)
(* loses windows opened for it, and no others.                             *)
(***************************************************************************)
EXTENDS McpTools, TLAPS

----------------------------------------------------------------------------
(* The invariants *)

Verbs == Reads \cup {"none", "create", "destroy"}
Stages == {"idle", "resolve", "run", "finish", "clear"}

CallShape(r) ==
    r \in [verb : Verbs, stage : Stages, id : Ids \cup {NoId},
           window : Windows \cup {NoWindow}, shown : Nat]

\* What a verb knows of its terminal: a name, a window that was opened, and a
\* capture of lines that were printed.
CallOK(r) ==
    /\ CallShape(r)
    /\ r.verb \in Reads \cup {"destroy"} => r.id \in Ids
    /\ r.verb = "create" /\ ~attached => r.id \in Ids
    /\ r.window \in 0..opened
    /\ r.verb \in Reads /\ r.stage = "finish" => r.window \in Windows /\ r.shown <= lines[r.window]

CallsOK == call = [c \in Calls |-> call[c]] /\ \A c \in Calls : CallOK(call[c])

\* The types, without those of the calls.
StateOK ==
    /\ attached \in BOOLEAN
    /\ Registered \subseteq Ids /\ \A id \in Registered : registry[id] \in 1..opened
    /\ opened \in 0..MaxWindows /\ alive \subseteq 1..opened
    /\ lines \in [Windows -> Nat]
    /\ cursor \in [Ids -> Unread..(MaxReadLines - 1)]
    /\ exits \in 0..MaxExits /\ others \in 0..MaxOthers
    /\ seen \in [Windows -> SUBSET Nat] /\ cut \subseteq Windows
    /\ \A w \in Windows : seen[w] \subseteq 1..lines[w]
    /\ stale \cup overlapped \subseteq Ids
    /\ slug \in [Windows -> Ids \cup {NoId}] /\ unbound \subseteq 1..opened

TypeIInv == StateOK /\ CallsOK

\* The local map frees a name and forgets its cursor at once.
FreeNamesUnread ==
    ~attached => \A id \in Ids \ (Registered \cup stale) : cursor[id] = Unread

CursorsOK == NoLineSkipped /\ FreeNamesUnread

Creating(c) == call[c].verb = "create"
Killing(c) == At(c, {"destroy"}, "run") /\ call[c].window \in alive
Killed(c) == At(c, {"destroy"}, "finish")

Sole(id) == id \notin overlapped

Reachable == \A w \in alive \ unbound :
                 slug[w] \in overlapped \/ \E id \in Registered : registry[id] = w

\* A terminal names a window that was opened for it.
NamedSo == \A id \in Registered : slug[registry[id]] = id

\* A create has a name of its own, that no terminal has.
CreatesApart ==
    /\ \A c \in Calls : Creating(c) /\ Sole(call[c].id) => call[c].id \notin Registered
    /\ \A c, d \in Calls : Creating(c) /\ Creating(d) /\ c # d /\ call[c].id = call[d].id
                           => ~Sole(call[c].id)

\* The name of a terminal that is being destroyed goes on naming its window, until
\* the verb that has killed the window releases the name.
DestroysApart ==
    /\ \A c \in Calls : Killing(c) /\ Sole(call[c].id)
          => call[c].id \in Registered /\ registry[call[c].id] = call[c].window
    /\ \A c \in Calls : Killed(c) /\ Sole(call[c].id)
          => call[c].id \in Registered /\ registry[call[c].id] \notin alive
    /\ \A c, d \in Calls : Killed(c) /\ Killed(d) /\ c # d /\ call[c].id = call[d].id
                           => ~Sole(call[c].id)

NamesHeld == Reachable /\ NamedSo /\ CreatesApart /\ DestroysApart

NamesOK == ~attached => NamesHeld

McpIInv == TypeIInv /\ CursorsOK /\ NamesOK

----------------------------------------------------------------------------
(* Helpers *)

\* A capture is cut to at most its lines, the cap and, for a snapshot, the rows.
LEMMA KeptFacts ==
    ASSUME NEW verb, NEW shown \in Nat, NEW cap \in Nat \ {0}
    PROVE  Kept(verb, shown, cap) \in Nat /\ Kept(verb, shown, cap) <= shown
           /\ Kept(verb, shown, cap) <= cap
  <1> DEFINE S == {shown, cap} \cup (IF verb = "snapshot" THEN {Viewport} ELSE {})
  <1>1. Viewport \in Nat
    BY McpAssumption
  <1>2. S \subseteq Nat /\ shown \in S /\ cap \in S
    BY <1>1
  <1>3. \E x \in S : \A y \in S : x <= y
    <2>1. S = {shown, cap} \/ S = {shown, cap, Viewport}
      OBVIOUS
    <2>2. CASE S = {shown, cap}
      BY <2>2
    <2>3. CASE S = {shown, cap, Viewport}
      BY <2>3, <1>1
    <2> QED
      BY <2>1, <2>2, <2>3
  <1> HIDE DEF S
  <1>4. Min(S) \in S /\ \A y \in S : Min(S) <= y
    BY <1>3 DEF Min
  <1>5. Kept(verb, shown, cap) = Min(S)
    BY DEF Kept, S
  <1> QED
    BY <1>2, <1>4, <1>5

LEMMA TypeSplits == TypeIInv => McpTypeOK
  <1> SUFFICES ASSUME TypeIInv PROVE McpTypeOK
    OBVIOUS
  <1>1. call \in [Calls -> [verb : Verbs, stage : Stages, id : Ids \cup {NoId},
                            window : Windows \cup {NoWindow}, shown : Nat]]
    BY DEF TypeIInv, CallsOK, CallOK, CallShape
  <1> QED
    BY <1>1 DEF TypeIInv, StateOK, McpTypeOK, Verbs, Stages

\* A step of one call.
LEMMA OneCall ==
    ASSUME CallsOK, NEW c \in Calls, NEW r, call' = [call EXCEPT ![c] = r], CallOK(r)',
           attached' = attached, opened \in Nat, opened' \in Nat, opened <= opened',
           lines' = lines
    PROVE  CallsOK'
  <1>1. \A d \in Calls \ {c} : call'[d] = call[d]
    BY DEF CallsOK
  <1>2. call'[c] = r
    BY DEF CallsOK
  <1>3. \A d \in Calls \ {c} : CallOK(call[d])'
    <2> TAKE d \in Calls \ {c}
    <2>1. CallOK(call[d])
      BY DEF CallsOK
    <2> QED
      BY <2>1, <1>1 DEF CallOK, CallShape
  <1>4. CallOK(call[c])'
    BY <1>2 DEF CallOK
  <1> QED
    BY <1>3, <1>4 DEF CallsOK

\* The verbs that begin, go on to a stage and return.
LEMMA IdleOK == TypeIInv => CallOK(Idle)
  <1>1. 0 \in Nat /\ NoId = 0 /\ NoWindow = 0
    BY DEF NoId, NoWindow
  <1> QED
    BY <1>1 DEF TypeIInv, StateOK, CallOK, CallShape, Idle, Verbs, Stages, Reads

LEMMA ReturnKeeps ==
    ASSUME TypeIInv, NEW c \in Calls, Return(c),
           attached' = attached, opened' \in Nat, opened <= opened', lines' = lines
    PROVE  CallsOK'
  <1>1. CallOK(Idle)'
    <2>1. CallOK(Idle)
      BY IdleOK
    <2>2. Idle.window = 0 /\ Idle.verb = "none"
      BY DEF Idle, NoWindow
    <2> QED
      BY <2>1, <2>2 DEF CallOK, CallShape, Reads
  <1>2. call' = [call EXCEPT ![c] = Idle] /\ opened \in Nat /\ CallsOK
    BY McpAssumption DEF Return, TypeIInv, StateOK
  <1> QED
    BY <1>1, <1>2, OneCall

LEMMA GotoKeeps ==
    ASSUME TypeIInv, NEW c \in Calls, NEW stage \in Stages, Goto(c, stage),
           stage = "finish" => call[c].verb \notin Reads,
           attached' = attached, opened' = opened, lines' = lines
    PROVE  CallsOK'
  <1>1. PICK r : r = [call[c] EXCEPT !.stage = stage] /\ call' = [call EXCEPT ![c] = r]
    BY DEF Goto
  <1>2. CallOK(call[c]) /\ CallsOK
    BY DEF TypeIInv, CallsOK
  <1>3. /\ CallShape(r) /\ r.verb = call[c].verb /\ r.id = call[c].id
        /\ r.window = call[c].window /\ r.stage = stage /\ r.shown = call[c].shown
    BY <1>1, <1>2 DEF CallOK, CallShape
  <1>4. CallOK(r)'
    BY <1>2, <1>3 DEF CallOK, CallShape
  <1>5. opened \in Nat /\ opened' \in Nat /\ opened <= opened'
    BY McpAssumption DEF TypeIInv, StateOK
  <1> QED
    BY <1>1, <1>2, <1>4, <1>5, OneCall

LEMMA StartKeeps ==
    ASSUME TypeIInv, NEW c \in Calls, NEW verb \in Verbs, NEW id \in Ids \cup {NoId},
           NEW window \in 0..opened, Start(c, verb, id, window),
           verb \in Reads \cup {"destroy"} => id \in Ids,
           verb = "create" /\ ~attached => id \in Ids
    PROVE  TypeIInv' \/ ~(overlapped' \subseteq Ids)
  <1>1. PICK r : /\ r = [verb |-> verb, id |-> id, window |-> window, shown |-> 0,
                        stage |-> IF attached THEN "resolve" ELSE "run"]
                 /\ call' = [call EXCEPT ![c] = r]
    BY DEF Start
  <1>2. /\ r.verb = verb /\ r.id = id /\ r.window = window /\ r.shown = 0
        /\ r.stage \in {"resolve", "run"} /\ CallsOK
    BY <1>1 DEF TypeIInv
  <1>3. window \in Windows \cup {NoWindow}
    BY McpAssumption DEF TypeIInv, StateOK, Windows, NoWindow
  <1>4. CallShape(r)
    BY <1>1, <1>3 DEF CallShape, Stages
  <1>5. /\ attached' = attached /\ opened' = opened /\ lines' = lines /\ opened \in Nat
        /\ opened <= opened'
        /\ registry' = registry /\ alive' = alive /\ cursor' = cursor /\ exits' = exits
        /\ others' = others /\ seen' = seen /\ cut' = cut /\ stale' = stale
        /\ slug' = slug /\ unbound' = unbound
    BY McpAssumption DEF Start, tmuxVars, TypeIInv, StateOK
  <1>6. CallOK(r)'
    BY <1>2, <1>4, <1>5 DEF CallOK, CallShape
  <1>7. CallsOK'
    BY <1>1, <1>2, <1>5, <1>6, OneCall
  <1>8. overlapped' \subseteq Ids => StateOK'
    BY <1>5 DEF TypeIInv, StateOK, Registered
  <1> QED
    BY <1>7, <1>8 DEF TypeIInv

\* A new window is opened.
LEMMA OpenFacts ==
    ASSUME TypeIInv, NEW id \in Ids, Open(id)
    PROVE  /\ opened' \in Nat /\ opened <= opened' /\ opened' = opened + 1
           /\ opened' \in 0..MaxWindows /\ opened' \in Windows
           /\ alive' = alive \cup {opened'} /\ opened' \notin alive /\ alive' \subseteq 1..opened'
           /\ unbound \subseteq 1..opened'
           /\ slug' \in [Windows -> Ids \cup {NoId}] /\ slug'[opened'] = id
           /\ \A w \in 1..opened : slug'[w] = slug[w]
  <1>1. opened \in Nat /\ opened + 1 <= MaxWindows /\ MaxWindows \in Nat /\ opened' = opened + 1
    BY McpAssumption DEF Open, TypeIInv, StateOK
  <1>2. alive' = alive \cup {opened'} /\ opened' \notin alive /\ alive' \subseteq 1..opened'
    BY <1>1 DEF Open, TypeIInv, StateOK
  <1>3. opened' \in Windows /\ 1..opened \subseteq Windows
    BY <1>1 DEF Windows
  <1>4. /\ slug' \in [Windows -> Ids \cup {NoId}] /\ slug'[opened'] = id
        /\ \A w \in Windows \ {opened'} : slug'[w] = slug[w]
    BY <1>3 DEF Open, TypeIInv, StateOK
  <1>5. \A w \in 1..opened : w # opened'
    BY <1>1
  <1>6. unbound \subseteq 1..opened'
    BY <1>1 DEF TypeIInv, StateOK
  <1> QED
    BY <1>1, <1>2, <1>3, <1>4, <1>5, <1>6

\* A new window is bound.
LEMMA BindFacts ==
    ASSUME TypeIInv, NEW id \in Ids, Bind(id), attached' = attached, lines' = lines,
           cursor' = cursor, exits' \in 0..MaxExits, others' \in 0..MaxOthers, seen' = seen,
           cut' = cut, overlapped' = overlapped, unbound' = unbound
    PROVE  /\ StateOK'
           /\ opened' \in Nat /\ opened <= opened' /\ opened' = opened + 1
           /\ Registered' = Registered \cup {id} /\ registry'[id] = opened'
           /\ \A i \in Registered \ {id} : registry'[i] = registry[i]
           /\ alive' = alive \cup {opened'} /\ opened' \notin alive
  <1>1. /\ opened' = opened + 1 /\ opened \in Nat /\ opened' \in Nat /\ opened <= opened'
        /\ opened' \in 0..MaxWindows
        /\ alive' = alive \cup {opened'} /\ opened' \notin alive /\ alive' \subseteq 1..opened'
        /\ unbound \subseteq 1..opened' /\ slug' \in [Windows -> Ids \cup {NoId}]
    BY OpenFacts, McpAssumption DEF Bind, TypeIInv, StateOK
  <1>2. /\ Registered' = Registered \cup {id} /\ registry'[id] = opened'
        /\ \A i \in Registered \ {id} : registry'[i] = registry[i]
    BY DEF Bind, Registered
  <1>3. stale' \subseteq Ids
    BY DEF Bind, TypeIInv, StateOK
  <1>4. Registered' \subseteq Ids /\ \A i \in Registered' : registry'[i] \in 1..opened'
    BY <1>1, <1>2 DEF TypeIInv, StateOK
  <1>5. StateOK'
    BY <1>1, <1>3, <1>4 DEF TypeIInv, StateOK
  <1> QED
    BY <1>1, <1>2, <1>5

\* A name is given back.
LEMMA EvictFacts ==
    ASSUME TypeIInv, NEW id, Evict(id)
    PROVE  /\ Registered' = Registered \ {id}
           /\ \A i \in Registered \ {id} : registry'[i] = registry[i]
           /\ alive' \subseteq alive
           /\ ~attached => alive' = alive
  BY DEF Evict, Unregister, Registered

----------------------------------------------------------------------------
(* The types *)

LEMMA TypeInit == McpInit => TypeIInv
  <1> SUFFICES ASSUME McpInit PROVE TypeIInv
    OBVIOUS
  <1>1. 0 \in 0..MaxWindows /\ 0 \in 0..MaxExits /\ 0 \in 0..MaxOthers /\ 0 \in 0..0
    BY McpAssumption
  <1>2. Unread \in Unread..(MaxReadLines - 1)
    BY McpAssumption DEF Unread
  <1>3. Registered = {}
    BY DEF McpInit, Registered
  <1>4. StateOK
    BY <1>1, <1>2, <1>3 DEF McpInit, StateOK
  <1>5. CallShape(Idle)
    BY DEF CallShape, Idle, Verbs, Stages, NoId, NoWindow, Reads
  <1>6. CallOK(Idle)
    BY <1>1, <1>5 DEF CallOK, Idle, McpInit, NoWindow, Reads
  <1>7. CallsOK
    BY <1>6 DEF CallsOK, McpInit
  <1> QED
    BY <1>4, <1>7 DEF TypeIInv

\* Steps that change nothing but the stage of one verb.
LEMMA StateOKKept ==
    ASSUME TypeIInv,
           UNCHANGED <<attached, registry, tmuxVars, cursor, exits, others, historyVars>>
    PROVE  /\ StateOK' /\ attached' = attached /\ opened' = opened /\ lines' = lines
           /\ opened \in Nat /\ opened' \in Nat /\ opened <= opened'
  <1>1. opened \in Nat
    BY McpAssumption DEF TypeIInv, StateOK
  <1> QED
    BY <1>1 DEF TypeIInv, StateOK, tmuxVars, historyVars, namingVars, Registered

LEMMA VerbCalledKeepsTypes ==
    ASSUME TypeIInv, NEW c \in Calls, VerbCalled(c)
    PROVE  TypeIInv'
  <1>1. ASSUME NEW id \in Ids, NEW verb \in Reads \cup {"destroy"}, CallOn(c, verb, id)
        PROVE  TypeIInv'
    <2>1. PICK w : w = (IF attached THEN NoWindow ELSE registry[id]) /\ Start(c, verb, id, w)
      BY <1>1 DEF CallOn
    <2>2. w \in 0..opened
      BY <1>1, <2>1, McpAssumption DEF CallOn, TypeIInv, StateOK, NoWindow
    <2>3. verb \in Verbs /\ verb # "create"
      BY DEF Verbs, Reads
    <2>4. overlapped' \subseteq Ids
      BY <1>1 DEF CallOn, TypeIInv, StateOK
    <2> QED
      BY <2>1, <2>2, <2>3, <2>4, StartKeeps
  <1>2. CASE CallCreate(c)
    <2>1. PICK id \in Ids \cup {NoId} :
              /\ ~attached => id \in Ids
              /\ Start(c, "create", id, NoWindow)
              /\ overlapped' = overlapped \cup {i \in {id} \ {NoId} :
                     \E d \in Calls : call[d].verb = "create" /\ call[d].id = i}
      BY <1>2 DEF CallCreate
    <2>2. overlapped' \subseteq Ids
      BY <2>1 DEF TypeIInv, StateOK
    <2>3. NoWindow \in 0..opened
      BY McpAssumption DEF NoWindow, TypeIInv, StateOK
    <2>4. "create" \in Verbs /\ "create" \notin Reads \cup {"destroy"}
      BY DEF Verbs, Reads
    <2> QED
      BY <2>1, <2>2, <2>3, <2>4, StartKeeps
  <1>3. CASE CallDestroy(c)
    BY <1>1, <1>3 DEF CallDestroy
  <1>4. CASE CallRead(c)
    BY <1>1, <1>4 DEF CallRead
  <1> QED
    BY <1>2, <1>3, <1>4 DEF VerbCalled

LEMMA FinishFacts ==
    ASSUME TypeIInv, NEW c \in Calls, At(c, Reads, "finish"), NEW cap \in 1..MaxReadLines,
           NEW total, total = Kept(call[c].verb, call[c].shown, cap)
    PROVE  /\ call[c].id \in Ids /\ call[c].window \in Windows /\ call[c].shown \in Nat
           /\ call[c].shown <= lines[call[c].window] /\ lines[call[c].window] \in Nat
           /\ total \in Nat /\ total <= call[c].shown /\ total <= MaxReadLines
           /\ total - 1 \in Unread..(MaxReadLines - 1)
           /\ FirstReturned(call[c].verb, call[c].id) \in Nat
  <1>1. CallOK(call[c])
    BY DEF TypeIInv, CallsOK
  <1>2. /\ call[c].id \in Ids /\ call[c].window \in Windows /\ call[c].shown \in Nat
        /\ call[c].shown <= lines[call[c].window]
    BY <1>1 DEF CallOK, CallShape, At
  <1>3. cap \in Nat \ {0} /\ cap <= MaxReadLines /\ MaxReadLines \in Nat
    BY McpAssumption
  <1>4. total \in Nat /\ total <= call[c].shown /\ total <= cap
    BY <1>2, <1>3, KeptFacts
  <1>5. total <= MaxReadLines /\ total - 1 \in Unread..(MaxReadLines - 1)
    BY <1>3, <1>4 DEF Unread
  <1>6. cursor[call[c].id] \in Unread..(MaxReadLines - 1) /\ lines[call[c].window] \in Nat
    BY <1>2 DEF TypeIInv, StateOK
  <1>7. FirstReturned(call[c].verb, call[c].id) \in Nat
    BY <1>6, McpAssumption DEF FirstReturned, Unread
  <1> QED
    BY <1>2, <1>4, <1>5, <1>6, <1>7

\* What a finished read tells the agent was printed.
LEMMA FinishKeepsTypes ==
    ASSUME TypeIInv, NEW c \in Calls, FinishRead(c)
    PROVE  TypeIInv'
  <1>1. PICK cap \in 1..MaxReadLines :
          LET total == Kept(call[c].verb, call[c].shown, cap)
              w == call[c].window
          IN /\ At(c, Reads, "finish")
             /\ AdvanceCursor(call[c].id, total)
             /\ seen' = [seen EXCEPT ![w] = @ \cup
                    {call[c].shown - total + 1 + i :
                         i \in FirstReturned(call[c].verb, call[c].id)..(total - 1)}]
             /\ cut' = IF total < call[c].shown THEN cut \cup {w} ELSE cut
             /\ stale' \in {stale, stale \cup {call[c].id}}
             /\ Return(c)
             /\ UNCHANGED <<attached, registry, tmuxVars, exits, others, namingVars>>
    BY DEF FinishRead
  <1>2. PICK total : total = Kept(call[c].verb, call[c].shown, cap)
    OBVIOUS
  <1>3. /\ call[c].id \in Ids /\ call[c].window \in Windows /\ call[c].shown \in Nat
        /\ call[c].shown <= lines[call[c].window] /\ lines[call[c].window] \in Nat
        /\ total \in Nat /\ total <= call[c].shown /\ total <= MaxReadLines
        /\ total - 1 \in Unread..(MaxReadLines - 1)
        /\ FirstReturned(call[c].verb, call[c].id) \in Nat
    BY <1>1, <1>2, FinishFacts
  <1>4. PICK w : w = call[c].window
    OBVIOUS
  <1>4a. PICK told : told = {call[c].shown - total + 1 + i :
                                i \in FirstReturned(call[c].verb, call[c].id)..(total - 1)}
    OBVIOUS
  <1>4b. seen' = [seen EXCEPT ![w] = @ \cup told]
    BY <1>1, <1>2, <1>4, <1>4a
  <1>5. told \subseteq 1..lines[w]
    BY <1>3, <1>4, <1>4a
  <1>6. /\ seen' \in [Windows -> SUBSET Nat]
        /\ \A v \in Windows : seen'[v] \subseteq 1..lines[v]
    <2>1. told \subseteq Nat
      BY <1>5, <1>3, <1>4
    <2>2. seen \in [Windows -> SUBSET Nat] /\ \A v \in Windows : seen[v] \subseteq 1..lines[v]
      BY DEF TypeIInv, StateOK
    <2>3. seen'[w] = seen[w] \cup told /\ \A v \in Windows \ {w} : seen'[v] = seen[v]
      BY <1>3, <1>4, <1>4b, <2>2
    <2> QED
      BY <1>3, <1>4, <1>4b, <1>5, <2>1, <2>2, <2>3
  <1>7. cursor' \in [Ids -> Unread..(MaxReadLines - 1)]
    <2>1. cursor' = [cursor EXCEPT ![call[c].id] = total - 1]
      BY <1>1, <1>2 DEF AdvanceCursor
    <2> QED
      BY <1>3, <2>1 DEF TypeIInv, StateOK
  <1>8. /\ attached' = attached /\ registry' = registry /\ opened' = opened
        /\ alive' = alive /\ lines' = lines /\ exits' = exits /\ others' = others
        /\ overlapped' = overlapped /\ slug' = slug /\ unbound' = unbound
    BY <1>1 DEF tmuxVars, namingVars
  <1>9. cut' \subseteq Windows /\ stale' \subseteq Ids
    BY <1>1, <1>2, <1>3 DEF TypeIInv, StateOK
  <1>10. StateOK'
    BY <1>6, <1>7, <1>8, <1>9 DEF TypeIInv, StateOK, Registered
  <1>11. Return(c) /\ opened \in Nat /\ opened <= opened
    BY <1>1, McpAssumption DEF TypeIInv, StateOK
  <1>12. CallsOK'
    BY <1>8, <1>11, ReturnKeeps
  <1> QED
    BY <1>10, <1>12 DEF TypeIInv

LEMMA CaptureKeepsTypes ==
    ASSUME TypeIInv, NEW c \in Calls, CapturePane(c)
    PROVE  TypeIInv'
  <1>1. /\ StateOK' /\ attached' = attached /\ opened' = opened /\ lines' = lines
        /\ opened \in Nat /\ opened' \in Nat /\ opened <= opened'
    BY StateOKKept DEF CapturePane
  <1>2. PICK r : /\ r = [call[c] EXCEPT !.stage = "finish", !.shown = lines[call[c].window]]
                 /\ call' = [call EXCEPT ![c] = r]
    BY DEF CapturePane
  <1>3. CallOK(call[c]) /\ CallsOK
    BY DEF TypeIInv, CallsOK
  <1>4. call[c].window \in Windows /\ lines[call[c].window] \in Nat
    BY McpAssumption DEF CapturePane, TypeIInv, StateOK, Windows
  <1>5. /\ r.verb = call[c].verb /\ r.id = call[c].id /\ r.window = call[c].window
        /\ r.stage = "finish" /\ r.shown = lines[call[c].window] /\ CallShape(r)
    BY <1>2, <1>3, <1>4 DEF CallOK, CallShape, Stages
  <1>6. CallOK(r)'
    BY <1>1, <1>3, <1>4, <1>5 DEF CallOK, CallShape
  <1>7. CallsOK'
    BY <1>1, <1>2, <1>3, <1>6, OneCall
  <1> QED
    BY <1>1, <1>7 DEF TypeIInv

LEMMA ResolveKeepsTypes ==
    ASSUME TypeIInv, NEW c \in Calls, Resolve(c)
    PROVE  TypeIInv'
  <1>1. /\ StateOK' /\ attached' = attached /\ opened' = opened /\ lines' = lines
        /\ opened \in Nat /\ opened' \in Nat /\ opened <= opened'
    BY StateOKKept DEF Resolve
  <1>2. CASE Return(c)
    BY <1>1, <1>2, ReturnKeeps DEF TypeIInv
  <1>3. CASE ~Return(c)
    <2>1. PICK r : /\ r = [call[c] EXCEPT !.stage = "run", !.window = registry[call[c].id]]
                   /\ call' = [call EXCEPT ![c] = r] /\ call[c].id \in Registered
      BY <1>3 DEF Resolve
    <2>2. CallOK(call[c]) /\ CallsOK
      BY DEF TypeIInv, CallsOK
    <2>3. registry[call[c].id] \in Windows /\ registry[call[c].id] \in 0..opened
      <3>1. registry[call[c].id] \in 1..opened /\ opened \in 0..MaxWindows
        BY <2>1 DEF TypeIInv, StateOK
      <3> QED
        BY <3>1, McpAssumption DEF Windows
    <2>4. /\ r.verb = call[c].verb /\ r.id = call[c].id /\ r.window = registry[call[c].id]
          /\ r.stage = "run" /\ CallShape(r)
      BY <2>1, <2>2, <2>3 DEF CallOK, CallShape, Stages
    <2>5. CallOK(r)'
      BY <1>1, <2>2, <2>3, <2>4 DEF CallOK, CallShape
    <2>6. CallsOK'
      BY <1>1, <2>1, <2>2, <2>5, OneCall
    <2> QED
      BY <1>1, <2>6 DEF TypeIInv
  <1> QED
    BY <1>2, <1>3

LEMMA DestroyStepKeepsTypes ==
    ASSUME TypeIInv, NEW c \in Calls, KillWindow(c) \/ Release(c) \/ Clear(c)
    PROVE  TypeIInv'
  <1>1. opened \in Nat /\ opened <= opened /\ CallOK(call[c])
    BY McpAssumption DEF TypeIInv, StateOK, CallsOK
  <1>2. call[c].id \in Ids /\ call[c].verb \notin Reads
    BY <1>1 DEF KillWindow, Release, Clear, At, CallOK, Reads
  <1>3. CASE KillWindow(c)
    <2>1. StateOK'
      BY <1>3 DEF KillWindow, TypeIInv, StateOK, historyVars, namingVars, Registered
    <2>2. CallsOK'
      BY <1>1, <1>2, <1>3, GotoKeeps DEF KillWindow, Stages
    <2> QED
      BY <2>1, <2>2 DEF TypeIInv
  <1>4. ASSUME DropCursor(call[c].id)
        PROVE  cursor' \in [Ids -> Unread..(MaxReadLines - 1)] /\ stale' \subseteq Ids
    <2>1. Unread \in Unread..(MaxReadLines - 1)
      BY McpAssumption DEF Unread
    <2> QED
      BY <1>4, <2>1 DEF DropCursor, TypeIInv, StateOK
  <1>5. CASE Release(c)
    <2>1. /\ attached' = attached /\ opened' = opened /\ lines' = lines /\ exits' = exits
          /\ others' = others /\ seen' = seen /\ cut' = cut /\ overlapped' = overlapped
          /\ Evict(call[c].id) /\ slug' = slug /\ unbound' = unbound
      BY <1>5 DEF Release, namingVars
    <2>2. /\ Registered' = Registered \ {call[c].id}
          /\ \A i \in Registered \ {call[c].id} : registry'[i] = registry[i]
          /\ alive' \subseteq alive
      BY <2>1, EvictFacts
    <2>3. cursor' \in [Ids -> Unread..(MaxReadLines - 1)] /\ stale' \subseteq Ids
      BY <1>4, <1>5 DEF Release, TypeIInv, StateOK
    <2>4. StateOK'
      BY <2>1, <2>2, <2>3 DEF TypeIInv, StateOK
    <2>5. Goto(c, "clear") \/ Return(c)
      BY <1>5 DEF Release
    <2>6. CallsOK'
      BY <1>1, <1>2, <2>1, <2>5, GotoKeeps, ReturnKeeps DEF Stages
    <2> QED
      BY <2>4, <2>6 DEF TypeIInv
  <1>6. CASE Clear(c)
    <2>1. /\ attached' = attached /\ opened' = opened /\ lines' = lines /\ exits' = exits
          /\ others' = others /\ seen' = seen /\ cut' = cut /\ overlapped' = overlapped
          /\ registry' = registry /\ alive' = alive /\ DropCursor(call[c].id) /\ Return(c)
          /\ slug' = slug /\ unbound' = unbound
      BY <1>6 DEF Clear, tmuxVars, namingVars
    <2>2. StateOK'
      BY <1>4, <2>1 DEF TypeIInv, StateOK, Registered
    <2>3. CallsOK'
      BY <1>1, <2>1, ReturnKeeps
    <2> QED
      BY <2>2, <2>3 DEF TypeIInv
  <1> QED
    BY <1>3, <1>5, <1>6

LEMMA OtherVerbStepsKeepTypes ==
    ASSUME TypeIInv, NEW c \in Calls, CountRows(c) \/ Throws(c) \/ CreateWindow(c) \/ LoseWindow(c)
    PROVE  TypeIInv'
  <1>1. CallOK(call[c])
    BY DEF TypeIInv, CallsOK
  <1>2. CASE CountRows(c)
    <2>1. /\ StateOK' /\ attached' = attached /\ opened' = opened /\ lines' = lines
          /\ opened \in Nat /\ opened' \in Nat /\ opened <= opened'
      BY <1>2, StateOKKept DEF CountRows
    <2>2. Goto(c, "run") \/ Return(c)
      BY <1>2 DEF CountRows
    <2>3. CallsOK'
      BY <2>1, <2>2, GotoKeeps, ReturnKeeps DEF Stages
    <2> QED
      BY <2>1, <2>3 DEF TypeIInv
  <1>3. CASE Throws(c)
    <2>1. /\ StateOK' /\ attached' = attached /\ opened' = opened /\ lines' = lines
          /\ opened \in Nat /\ opened' \in Nat /\ opened <= opened'
      BY <1>3, StateOKKept DEF Throws
    <2>2. CallsOK'
      BY <1>3, <2>1, ReturnKeeps DEF Throws
    <2> QED
      BY <2>1, <2>2 DEF TypeIInv
  <1>4. CASE CreateWindow(c)
    <2>1. PICK id \in Ids : Bind(id)
      BY <1>1, <1>4 DEF CreateWindow, CallOK, At
    <2>2. /\ attached' = attached /\ lines' = lines /\ cursor' = cursor /\ exits' = exits
          /\ others' = others /\ seen' = seen /\ cut' = cut /\ overlapped' = overlapped
          /\ Return(c) /\ exits' \in 0..MaxExits /\ others' \in 0..MaxOthers
          /\ unbound' = unbound
      BY <1>4 DEF CreateWindow, TypeIInv, StateOK
    <2>3. StateOK' /\ opened' \in Nat /\ opened <= opened'
      BY <2>1, <2>2, BindFacts
    <2>4. CallsOK'
      BY <2>2, <2>3, ReturnKeeps
    <2> QED
      BY <2>3, <2>4 DEF TypeIInv
  <1>5. CASE LoseWindow(c)
    <2>1. Open(call[c].id) /\ call[c].id \in Ids
      BY <1>1, <1>5 DEF LoseWindow, CallOK, At
    <2>2. /\ attached' = attached /\ registry' = registry /\ lines' = lines /\ cursor' = cursor
          /\ exits' = exits /\ others' = others /\ seen' = seen /\ cut' = cut
          /\ stale' = stale /\ overlapped' = overlapped /\ Return(c)
          /\ unbound' = unbound \cup {opened'}
      BY <1>5 DEF LoseWindow
    <2>3. /\ opened' \in Nat /\ opened <= opened' /\ opened' = opened + 1
          /\ opened' \in 0..MaxWindows /\ alive' \subseteq 1..opened'
          /\ unbound' \subseteq 1..opened' /\ slug' \in [Windows -> Ids \cup {NoId}]
      BY <2>1, <2>2, OpenFacts, McpAssumption DEF TypeIInv, StateOK
    <2>4. \A id \in Registered : registry[id] \in 1..opened'
      BY <2>3, McpAssumption DEF TypeIInv, StateOK
    <2>5. StateOK'
      BY <2>2, <2>3, <2>4 DEF TypeIInv, StateOK, Registered
    <2>6. CallsOK'
      BY <2>2, <2>3, ReturnKeeps
    <2> QED
      BY <2>5, <2>6 DEF TypeIInv
  <1> QED
    BY <1>2, <1>3, <1>4, <1>5

LEMMA EnvironmentKeepsTypes ==
    ASSUME TypeIInv,
           \/ \E w \in Windows : Prints(w) \/ ShellExits(w)
           \/ \E id \in Ids : OthersCall(id)
    PROVE  TypeIInv'
  <1>1. ASSUME attached' = attached, call' = call, opened \in Nat, opened' \in Nat,
               opened <= opened', lines' \in [Windows -> Nat],
               \A w \in Windows : lines[w] <= lines'[w]
        PROVE  CallsOK'
    <2>1. ASSUME NEW d \in Calls PROVE CallOK(call[d])'
      <3>1. CallOK(call[d]) /\ call'[d] = call[d]
        BY <1>1 DEF TypeIInv, CallsOK
      <3>2. lines \in [Windows -> Nat]
        BY DEF TypeIInv, StateOK
      <3> QED
        BY <1>1, <3>1, <3>2 DEF CallOK, CallShape
    <2> QED
      BY <1>1, <2>1 DEF TypeIInv, CallsOK
  <1>2. opened \in Nat /\ lines \in [Windows -> Nat] /\ \A w \in Windows : lines[w] <= lines[w]
    BY McpAssumption DEF TypeIInv, StateOK
  <1>3. ASSUME NEW w \in Windows, Prints(w) PROVE TypeIInv'
    <2>1. /\ lines' = [lines EXCEPT ![w] = @ + 1] /\ lines' \in [Windows -> Nat]
          /\ \A v \in Windows : lines[v] <= lines'[v]
      BY <1>2, <1>3 DEF Prints
    <2>2. /\ attached' = attached /\ registry' = registry /\ alive' = alive
          /\ opened' = opened /\ cursor' = cursor /\ call' = call /\ exits' = exits
          /\ others' = others /\ seen' = seen /\ cut' = cut /\ stale' = stale
          /\ overlapped' = overlapped /\ slug' = slug /\ unbound' = unbound
      BY <1>3 DEF Prints, historyVars, namingVars
    <2>3. \A v \in Windows : seen'[v] \subseteq 1..lines'[v]
      <3> TAKE v \in Windows
      <3>1. seen'[v] \subseteq 1..lines[v] /\ lines[v] \in Nat /\ lines'[v] \in Nat
        BY <2>1, <2>2 DEF TypeIInv, StateOK
      <3> QED
        BY <2>1, <3>1
    <2>4. StateOK'
      BY <2>1, <2>2, <2>3 DEF TypeIInv, StateOK, Registered
    <2> QED
      BY <1>1, <1>2, <2>1, <2>2, <2>4 DEF TypeIInv
  <1>4. ASSUME NEW w \in Windows, ShellExits(w) PROVE TypeIInv'
    <2>1. StateOK'
      <3>1. exits' \in 0..MaxExits
        BY <1>4, McpAssumption DEF ShellExits, TypeIInv, StateOK
      <3> QED
        BY <1>4, <3>1 DEF ShellExits, historyVars, namingVars, TypeIInv, StateOK, Registered
    <2>2. CallsOK'
      BY <1>1, <1>2, <1>4 DEF ShellExits
    <2> QED
      BY <2>1, <2>2 DEF TypeIInv
  <1>5. ASSUME NEW id \in Ids, OthersCall(id) PROVE TypeIInv'
    <2>1. others' \in 0..MaxOthers
      BY <1>5, McpAssumption DEF OthersCall, TypeIInv, StateOK
    <2>2. /\ attached' = attached /\ lines' = lines /\ cursor' = cursor /\ call' = call
          /\ exits' = exits /\ seen' = seen /\ cut' = cut /\ overlapped' = overlapped
          /\ exits' \in 0..MaxExits /\ unbound' = unbound
      BY <1>5 DEF OthersCall, TypeIInv, StateOK
    <2>3. CASE Bind(id)
      <3>1. StateOK' /\ opened' \in Nat /\ opened <= opened'
        BY <2>1, <2>2, <2>3, BindFacts
      <3> QED
        BY <1>1, <1>2, <2>2, <3>1 DEF TypeIInv
    <2>4. CASE Evict(id) /\ UNCHANGED <<opened, stale, slug>>
      <3>1. /\ Registered' = Registered \ {id} /\ alive' \subseteq alive
            /\ \A i \in Registered \ {id} : registry'[i] = registry[i]
        BY <2>4, EvictFacts
      <3>2. StateOK'
        BY <2>1, <2>2, <2>4, <3>1 DEF TypeIInv, StateOK
      <3> QED
        BY <1>1, <1>2, <2>2, <2>4, <3>2 DEF TypeIInv
    <2> QED
      BY <1>5, <2>3, <2>4 DEF OthersCall
  <1> QED
    BY <1>3, <1>4, <1>5

LEMMA TypeStep == TypeIInv /\ [McpNext]_mcpVars => TypeIInv'
  <1> SUFFICES ASSUME TypeIInv, [McpNext]_mcpVars PROVE TypeIInv'
    OBVIOUS
  <1>1. ASSUME NEW c \in Calls, VerbCalled(c) PROVE TypeIInv'
    BY <1>1, VerbCalledKeepsTypes
  <1>2. ASSUME NEW c \in Calls, VerbStep(c) PROVE TypeIInv'
    BY <1>2, FinishKeepsTypes, CaptureKeepsTypes, ResolveKeepsTypes, DestroyStepKeepsTypes,
       OtherVerbStepsKeepTypes DEF VerbStep
  <1>3. CASE UNCHANGED mcpVars
    <2>1. StateOK'
      BY <1>3 DEF mcpVars, tmuxVars, historyVars, namingVars, TypeIInv, StateOK, Registered
    <2>2. CallsOK'
      BY <1>3 DEF mcpVars, tmuxVars, TypeIInv, CallsOK, CallOK, CallShape
    <2> QED
      BY <2>1, <2>2 DEF TypeIInv
  <1> QED
    BY <1>1, <1>2, <1>3, EnvironmentKeepsTypes DEF McpNext

----------------------------------------------------------------------------
(* No delta skips a line *)

LEMMA CursorsUndisturbed ==
    ASSUME CursorsOK, UNCHANGED <<attached, registry, cursor, seen, cut, stale>>
    PROVE  CursorsOK'
  BY DEF CursorsOK, NoLineSkipped, FreeNamesUnread, Registered

\* A name that is bound again has no cursor, or one that is known to be stale.
LEMMA BindKeepsCursors ==
    ASSUME TypeIInv, CursorsOK, NEW id \in Ids, Bind(id), attached' = attached,
           cursor' = cursor, seen' = seen, cut' = cut
    PROVE  CursorsOK'
  <1>1. /\ Registered' = Registered \cup {id} /\ registry'[id] = opened'
        /\ \A i \in Registered \ {id} : registry'[i] = registry[i]
        /\ stale \subseteq stale'
        /\ (id \in Registered \/ attached) /\ cursor[id] # Unread => id \in stale'
    BY DEF Bind, Registered
  <1>2. id \in stale' \/ cursor[id] = Unread
    BY <1>1 DEF CursorsOK, FreeNamesUnread
  <1>3. cursor[id] = Unread => 1..(cursor[id] + 1) = {}
    BY DEF Unread
  <1>4. NoLineSkipped'
    <2>1. ASSUME NEW i \in Registered', i \notin stale'
          PROVE  registry'[i] \in cut' \/ 1..(cursor'[i] + 1) \subseteq seen'[registry'[i]]
      <3>1. CASE i = id
        BY <1>2, <1>3, <2>1, <3>1
      <3>2. CASE i # id
        BY <1>1, <2>1, <3>2 DEF CursorsOK, NoLineSkipped
      <3> QED
        BY <3>1, <3>2
    <2> QED
      BY <2>1 DEF NoLineSkipped
  <1>5. FreeNamesUnread'
    BY <1>1 DEF CursorsOK, FreeNamesUnread
  <1> QED
    BY <1>4, <1>5 DEF CursorsOK

\* A name that is given back without its cursor is the broker's.
LEMMA EvictKeepsCursors ==
    ASSUME TypeIInv, CursorsOK, NEW id, Evict(id), attached, attached',
           cursor' = cursor, seen' = seen, cut' = cut, stale' = stale
    PROVE  CursorsOK'
  <1>1. /\ Registered' = Registered \ {id}
        /\ \A i \in Registered \ {id} : registry'[i] = registry[i]
    BY EvictFacts
  <1> QED
    BY <1>1 DEF CursorsOK, NoLineSkipped, FreeNamesUnread

\* A cursor is dropped, with its name or after it.
LEMMA DropKeepsCursors ==
    ASSUME TypeIInv, CursorsOK, NEW id \in Ids, DropCursor(id), attached' = attached,
           Registered' \in {Registered, Registered \ {id}},
           \A i \in Registered' : registry'[i] = registry[i], seen' = seen, cut' = cut
    PROVE  CursorsOK'
  <1>1. cursor' = [cursor EXCEPT ![id] = Unread] /\ stale' = stale \ {id}
    BY DEF DropCursor
  <1>2. cursor \in [Ids -> Unread..(MaxReadLines - 1)]
    BY DEF TypeIInv, StateOK
  <1>3. cursor'[id] = Unread /\ \A i \in Ids \ {id} : cursor'[i] = cursor[i]
    BY <1>1, <1>2
  <1>4. 1..(cursor'[id] + 1) = {}
    BY <1>3 DEF Unread
  <1>5. Registered \subseteq Ids
    BY DEF TypeIInv, StateOK
  <1>6. NoLineSkipped'
    <2>1. ASSUME NEW i \in Registered', i \notin stale'
          PROVE  registry'[i] \in cut' \/ 1..(cursor'[i] + 1) \subseteq seen'[registry'[i]]
      <3>1. CASE i = id
        BY <1>4, <3>1
      <3>2. CASE i # id
        BY <1>1, <1>3, <1>5, <2>1, <3>2 DEF CursorsOK, NoLineSkipped
      <3> QED
        BY <3>1, <3>2
    <2> QED
      BY <2>1 DEF NoLineSkipped
  <1>7. FreeNamesUnread'
    BY <1>1, <1>3 DEF CursorsOK, FreeNamesUnread
  <1> QED
    BY <1>6, <1>7 DEF CursorsOK

\* A read that ends, in whatever order: the cursor passes the lines it returned, or
\* goes back to lines that were returned before.
LEMMA FinishKeepsCursors ==
    ASSUME TypeIInv, CursorsOK, NEW c \in Calls, FinishRead(c)
    PROVE  CursorsOK'
  <1>1. PICK cap \in 1..MaxReadLines :
          LET total == Kept(call[c].verb, call[c].shown, cap)
              w == call[c].window
          IN /\ At(c, Reads, "finish")
             /\ AdvanceCursor(call[c].id, total)
             /\ seen' = [seen EXCEPT ![w] = @ \cup
                    {call[c].shown - total + 1 + i :
                         i \in FirstReturned(call[c].verb, call[c].id)..(total - 1)}]
             /\ cut' = IF total < call[c].shown THEN cut \cup {w} ELSE cut
             /\ stale' = IF call[c].id \in Registered /\ registry[call[c].id] = w
                         THEN stale ELSE stale \cup {call[c].id}
             /\ UNCHANGED <<attached, registry>>
    BY DEF FinishRead
  <1>2. PICK total : total = Kept(call[c].verb, call[c].shown, cap)
    OBVIOUS
  <1>3. PICK id, w, shown, from : /\ id = call[c].id /\ w = call[c].window
                                  /\ shown = call[c].shown
                                  /\ from = FirstReturned(call[c].verb, call[c].id)
    OBVIOUS
  <1>4. PICK told : told = {shown - total + 1 + i : i \in from..(total - 1)}
    OBVIOUS
  <1>5. /\ id \in Ids /\ w \in Windows /\ shown \in Nat /\ total \in Nat /\ total <= shown
        /\ from \in Nat
    BY <1>1, <1>2, <1>3, FinishFacts
  <1>6. /\ seen' = [seen EXCEPT ![w] = @ \cup told]
        /\ cursor' = [cursor EXCEPT ![id] = total - 1]
        /\ cut' = IF total < shown THEN cut \cup {w} ELSE cut
        /\ stale' = IF id \in Registered /\ registry[id] = w THEN stale ELSE stale \cup {id}
        /\ attached' = attached /\ registry' = registry
    BY <1>1, <1>2, <1>3, <1>4 DEF AdvanceCursor
  <1>7. /\ seen \in [Windows -> SUBSET Nat] /\ cursor \in [Ids -> Unread..(MaxReadLines - 1)]
        /\ Registered \subseteq Ids /\ \A i \in Registered : registry[i] \in Windows
    BY McpAssumption DEF TypeIInv, StateOK, Windows
  <1>8. /\ seen'[w] = seen[w] \cup told /\ \A v \in Windows : seen[v] \subseteq seen'[v]
        /\ cursor'[id] = total - 1 /\ \A i \in Ids \ {id} : cursor'[i] = cursor[i]
        /\ cut \subseteq cut' /\ stale \subseteq stale'
    BY <1>5, <1>6, <1>7
  <1>9. ASSUME id \in Registered, id \notin stale', w \notin cut'
        PROVE  1..total \subseteq seen'[w]
    <2>1. registry[id] = w /\ total = shown /\ id \notin stale /\ w \notin cut
      BY <1>5, <1>6, <1>9
    <2>2. 1..(cursor[id] + 1) \subseteq seen[w]
      BY <1>9, <2>1 DEF CursorsOK, NoLineSkipped
    <2>3. from = 0 \/ from = cursor[id] + 1
      BY <1>3 DEF FirstReturned
    <2>4. ASSUME NEW n \in 1..total, n >= from + 1 PROVE n \in told
      <3>1. n - 1 \in from..(total - 1) /\ n = shown - total + 1 + (n - 1)
        BY <1>5, <2>1, <2>4
      <3> QED
        BY <1>4, <3>1
    <2>5. ASSUME NEW n \in 1..total, ~(n >= from + 1) PROVE n \in seen[w]
      BY <1>5, <1>7, <2>2, <2>3, <2>5 DEF Unread
    <2> QED
      BY <1>8, <2>4, <2>5
  <1>10. NoLineSkipped'
    <2>1. ASSUME NEW i \in Registered, i \notin stale', registry[i] \notin cut'
          PROVE  1..(cursor'[i] + 1) \subseteq seen'[registry[i]]
      <3>1. CASE i = id
        <4>1. registry[id] = w /\ cursor'[id] + 1 = total
          BY <1>5, <1>6, <1>8, <2>1, <3>1
        <4> QED
          BY <1>9, <2>1, <3>1, <4>1
      <3>2. CASE i # id
        <4>1. 1..(cursor[i] + 1) \subseteq seen[registry[i]]
          BY <1>8, <2>1 DEF CursorsOK, NoLineSkipped
        <4> QED
          BY <1>7, <1>8, <2>1, <3>2, <4>1
      <3> QED
        BY <3>1, <3>2
    <2> QED
      BY <1>6, <2>1 DEF NoLineSkipped, Registered
  <1>11. FreeNamesUnread'
    <2>1. id \notin Registered => id \in stale'
      BY <1>6
    <2> QED
      BY <1>6, <1>8, <2>1 DEF CursorsOK, FreeNamesUnread, Registered
  <1> QED
    BY <1>10, <1>11 DEF CursorsOK

LEMMA CursorsStep == TypeIInv /\ CursorsOK /\ [McpNext]_mcpVars => CursorsOK'
  <1> SUFFICES ASSUME TypeIInv, CursorsOK, [McpNext]_mcpVars PROVE CursorsOK'
    OBVIOUS
  <1>1. ASSUME NEW c \in Calls, VerbCalled(c) PROVE CursorsOK'
    <2>1. ASSUME NEW verb, NEW id, NEW w, Start(c, verb, id, w) PROVE CursorsOK'
      BY <2>1, CursorsUndisturbed DEF Start
    <2> QED
      BY <1>1, <2>1 DEF VerbCalled, CallCreate, CallDestroy, CallRead, CallOn
  <1>2. ASSUME NEW c \in Calls,
               \/ Resolve(c) \/ Throws(c) \/ CountRows(c) \/ LoseWindow(c) \/ KillWindow(c)
               \/ CapturePane(c)
        PROVE  CursorsOK'
    BY <1>2, CursorsUndisturbed DEF Resolve, Throws, CountRows, LoseWindow, KillWindow,
                                    CapturePane, historyVars
  <1>3. ASSUME NEW c \in Calls, CreateWindow(c) PROVE CursorsOK'
    <2>1. CallOK(call[c])
      BY <1>3 DEF TypeIInv, CallsOK
    <2>2. PICK id \in Ids : Bind(id)
      BY <1>3, <2>1 DEF CreateWindow, CallOK, At
    <2> QED
      BY <1>3, <2>2, BindKeepsCursors DEF CreateWindow
  <1>4. ASSUME NEW c \in Calls, Release(c) \/ Clear(c) PROVE CursorsOK'
    <2>1. CallOK(call[c])
      BY <1>4 DEF TypeIInv, CallsOK
    <2>2. call[c].id \in Ids
      BY <1>4, <2>1 DEF Release, Clear, At, CallOK
    <2>3. CASE Release(c)
      <3>1. Evict(call[c].id) /\ attached' = attached /\ seen' = seen /\ cut' = cut
        BY <2>3 DEF Release
      <3>2. /\ Registered' = Registered \ {call[c].id}
            /\ \A i \in Registered' : registry'[i] = registry[i]
        BY <3>1, EvictFacts
      <3>3. CASE attached
        BY <2>3, <3>1, <3>3, EvictKeepsCursors DEF Release
      <3>4. CASE ~attached
        BY <2>2, <2>3, <3>1, <3>2, <3>4, DropKeepsCursors DEF Release
      <3> QED
        BY <3>3, <3>4
    <2>4. CASE Clear(c)
      BY <2>2, <2>4, DropKeepsCursors DEF Clear, Registered
    <2> QED
      BY <1>4, <2>3, <2>4
  <1>5. ASSUME NEW c \in Calls, VerbStep(c) PROVE CursorsOK'
    BY <1>2, <1>3, <1>4, <1>5, FinishKeepsCursors DEF VerbStep
  <1>6. ASSUME NEW w \in Windows, Prints(w) \/ ShellExits(w) PROVE CursorsOK'
    BY <1>6, CursorsUndisturbed DEF Prints, ShellExits, historyVars
  <1>7. ASSUME NEW id \in Ids, OthersCall(id) PROVE CursorsOK'
    BY <1>7, BindKeepsCursors, EvictKeepsCursors DEF OthersCall
  <1>8. CASE UNCHANGED mcpVars
    BY <1>8, CursorsUndisturbed DEF mcpVars, historyVars
  <1> QED
    BY <1>1, <1>5, <1>6, <1>7, <1>8 DEF McpNext

----------------------------------------------------------------------------
(* No terminal of the local map is orphaned *)

\* A step of one verb that neither begins a create nor kills or releases anything.
LEMMA QuietStepKeepsNames ==
    ASSUME TypeIInv, NamesHeld, NEW c \in Calls,
           registry' = registry, alive' \subseteq alive, UNCHANGED namingVars,
           \A d \in Calls \ {c} : call'[d] = call[d],
           Creating(c)' => Creating(c) /\ call'[c].id = call[c].id,
           ~Killed(c)',
           Killing(c)' => call'[c].id \in Registered /\ registry[call'[c].id] = call'[c].window
    PROVE  NamesHeld'
  <1>1. /\ Registered' = Registered /\ overlapped' = overlapped /\ slug' = slug
        /\ unbound' = unbound
    BY DEF Registered, namingVars
  <1>2. Reachable' /\ NamedSo'
    BY <1>1 DEF NamesHeld, Reachable, NamedSo
  <1>3. \A d \in Calls \ {c} : /\ Creating(d)' <=> Creating(d)
                               /\ Killing(d)' => Killing(d)
                               /\ Killed(d)' <=> Killed(d)
    BY DEF Creating, Killing, Killed, At
  <1>4. CreatesApart'
    BY <1>1, <1>3 DEF NamesHeld, CreatesApart, Sole
  <1>5. DestroysApart'
    BY <1>1, <1>3 DEF NamesHeld, DestroysApart, Sole
  <1> QED
    BY <1>2, <1>4, <1>5 DEF NamesHeld

LEMMA CallUpdates ==
    ASSUME TypeIInv, NEW c \in Calls
    PROVE  /\ Return(c) => call'[c] = Idle /\ \A d \in Calls \ {c} : call'[d] = call[d]
           /\ \A s : Goto(c, s) => /\ call'[c].verb = call[c].verb /\ call'[c].stage = s
                                   /\ call'[c].id = call[c].id
                                   /\ call'[c].window = call[c].window
                                   /\ \A d \in Calls \ {c} : call'[d] = call[d]
           /\ \A verb, id, w : Start(c, verb, id, w) =>
                  /\ call'[c].verb = verb /\ call'[c].stage \in {"resolve", "run"}
                  /\ call'[c].id = id /\ call'[c].window = w
                  /\ \A d \in Calls \ {c} : call'[d] = call[d]
  <1>1. call = [d \in Calls |-> call[d]] /\ \A d \in Calls : CallShape(call[d])
    BY DEF TypeIInv, CallsOK, CallOK
  <1>2. ASSUME Return(c)
        PROVE  call'[c] = Idle /\ \A d \in Calls \ {c} : call'[d] = call[d]
    BY <1>1, <1>2 DEF Return
  <1>3. ASSUME NEW s, Goto(c, s)
        PROVE  /\ call'[c].verb = call[c].verb /\ call'[c].stage = s
               /\ call'[c].id = call[c].id /\ call'[c].window = call[c].window
               /\ \A d \in Calls \ {c} : call'[d] = call[d]
    <2>1. call'[c] = [call[c] EXCEPT !.stage = s] /\ \A d \in Calls \ {c} : call'[d] = call[d]
      BY <1>1, <1>3 DEF Goto
    <2> QED
      BY <1>1, <2>1 DEF CallShape
  <1>4. ASSUME NEW verb, NEW id, NEW w, Start(c, verb, id, w)
        PROVE  /\ call'[c].verb = verb /\ call'[c].stage \in {"resolve", "run"}
               /\ call'[c].id = id /\ call'[c].window = w
               /\ \A d \in Calls \ {c} : call'[d] = call[d]
    BY <1>1, <1>4 DEF Start
  <1> QED
    BY <1>2, <1>3, <1>4

LEMMA IdleIsQuiet ==
    ASSUME NEW c, call'[c] = Idle
    PROVE  ~Creating(c)' /\ ~Killed(c)' /\ ~Killing(c)'
  BY DEF Idle, Creating, Killed, Killing, At

\* A create begins, with a free name.
LEMMA CallCreateKeepsNames ==
    ASSUME TypeIInv, NamesHeld, ~attached, NEW c \in Calls, CallCreate(c)
    PROVE  NamesHeld'
  <1>1. PICK id \in Ids \ Registered :
            /\ Start(c, "create", id, NoWindow)
            /\ overlapped' = overlapped \cup {i \in {id} \ {NoId} :
                   \E d \in Calls : call[d].verb = "create" /\ call[d].id = i}
    BY DEF CallCreate
  <1>2. id # NoId
    BY DEF Ids, NoId
  <1>3. overlapped \subseteq overlapped' /\ \A d \in Calls : Creating(d) /\ call[d].id = id
                                                        => id \in overlapped'
    BY <1>1, <1>2 DEF Creating
  <1>4. /\ call'[c].verb = "create" /\ call'[c].id = id
        /\ \A d \in Calls \ {c} : call'[d] = call[d]
    BY <1>1, CallUpdates
  <1>5. /\ registry' = registry /\ alive' = alive /\ Registered' = Registered
        /\ slug' = slug /\ unbound' = unbound
    BY <1>1 DEF Start, tmuxVars, Registered
  <1>6. Reachable' /\ NamedSo'
    BY <1>3, <1>5 DEF NamesHeld, Reachable, NamedSo
  <1>7. CreatesApart'
    <2>1. \A d \in Calls \ {c} : Creating(d)' <=> Creating(d)
      BY <1>4 DEF Creating
    <2> QED
      BY <1>1, <1>3, <1>4, <1>5, <2>1 DEF NamesHeld, CreatesApart, Sole
  <1>8. DestroysApart'
    <2>1. ~Killing(c)' /\ ~Killed(c)'
      BY <1>4 DEF Killing, Killed, At
    <2>2. \A d \in Calls \ {c} : (Killing(d)' <=> Killing(d)) /\ (Killed(d)' <=> Killed(d))
      BY <1>4, <1>5 DEF Killing, Killed, At
    <2> QED
      BY <1>3, <1>4, <1>5, <2>1, <2>2 DEF NamesHeld, DestroysApart, Sole
  <1> QED
    BY <1>6, <1>7, <1>8 DEF NamesHeld

\* The verbs in flight, once one has opened a window and returned.
LEMMA OpeningReturns ==
    ASSUME TypeIInv, NEW c \in Calls, NEW id \in Ids, Open(id), Return(c)
    PROVE  /\ call'[c] = Idle /\ \A d \in Calls \ {c} : call'[d] = call[d]
           /\ ~Creating(c)' /\ ~Killed(c)' /\ ~Killing(c)'
           /\ \A d \in Calls \ {c} : /\ Creating(d)' <=> Creating(d)
                                     /\ Killing(d)' => Killing(d)
                                     /\ Killed(d)' <=> Killed(d)
  <1>1. opened' = opened + 1 /\ opened \in Nat /\ alive' = alive \cup {opened'}
    BY OpenFacts, McpAssumption DEF TypeIInv, StateOK
  <1>2. call'[c] = Idle /\ \A d \in Calls \ {c} : call'[d] = call[d]
    BY CallUpdates
  <1>3. \A d \in Calls : call[d].window # opened'
    BY <1>1 DEF TypeIInv, CallsOK, CallOK
  <1>4. ~Creating(c)' /\ ~Killed(c)' /\ ~Killing(c)'
    BY <1>2, IdleIsQuiet
  <1> QED
    BY <1>1, <1>2, <1>3, <1>4 DEF Creating, Killing, Killed, At

\* A create binds its name to a new window: if the name had one, creates overlapped.
LEMMA CreateWindowKeepsNames ==
    ASSUME TypeIInv, NamesHeld, ~attached, NEW c \in Calls, CreateWindow(c)
    PROVE  NamesHeld'
  <1>1. /\ Bind(call[c].id) /\ Creating(c) /\ Return(c) /\ call[c].id \in Ids
        /\ overlapped' = overlapped /\ unbound' = unbound
    BY DEF TypeIInv, CallsOK, CallOK, CreateWindow, At, Creating
  <1>2. PICK id \in Ids : id = call[c].id
    BY <1>1
  <1>3. /\ Registered' = Registered \cup {id} /\ registry'[id] = opened'
        /\ \A i \in Registered \ {id} : registry'[i] = registry[i]
    BY <1>1, <1>2 DEF Bind, Registered
  <1>4. /\ alive' = alive \cup {opened'} /\ opened' = opened + 1 /\ opened \in Nat
        /\ slug'[opened'] = id /\ \A w \in 1..opened : slug'[w] = slug[w]
    BY <1>1, <1>2, OpenFacts, McpAssumption DEF Bind, TypeIInv, StateOK
  <1>5. \A i \in Registered : registry[i] \in 1..opened /\ registry[i] # opened'
    BY <1>4 DEF TypeIInv, StateOK
  <1>6. /\ \A d \in Calls \ {c} : call'[d] = call[d]
        /\ ~Creating(c)' /\ ~Killed(c)' /\ ~Killing(c)'
        /\ \A d \in Calls \ {c} : /\ Creating(d)' <=> Creating(d)
                                  /\ Killing(d)' => Killing(d)
                                  /\ Killed(d)' <=> Killed(d)
    BY <1>1, <1>2, OpeningReturns DEF Bind
  <1>7. NamedSo'
    BY <1>3, <1>4, <1>5 DEF NamesHeld, NamedSo
  <1>8. Sole(id) => id \notin Registered
    BY <1>1, <1>2 DEF NamesHeld, CreatesApart
  <1>9. Reachable'
    <2> SUFFICES ASSUME NEW w \in alive' \ unbound
                 PROVE  slug'[w] \in overlapped \/ \E i \in Registered' : registry'[i] = w
      BY <1>1 DEF Reachable
    <2>1. CASE w = opened'
      BY <1>3, <2>1
    <2>2. CASE w # opened'
      <3>1. w \in alive \ unbound /\ slug'[w] = slug[w]
        BY <1>4, <2>2 DEF TypeIInv, StateOK
      <3>2. CASE slug[w] \in overlapped
        BY <3>1, <3>2
      <3>3. ASSUME NEW i \in Registered, registry[i] = w
            PROVE  slug'[w] \in overlapped \/ \E j \in Registered' : registry'[j] = w
        <4>1. CASE i # id
          BY <1>3, <3>3, <4>1
        <4>2. CASE i = id
          BY <1>8, <3>1, <3>3, <4>2 DEF NamesHeld, NamedSo, Sole
        <4> QED
          BY <4>1, <4>2
      <3> QED
        BY <3>1, <3>2, <3>3 DEF NamesHeld, Reachable
    <2> QED
      BY <2>1, <2>2
  <1>10. CreatesApart'
    <2>1. \A d \in Calls \ {c} : Creating(d) /\ Sole(call[d].id)
              => call[d].id \notin Registered /\ call[d].id # id
      BY <1>1, <1>2 DEF NamesHeld, CreatesApart
    <2> QED
      BY <1>1, <1>3, <1>6, <2>1 DEF NamesHeld, CreatesApart, Sole
  <1>11. DestroysApart'
    <2>1. \A d \in Calls \ {c} : (Killing(d) \/ Killed(d)) /\ Sole(call[d].id)
              => call[d].id \in Registered \ {id}
      BY <1>8 DEF NamesHeld, DestroysApart
    <2> QED
      BY <1>1, <1>3, <1>4, <1>5, <1>6, <2>1 DEF NamesHeld, DestroysApart, Sole
  <1> QED
    BY <1>7, <1>9, <1>10, <1>11 DEF NamesHeld

\* A window that no terminal will ever name.
LEMMA LoseWindowKeepsNames ==
    ASSUME TypeIInv, NamesHeld, NEW c \in Calls, LoseWindow(c)
    PROVE  NamesHeld'
  <1>1. /\ Open(call[c].id) /\ Creating(c) /\ Return(c) /\ call[c].id \in Ids
        /\ overlapped' = overlapped /\ unbound' = unbound \cup {opened'}
        /\ registry' = registry /\ Registered' = Registered
    BY DEF TypeIInv, CallsOK, CallOK, LoseWindow, At, Creating, Registered
  <1>2. /\ alive' = alive \cup {opened'} /\ opened' = opened + 1 /\ opened \in Nat
        /\ \A w \in 1..opened : slug'[w] = slug[w]
    BY <1>1, OpenFacts, McpAssumption DEF TypeIInv, StateOK
  <1>3. \A i \in Registered : registry[i] \in 1..opened /\ registry[i] # opened'
    BY <1>2 DEF TypeIInv, StateOK
  <1>4. /\ \A d \in Calls \ {c} : call'[d] = call[d]
        /\ ~Creating(c)' /\ ~Killed(c)' /\ ~Killing(c)'
        /\ \A d \in Calls \ {c} : /\ Creating(d)' <=> Creating(d)
                                  /\ Killing(d)' => Killing(d)
                                  /\ Killed(d)' <=> Killed(d)
    BY <1>1, OpeningReturns
  <1>5. NamedSo'
    BY <1>1, <1>2, <1>3 DEF NamesHeld, NamedSo
  <1>6. Reachable'
    <2>1. \A w \in alive' \ unbound' : w \in alive \ unbound /\ slug'[w] = slug[w]
      BY <1>1, <1>2 DEF TypeIInv, StateOK
    <2> QED
      BY <1>1, <2>1 DEF NamesHeld, Reachable
  <1>7. CreatesApart'
    BY <1>1, <1>4 DEF NamesHeld, CreatesApart, Sole
  <1>8. DestroysApart'
    BY <1>1, <1>2, <1>3, <1>4 DEF NamesHeld, DestroysApart, Sole
  <1> QED
    BY <1>5, <1>6, <1>7, <1>8 DEF NamesHeld

\* A destroy kills its window: under a name of one window no other has, so that it is
\* alone in releasing the name.
LEMMA KillWindowKeepsNames ==
    ASSUME TypeIInv, NamesHeld, NEW c \in Calls, KillWindow(c)
    PROVE  NamesHeld'
  <1>1. /\ Killing(c) /\ alive' = alive \ {call[c].window} /\ Goto(c, "finish")
        /\ registry' = registry /\ Registered' = Registered /\ overlapped' = overlapped
        /\ slug' = slug /\ unbound' = unbound
    BY DEF KillWindow, Killing, Registered, historyVars, namingVars
  <1>2. /\ call'[c].verb = call[c].verb /\ call'[c].stage = "finish"
        /\ call'[c].id = call[c].id /\ call'[c].window = call[c].window
        /\ \A d \in Calls \ {c} : call'[d] = call[d]
    BY <1>1, CallUpdates
  <1>3. /\ call[c].window \in alive /\ call[c].verb = "destroy"
        /\ Sole(call[c].id) => /\ call[c].id \in Registered
                              /\ registry[call[c].id] = call[c].window
    BY <1>1 DEF NamesHeld, DestroysApart, Killing, At
  <1>4. \A d \in Calls \ {c} : /\ Creating(d)' <=> Creating(d)
                               /\ Killing(d)' => Killing(d)
                               /\ Killed(d)' <=> Killed(d)
    BY <1>1, <1>2 DEF Creating, Killing, Killed, At
  <1>5. ~Creating(c)' /\ ~Killing(c)'
    BY <1>2, <1>3 DEF Creating, Killing, At
  <1>6. Reachable' /\ NamedSo'
    BY <1>1 DEF NamesHeld, Reachable, NamedSo
  <1>7. CreatesApart'
    BY <1>1, <1>2, <1>4, <1>5 DEF NamesHeld, CreatesApart, Sole
  <1>8. \A d \in Calls \ {c} : Killed(d) /\ call[d].id = call[c].id => ~Sole(call[c].id)
    BY <1>3 DEF NamesHeld, DestroysApart
  <1>9. DestroysApart'
    BY <1>1, <1>2, <1>3, <1>4, <1>5, <1>8 DEF NamesHeld, DestroysApart, Sole
  <1> QED
    BY <1>6, <1>7, <1>9 DEF NamesHeld

\* A destroy releases the name of the window it has killed.
LEMMA ReleaseKeepsNames ==
    ASSUME TypeIInv, NamesHeld, ~attached, NEW c \in Calls, Release(c)
    PROVE  NamesHeld'
  <1>1. /\ Killed(c) /\ Evict(call[c].id) /\ Return(c) /\ overlapped' = overlapped
        /\ slug' = slug /\ unbound' = unbound
    BY DEF Release, Killed, namingVars
  <1>2. /\ Registered' = Registered \ {call[c].id} /\ alive' = alive
        /\ \A i \in Registered \ {call[c].id} : registry'[i] = registry[i]
    BY <1>1, EvictFacts
  <1>3. call'[c] = Idle /\ \A d \in Calls \ {c} : call'[d] = call[d]
    BY <1>1, CallUpdates
  <1>4. ~Creating(c)' /\ ~Killed(c)' /\ ~Killing(c)'
    BY <1>3, IdleIsQuiet
  <1>5. Sole(call[c].id) => call[c].id \in Registered /\ registry[call[c].id] \notin alive
    BY <1>1 DEF NamesHeld, DestroysApart
  <1>6. \A d \in Calls \ {c} : /\ Creating(d)' <=> Creating(d)
                               /\ Killing(d)' <=> Killing(d)
                               /\ Killed(d)' <=> Killed(d)
    BY <1>2, <1>3 DEF Creating, Killing, Killed, At
  <1>7. NamedSo'
    BY <1>1, <1>2 DEF NamesHeld, NamedSo
  <1>8. Reachable'
    <2> SUFFICES ASSUME NEW w \in alive \ unbound, slug[w] \notin overlapped
                 PROVE  \E i \in Registered' : registry'[i] = w
      BY <1>1, <1>2 DEF Reachable
    <2>1. PICK i \in Registered : registry[i] = w
      BY DEF NamesHeld, Reachable
    <2>2. i # call[c].id
      BY <1>5, <2>1 DEF NamesHeld, NamedSo, Sole
    <2> QED
      BY <1>2, <2>1, <2>2
  <1>9. CreatesApart'
    BY <1>1, <1>2, <1>3, <1>4, <1>6 DEF NamesHeld, CreatesApart, Sole
  <1>10. \A d \in Calls \ {c} : (Killing(d) \/ Killed(d)) /\ Sole(call[d].id)
             => call[d].id # call[c].id
    BY <1>1, <1>5 DEF NamesHeld, DestroysApart, Killing
  <1>11. DestroysApart'
    BY <1>1, <1>2, <1>3, <1>4, <1>6, <1>10 DEF NamesHeld, DestroysApart, Sole
  <1> QED
    BY <1>7, <1>8, <1>9, <1>11 DEF NamesHeld

LEMMA VerbStepKeepsNames ==
    ASSUME TypeIInv, NamesHeld, ~attached, NEW c \in Calls, VerbStep(c)
    PROVE  NamesHeld'
  <1>1. CASE Throws(c) \/ FinishRead(c) \/ Clear(c)
    <2>1. Return(c) /\ registry' = registry /\ alive' = alive /\ UNCHANGED namingVars
      BY <1>1 DEF Throws, FinishRead, Clear, tmuxVars, historyVars
    <2>2. call'[c] = Idle /\ \A d \in Calls \ {c} : call'[d] = call[d]
      BY <2>1, CallUpdates
    <2>3. ~Creating(c)' /\ ~Killed(c)' /\ ~Killing(c)'
      BY <2>2, IdleIsQuiet
    <2> QED
      BY <2>1, <2>2, <2>3, QuietStepKeepsNames
  <1>2. CASE CountRows(c)
    <2>1. /\ registry' = registry /\ alive' = alive /\ Creating(c) /\ UNCHANGED namingVars
          /\ Goto(c, "run") \/ Return(c)
      BY <1>2 DEF CountRows, tmuxVars, historyVars, At, Creating
    <2>2. CASE Goto(c, "run")
      <3>1. /\ call'[c].verb = "create" /\ call'[c].id = call[c].id
            /\ \A d \in Calls \ {c} : call'[d] = call[d]
        BY <2>1, <2>2, CallUpdates DEF Creating
      <3>2. ~Killed(c)' /\ ~Killing(c)'
        BY <3>1 DEF Killed, Killing, At
      <3> QED
        BY <2>1, <3>1, <3>2, QuietStepKeepsNames
    <2>3. CASE Return(c)
      <3>1. call'[c] = Idle /\ \A d \in Calls \ {c} : call'[d] = call[d]
        BY <2>3, CallUpdates
      <3>2. ~Creating(c)' /\ ~Killed(c)' /\ ~Killing(c)'
        BY <3>1, IdleIsQuiet
      <3> QED
        BY <2>1, <3>1, <3>2, QuietStepKeepsNames
    <2> QED
      BY <2>1, <2>2, <2>3
  <1>3. CASE Resolve(c)
    <2>1. registry' = registry /\ alive' = alive /\ UNCHANGED namingVars
      BY <1>3 DEF Resolve, tmuxVars, historyVars
    <2>2. CASE Return(c)
      <3>1. call'[c] = Idle /\ \A d \in Calls \ {c} : call'[d] = call[d]
        BY <2>2, CallUpdates
      <3>2. ~Creating(c)' /\ ~Killed(c)' /\ ~Killing(c)'
        BY <3>1, IdleIsQuiet
      <3> QED
        BY <2>1, <3>1, <3>2, QuietStepKeepsNames
    <2>3. CASE ~Return(c)
      <3>1. /\ call[c].id \in Registered /\ call[c].verb # "create"
            /\ call' = [call EXCEPT ![c].stage = "run", ![c].window = registry[call[c].id]]
        BY <1>3, <2>3 DEF Resolve, At, Reads
      <3>2. call = [d \in Calls |-> call[d]] /\ CallShape(call[c])
        BY DEF TypeIInv, CallsOK, CallOK
      <3>3. /\ call'[c] = [call[c] EXCEPT !.stage = "run", !.window = registry[call[c].id]]
            /\ \A d \in Calls \ {c} : call'[d] = call[d]
        BY <3>1, <3>2
      <3>4. /\ call'[c].verb = call[c].verb /\ call'[c].stage = "run"
            /\ call'[c].id = call[c].id /\ call'[c].window = registry[call[c].id]
        BY <3>2, <3>3 DEF CallShape
      <3>5. ~Creating(c)' /\ ~Killed(c)'
        BY <3>1, <3>4 DEF Creating, Killed, At
      <3> QED
        BY <2>1, <3>1, <3>3, <3>4, <3>5, QuietStepKeepsNames
    <2> QED
      BY <2>2, <2>3
  <1>4. CASE CapturePane(c)
    <2>1. /\ registry' = registry /\ alive' = alive /\ call[c].verb \in Reads
          /\ UNCHANGED namingVars
          /\ call' = [call EXCEPT ![c].stage = "finish", ![c].shown = lines[call[c].window]]
      BY <1>4 DEF CapturePane, tmuxVars, historyVars, At
    <2>2. call = [d \in Calls |-> call[d]] /\ CallShape(call[c])
      BY DEF TypeIInv, CallsOK, CallOK
    <2>3. /\ call'[c] = [call[c] EXCEPT !.stage = "finish", !.shown = lines[call[c].window]]
          /\ \A d \in Calls \ {c} : call'[d] = call[d]
      BY <2>1, <2>2
    <2>4. call'[c].verb \in Reads
      BY <2>1, <2>2, <2>3 DEF CallShape
    <2>5. ~Creating(c)' /\ ~Killed(c)' /\ ~Killing(c)'
      BY <2>4 DEF Creating, Killed, Killing, At, Reads
    <2> QED
      BY <2>1, <2>3, <2>5, QuietStepKeepsNames
  <1> QED
    BY <1>1, <1>2, <1>3, <1>4, CreateWindowKeepsNames, LoseWindowKeepsNames,
       KillWindowKeepsNames, ReleaseKeepsNames DEF VerbStep

LEMMA VerbCalledKeepsNames ==
    ASSUME TypeIInv, NamesHeld, ~attached, NEW c \in Calls, VerbCalled(c)
    PROVE  NamesHeld'
  <1>1. ASSUME NEW id, NEW verb \in Reads \cup {"destroy"}, CallOn(c, verb, id)
        PROVE  NamesHeld'
    <2>1. id \in Registered /\ Start(c, verb, id, registry[id])
      BY <1>1 DEF CallOn
    <2>2. /\ call'[c].verb = verb /\ call'[c].stage \in {"resolve", "run"}
          /\ call'[c].id = id /\ call'[c].window = registry[id]
          /\ \A d \in Calls \ {c} : call'[d] = call[d]
      BY <2>1, CallUpdates
    <2>3. ~Creating(c)' /\ ~Killed(c)'
      BY <2>2 DEF Creating, Killed, At, Reads
    <2>4. registry' = registry /\ alive' = alive /\ UNCHANGED namingVars
      BY <1>1, <2>1 DEF CallOn, Start, tmuxVars, namingVars
    <2> QED
      BY <2>1, <2>2, <2>3, <2>4, QuietStepKeepsNames
  <1> QED
    BY <1>1, CallCreateKeepsNames DEF VerbCalled, CallDestroy, CallRead

LEMMA NamesInit == McpInit => NamesOK
  <1> SUFFICES ASSUME McpInit PROVE NamesHeld
    BY DEF NamesOK
  <1>1. \A c \in Calls : ~Creating(c) /\ ~Killed(c) /\ ~Killing(c)
    BY DEF McpInit, Idle, Creating, Killed, Killing, At
  <1>2. alive = {} /\ Registered = {}
    BY DEF McpInit, Registered
  <1> QED
    BY <1>1, <1>2 DEF NamesHeld, Reachable, NamedSo, CreatesApart, DestroysApart

LEMMA NamesStep == TypeIInv /\ NamesOK /\ [McpNext]_mcpVars => NamesOK'
  <1> SUFFICES ASSUME TypeIInv, NamesOK, [McpNext]_mcpVars, ~attached'
               PROVE  NamesHeld'
    BY DEF NamesOK
  <1>1. attached' = attached
    <2>1. ASSUME NEW c \in Calls, VerbCalled(c) PROVE attached' = attached
      BY <2>1 DEF VerbCalled, CallCreate, CallDestroy, CallRead, CallOn, Start
    <2>2. ASSUME NEW c \in Calls, VerbStep(c) PROVE attached' = attached
      BY <2>2 DEF VerbStep, Resolve, Throws, CountRows, CreateWindow, LoseWindow, KillWindow,
                  Release, Clear, CapturePane, FinishRead
    <2>3. ASSUME NEW w \in Windows, Prints(w) \/ ShellExits(w) PROVE attached' = attached
      BY <2>3 DEF Prints, ShellExits
    <2>4. ASSUME NEW id \in Ids, OthersCall(id) PROVE attached' = attached
      BY <2>4 DEF OthersCall
    <2> QED
      BY <2>1, <2>2, <2>3, <2>4 DEF McpNext, mcpVars
  <1>2. ~attached /\ NamesHeld
    BY <1>1 DEF NamesOK
  <1>3. ASSUME NEW c \in Calls, VerbCalled(c) \/ VerbStep(c) PROVE NamesHeld'
    BY <1>2, <1>3, VerbCalledKeepsNames, VerbStepKeepsNames
  <1>4. ASSUME registry' = registry, alive' \subseteq alive, call' = call, UNCHANGED namingVars
        PROVE  NamesHeld'
    <2>1. /\ Registered' = Registered /\ overlapped' = overlapped /\ slug' = slug
          /\ unbound' = unbound
      BY <1>4 DEF Registered, namingVars
    <2>2. \A c \in Calls : /\ Creating(c)' <=> Creating(c)
                           /\ Killing(c)' => Killing(c)
                           /\ Killed(c)' <=> Killed(c)
      BY <1>4 DEF Creating, Killing, Killed, At
    <2>3. Reachable' /\ NamedSo'
      BY <1>2, <1>4, <2>1 DEF NamesHeld, Reachable, NamedSo
    <2>4. CreatesApart'
      BY <1>2, <1>4, <2>1, <2>2 DEF NamesHeld, CreatesApart, Sole
    <2>5. DestroysApart'
      BY <1>2, <1>4, <2>1, <2>2 DEF NamesHeld, DestroysApart, Sole
    <2> QED
      BY <2>3, <2>4, <2>5 DEF NamesHeld
  <1>5. ASSUME NEW w \in Windows, Prints(w) \/ ShellExits(w) PROVE NamesHeld'
    BY <1>4, <1>5 DEF Prints, ShellExits, historyVars
  <1>6. ASSUME NEW id \in Ids PROVE ~OthersCall(id)
    BY <1>2 DEF OthersCall
  <1>7. CASE UNCHANGED mcpVars
    BY <1>4, <1>7 DEF mcpVars, tmuxVars, historyVars
  <1> QED
    BY <1>3, <1>5, <1>6, <1>7 DEF McpNext

----------------------------------------------------------------------------
(* The theorems *)

LEMMA CursorsInit == McpInit => CursorsOK
  BY DEF McpInit, CursorsOK, NoLineSkipped, FreeNamesUnread, Registered

LEMMA McpInvariant == McpSpec => []McpIInv
  <1>1. McpInit => McpIInv
    BY TypeInit, CursorsInit, NamesInit DEF McpIInv
  <1>2. McpIInv /\ [McpNext]_mcpVars => McpIInv'
    BY TypeStep, CursorsStep, NamesStep DEF McpIInv
  <1> QED
    BY <1>1, <1>2, PTL DEF McpSpec

(* The types hold: a cursor is an index of the lines a capture may keep, and what *)
(* the agent was given are lines a window did print (read-cursor.ts).             *)
THEOREM McpTypes == McpSpec => []McpTypeOK
  <1>1. McpIInv => McpTypeOK
    BY TypeSplits DEF McpIInv
  <1> QED
    BY <1>1, McpInvariant, PTL

(* What the cursor of a terminal has passed the agent was given, so that no delta *)
(* skips a line, in whatever order reads, snapshots, destroys and creates finish  *)
(* (term-read.tool.ts, term-destroy.tool.ts:22).                                  *)
THEOREM DeltasSkipNothing == McpSpec => []NoLineSkipped
  <1>1. McpIInv => NoLineSkipped
    BY DEF McpIInv, CursorsOK
  <1> QED
    BY <1>1, McpInvariant, PTL

(* With the local map every window that is open has a terminal, whatever creates,  *)
(* destroys, exits and failures overlap, with the two exceptions of the code: a    *)
(* window whose create threw after opening it, and the windows of a slug of which  *)
(* two creates overlapped; those of the other slugs keep their terminals           *)
(* (registry-resolver.ts:84-97).                                                   *)
THEOREM WindowsReachable == McpSpec => []NoOrphanTerminal
  <1>1. McpIInv => NoOrphanTerminal
    BY DEF McpIInv, NamesOK, NamesHeld, Reachable, NoOrphanTerminal
  <1> QED
    BY <1>1, McpInvariant, PTL
=============================================================================
