-------------------------- MODULE PaneVerbsProofs --------------------------
(***************************************************************************)
(* Proofs about PaneVerbs, for any number of verbs, processes and events.  *)
(*                                                                         *)
(* Safety of what a verb does: a signal reaches only what the terminal's   *)
(* shell started (PaneIInv).                                               *)
(*                                                                         *)
(* Completeness of what it saw: a walk finds every process that was in the *)
(* shell's tree throughout, and a wait does not pass over a match that     *)
(* stood throughout (PastIInv, which speaks of the histories a verb keeps  *)
(* since it began).  A tree is read off its chains, so that the first      *)
(* needs no induction on its depth.                                        *)
(***************************************************************************)
EXTENDS PaneVerbs, WellFoundedInduction, TLAPS

(* Children of the shell's processes are the shell's, and the window has not    *)
(* outlived its shell.                                                          *)
Lineage ==
    /\ Shell \in used
    /\ open => Shell \in Live /\ proc[Shell].kin
    /\ \A q \in Live : proc[q].parent \in Live /\ proc[proc[q].parent].kin => proc[q].kin

(* A walk begins with nothing found, and what it finds is the shell's as long   *)
(* as no pid was given again.                                                   *)
Traced(this, again) ==
  /\ this.stage = "pane-pid" => this.visited = {} /\ this.found = {}
  /\ ~again /\ this.stage \in {"children", "walk", "kill"} =>
        /\ \A p \in {Shell} \cup this.visited \cup this.found :
              p \in used /\ (p \in Live => proc[p].kin)
        /\ this.stage = "kill" => this.target \in WalkedTree(this)

PaneIInv ==
    /\ PaneTypeOK
    /\ Lineage
    /\ \A c \in Calls : Traced(call[c], past[c].recycled)

PastType == [steady : SUBSET Pids, recycled : BOOLEAN, absent : BOOLEAN]
Process == [parent : Live \cup {InitPid}, kin : BOOLEAN]
Stages == {"idle", "check", "sleep"} \cup Awaits \cup Settled

------------------------------------------------------------------------------
LEMMA PaneInitInv == PaneInit => PaneIInv
<1> SUFFICES ASSUME PaneInit PROVE PaneIInv
  OBVIOUS
<1> USE PaneAssumption
<1>1. /\ Live = {Shell} /\ used = {Shell} /\ open = TRUE
      /\ proc[Shell] = [parent |-> InitPid, kin |-> TRUE]
  BY DEF PaneInit, Live
<1>2. call \in [Calls -> CallRecords] /\ \A c \in Calls : WalkOK(call[c])
  BY DEF PaneInit, Idle, CallRecords, WalkOK, WalkedTree
<1>3. past \in [Calls -> PastType]
  BY DEF PaneInit, PastType
<1>4. proc \in [Live -> Process]
  BY <1>1 DEF PaneInit, Process
<1>5. PaneTypeOK
  <2>1. Live \subseteq used /\ used \subseteq Pids /\ recycled \in 0..MaxRecycled
    BY <1>1 DEF PaneInit
  <2>2. open \in BOOLEAN /\ screen \in BOOLEAN /\ prompt \subseteq Calls
    BY DEF PaneInit
  <2> QED BY <2>1, <2>2, <1>2, <1>3, <1>4 DEF PaneTypeOK, PastType, Process
<1>6. Lineage
  BY <1>1 DEF Lineage
<1>7. \A c \in Calls : Traced(call[c], past[c].recycled)
  BY DEF PaneInit, Idle, Traced
<1> QED BY <1>5, <1>6, <1>7 DEF PaneIInv

(* A step that changes one call, and neither the process table nor histories.   *)
LEMMA CallStep ==
    ASSUME PaneIInv, NEW c \in Calls, NEW new \in CallRecords,
           call' = [call EXCEPT ![c] = new],
           WalkOK(new), Traced(new, past[c].recycled),
           UNCHANGED <<tableVars, past>>, screen' \in BOOLEAN, prompt' \subseteq Calls
    PROVE  PaneIInv'
<1>1. /\ proc' = proc /\ used' = used /\ recycled' = recycled /\ open' = open
      /\ past' = past
  BY DEF tableVars
<1>2. Live' = Live
  BY <1>1 DEF Live
<1>3. \A d \in Calls : call'[d] = IF d = c THEN new ELSE call[d]
  BY DEF PaneIInv, PaneTypeOK
<1>4. call' \in [Calls -> CallRecords] /\ \A d \in Calls : WalkOK(call'[d])
  BY <1>3 DEF PaneIInv, PaneTypeOK
<1>5. PaneTypeOK'
  BY <1>1, <1>2, <1>4 DEF PaneIInv, PaneTypeOK, CallRecords, WalkOK, WalkedTree, Awaits, Settled
<1>6. Lineage'
  BY <1>1, <1>2 DEF PaneIInv, Lineage
<1>7. \A d \in Calls : Traced(call[d], past[d].recycled)'
  <2> TAKE d \in Calls
  <2>1. Traced(call'[d], past[d].recycled)
    BY <1>3 DEF PaneIInv
  <2> QED BY <2>1, <1>1, <1>2 DEF Traced, WalkedTree
<1> QED BY <1>5, <1>6, <1>7 DEF PaneIInv

(* Every goto but those that begin a walk or a kill.                            *)
LEMMA GotoStep ==
    ASSUME PaneIInv, NEW c \in Calls, NEW stage \in Stages, Goto(c, stage),
           stage \notin {"pane-pid", "children", "walk", "kill"},
           UNCHANGED <<tableVars, past>>, screen' \in BOOLEAN, prompt' \subseteq Calls
    PROVE  PaneIInv'
<1> DEFINE new == [call[c] EXCEPT !.stage = stage]
<1>1. call[c] \in CallRecords /\ WalkOK(call[c])
  BY DEF PaneIInv, PaneTypeOK
<1>2. new \in CallRecords
  BY <1>1 DEF CallRecords, Stages
<1>3. new.stage = stage /\ new.asked = call[c].asked /\ new.visited = call[c].visited
  BY <1>1 DEF CallRecords
<1>4. WalkOK(new)
  BY <1>1, <1>3 DEF WalkOK, WalkedTree
<1>5. Traced(new, past[c].recycled)
  BY <1>3 DEF Traced
<1>6. call' = [call EXCEPT ![c] = new]
  BY DEF Goto
<1> HIDE DEF new
<1> QED BY <1>2, <1>4, <1>5, <1>6, CallStep

------------------------------------------------------------------------------
(* The machine                                                                  *)

(* A process that starts has a pid that was never given, or gives every call    *)
(* its excuse; none that is live was its child before.                          *)
LEMMA ProcessStartsInv ==
    ASSUME PaneIInv, NEW parent \in Pids \cup {InitPid}, NEW p \in Pids,
           ProcessStarts(parent, p)
    PROVE  PaneIInv'
<1> USE PaneAssumption
<1> DEFINE kin == parent \in Live /\ proc[parent].kin
           born == [parent |-> parent, kin |-> kin]
<1>1. /\ parent \in Live \cup {InitPid} /\ p \notin Live
      /\ used' = used \cup {p} /\ open' = open /\ screen' = screen /\ prompt' = prompt
      /\ call' = call
  BY DEF ProcessStarts
<1>2. Live' = Live \cup {p} /\ \A q \in Live' : proc'[q] = IF q = p THEN born ELSE proc[q]
  BY <1>1 DEF ProcessStarts, Live
<1>3. proc \in [Live -> Process] /\ born \in [parent : Live \cup {InitPid}, kin : BOOLEAN]
  <2>1. proc \in [Live -> Process]
    BY DEF PaneIInv, PaneTypeOK, Process
  <2>2. kin \in BOOLEAN
    BY <2>1 DEF Process
  <2> QED BY <1>1, <2>1, <2>2
<1>4. \A q \in Live : proc[q].parent \in Live \cup {InitPid} /\ proc[q].kin \in BOOLEAN
  BY <1>3 DEF Process
<1>5. \A c \in Calls : past'[c] = [past[c] EXCEPT !.recycled = @ \/ p \in used]
  BY DEF ProcessStarts
<1>6. \A c \in Calls : past[c] \in PastType
  BY DEF PaneIInv, PaneTypeOK, PastType
<1>7. \A c \in Calls : /\ past'[c] \in PastType
                      /\ past'[c].recycled = (past[c].recycled \/ p \in used)
  BY <1>5, <1>6 DEF PastType
<1>8. PaneTypeOK'
  <2>1. Live' \subseteq used' /\ used' \subseteq Pids
    BY <1>1, <1>2 DEF PaneIInv, PaneTypeOK
  <2>2. recycled' \in 0..MaxRecycled
    BY DEF PaneIInv, PaneTypeOK, ProcessStarts
  <2>3. proc' \in [Live' -> [parent : Live' \cup {InitPid}, kin : BOOLEAN]]
    <3>1. proc' = [q \in Live' |-> proc'[q]]
      BY DEF ProcessStarts, Live
    <3>2. \A q \in Live' : proc'[q] \in [parent : Live' \cup {InitPid}, kin : BOOLEAN]
      BY <1>2, <1>3 DEF Process
    <3> QED BY <3>1, <3>2
  <2>4. past' \in [Calls -> PastType]
    BY <1>7 DEF ProcessStarts
  <2>5. call' \in [Calls -> CallRecords] /\ \A c \in Calls : WalkOK(call[c])'
    BY <1>1 DEF PaneIInv, PaneTypeOK, WalkOK, WalkedTree
  <2>6. open' \in BOOLEAN /\ screen' \in BOOLEAN /\ prompt' \subseteq Calls
    BY <1>1 DEF PaneIInv, PaneTypeOK
  <2>7. CallRecords' = CallRecords
    BY DEF CallRecords, Awaits, Settled
  <2> QED BY <2>1, <2>2, <2>3, <2>4, <2>5, <2>6, <2>7 DEF PaneTypeOK, PastType
<1>9. Lineage'
  <2>1. Shell \in used' /\ (open' => Shell \in Live' /\ proc'[Shell].kin)
    BY <1>1, <1>2 DEF PaneIInv, Lineage
  <2>2. ASSUME NEW q \in Live', proc'[q].parent \in Live', proc'[proc'[q].parent].kin
        PROVE  proc'[q].kin
    <3>1. CASE q = p
      <4>1. proc'[q].parent = parent /\ proc'[q].kin = kin
        BY <3>1, <1>2
      <4>2. parent # InitPid
        BY <4>1, <2>2, <1>2, <1>1 DEF PaneIInv, PaneTypeOK
      <4>3. parent \in Live /\ parent # p
        BY <4>2, <1>1
      <4>4. proc'[parent] = proc[parent]
        BY <4>3, <1>2
      <4> QED BY <4>1, <4>3, <4>4, <2>2
    <3>2. CASE q # p
      <4>1. q \in Live /\ proc'[q] = proc[q]
        BY <3>2, <1>2
      <4>2. proc[q].parent \in Live
        <5>1. proc[q].parent # InitPid
          BY <4>1, <2>2, <1>2 DEF PaneIInv, PaneTypeOK
        <5> QED BY <5>1, <4>1, <1>4
      <4>3. proc'[proc[q].parent] = proc[proc[q].parent]
        BY <4>2, <1>1, <1>2
      <4> QED BY <4>1, <4>2, <4>3, <2>2 DEF PaneIInv, Lineage
    <3> QED BY <3>1, <3>2
  <2> QED BY <2>1, <2>2 DEF Lineage
<1>10. ASSUME NEW c \in Calls PROVE Traced(call[c], past[c].recycled)'
  <2>0. Traced(call[c], past[c].recycled)
    BY DEF PaneIInv
  <2>1. CASE p \in used
    BY <2>0, <2>1, <1>1, <1>7 DEF Traced
  <2>2. CASE p \notin used
    <3>1. past'[c].recycled = past[c].recycled
      BY <2>2, <1>6, <1>7 DEF PastType
    <3> QED BY <2>0, <3>1, <2>2, <1>1, <1>2 DEF Traced, WalkedTree
  <2> QED BY <2>1, <2>2
<1> QED BY <1>8, <1>9, <1>10 DEF PaneIInv

(* The orphans of a process that ends have InitPid for a parent.                *)
LEMMA ProcessEndsInv ==
    ASSUME PaneIInv, NEW p \in Pids, ProcessEnds(p)
    PROVE  PaneIInv'
<1> USE PaneAssumption
<1>1. /\ p \in Live /\ used' = used /\ recycled' = recycled /\ open' = (open /\ p # Shell)
      /\ screen' = screen /\ prompt' = prompt /\ call' = call
  BY DEF ProcessEnds
<1>2. Live' = Live \ {p}
  BY DEF ProcessEnds, Live
<1>3. \A q \in Live : proc[q] \in Process
  BY DEF PaneIInv, PaneTypeOK, Process
<1>4. \A q \in Live' : proc'[q] = [proc[q] EXCEPT !.parent = IF @ = p THEN InitPid ELSE @]
  BY <1>2 DEF ProcessEnds
<1>5. \A q \in Live' : /\ q \in Live /\ proc'[q].kin = proc[q].kin
                       /\ proc'[q].parent = IF proc[q].parent = p THEN InitPid ELSE proc[q].parent
                       /\ proc'[q] \in [parent : Live' \cup {InitPid}, kin : BOOLEAN]
  <2> TAKE q \in Live'
  <2>1. q \in Live /\ proc[q] \in [parent : Live \cup {InitPid}, kin : BOOLEAN]
    BY <1>2, <1>3 DEF Process
  <2>2. proc'[q] = [proc[q] EXCEPT !.parent = IF @ = p THEN InitPid ELSE @]
    BY <1>4
  <2>3. [proc[q] EXCEPT !.parent = IF @ = p THEN InitPid ELSE @]
            = [parent |-> IF proc[q].parent = p THEN InitPid ELSE proc[q].parent,
               kin |-> proc[q].kin]
    <3>1. proc[q] = [parent |-> proc[q].parent, kin |-> proc[q].kin]
      BY <2>1
    <3> QED BY <3>1
  <2> QED BY <2>1, <2>2, <2>3, <1>2
<1>6. \A c \in Calls : past[c] \in PastType
  BY DEF PaneIInv, PaneTypeOK, PastType
<1>7. \A c \in Calls : past'[c] = [past[c] EXCEPT !.steady = @ \cap Tree']
  BY DEF ProcessEnds
<1>8. \A c \in Calls : past'[c] \in PastType /\ past'[c].recycled = past[c].recycled
  <2> TAKE c \in Calls
  <2> DEFINE kept == past[c].steady \cap Tree'
  <2>1. past'[c] = [past[c] EXCEPT !.steady = @ \cap Tree']
    BY <1>7
  <2>2. past'[c] = [past[c] EXCEPT !.steady = kept]
    BY <2>1
  <2>3. kept \subseteq past[c].steady
    OBVIOUS
  <2> HIDE DEF kept
  <2> QED BY <1>6, <2>2, <2>3 DEF PastType
<1>9. PaneTypeOK'
  <2>1. Live' \subseteq used' /\ used' \subseteq Pids /\ recycled' \in 0..MaxRecycled
    BY <1>1, <1>2 DEF PaneIInv, PaneTypeOK
  <2>2. proc' \in [Live' -> [parent : Live' \cup {InitPid}, kin : BOOLEAN]]
    <3>1. proc' = [q \in Live' |-> proc'[q]]
      BY DEF ProcessEnds, Live
    <3> QED BY <3>1, <1>5
  <2>3. past' \in [Calls -> PastType]
    BY <1>8 DEF ProcessEnds
  <2>4. call' \in [Calls -> CallRecords] /\ \A c \in Calls : WalkOK(call[c])'
    BY <1>1 DEF PaneIInv, PaneTypeOK, WalkOK, WalkedTree
  <2>5. open' \in BOOLEAN /\ screen' \in BOOLEAN /\ prompt' \subseteq Calls
    BY <1>1 DEF PaneIInv, PaneTypeOK
  <2>6. CallRecords' = CallRecords
    BY DEF CallRecords, Awaits, Settled
  <2> QED BY <2>1, <2>2, <2>3, <2>4, <2>5, <2>6 DEF PaneTypeOK, PastType
<1>10. Lineage'
  <2>1. Shell \in used' /\ (open' => Shell \in Live' /\ proc'[Shell].kin)
    BY <1>1, <1>2, <1>5 DEF PaneIInv, Lineage
  <2>2. ASSUME NEW q \in Live', proc'[q].parent \in Live', proc'[proc'[q].parent].kin
        PROVE  proc'[q].kin
    <3>1. proc'[q].parent # InitPid
      BY <2>2, <1>2 DEF PaneIInv, PaneTypeOK
    <3>2. proc'[q].parent = proc[q].parent /\ proc[q].parent \in Live'
      BY <2>2, <3>1, <1>5
    <3> QED BY <2>2, <3>2, <1>2, <1>5 DEF PaneIInv, Lineage
  <2> QED BY <2>1, <2>2 DEF Lineage
<1>11. ASSUME NEW c \in Calls PROVE Traced(call[c], past[c].recycled)'
  <2>1. Traced(call[c], past[c].recycled) /\ past'[c].recycled = past[c].recycled
    BY <1>8 DEF PaneIInv
  <2> QED BY <2>1, <1>1, <1>2, <1>5 DEF Traced, WalkedTree
<1> QED BY <1>9, <1>10, <1>11 DEF PaneIInv

LEMMA ScreenChangesInv ==
    ASSUME PaneIInv, ScreenChanges
    PROVE  PaneIInv'
<1>1. /\ proc' = proc /\ used' = used /\ recycled' = recycled /\ open' = open
      /\ prompt' = prompt /\ call' = call /\ screen' \in BOOLEAN
  BY DEF ScreenChanges, tableVars, PaneIInv, PaneTypeOK
<1>2. Live' = Live
  BY <1>1 DEF Live
<1>3. \A c \in Calls : past[c] \in PastType
  BY DEF PaneIInv, PaneTypeOK, PastType
<1>4. \A c \in Calls : past'[c] = [past[c] EXCEPT !.absent = @ \/ ~screen']
  BY DEF ScreenChanges
<1>5. \A c \in Calls : past'[c] \in PastType /\ past'[c].recycled = past[c].recycled
  BY <1>1, <1>3, <1>4 DEF PastType
<1>6. past' \in [Calls -> PastType]
  BY <1>5 DEF ScreenChanges
<1>7. PaneTypeOK'
  BY <1>1, <1>2, <1>6
     DEF PaneIInv, PaneTypeOK, PastType, CallRecords, WalkOK, WalkedTree, Awaits, Settled
<1>8. Lineage'
  BY <1>1, <1>2 DEF PaneIInv, Lineage
<1>9. \A c \in Calls : Traced(call[c], past[c].recycled)'
  <2> TAKE c \in Calls
  <2>1. Traced(call[c], past[c].recycled)
    BY DEF PaneIInv
  <2> QED BY <2>1, <1>1, <1>2, <1>5 DEF Traced, WalkedTree
<1> QED BY <1>7, <1>8, <1>9 DEF PaneIInv

------------------------------------------------------------------------------
(* The calls                                                                    *)

LEMMA TreeLive == Tree \subseteq Live
BY DEF Tree

(* A verb begins with an empty walk.                                            *)
LEMMA BeginInv ==
    ASSUME PaneIInv, NEW c \in Calls,
           NEW verb \in {"send", "type", "key", "signal", "ps", "wait"},
           NEW stage \in {"text", "key", "pane-pid", "capture"},
           NEW target \in Pids \cup {InitPid}, Begin(c, verb, stage, target)
    PROVE  PaneIInv'
<1> USE PaneAssumption
<1> DEFINE new == [Idle EXCEPT !.verb = verb, !.stage = stage, !.target = target]
           now == [steady |-> Tree, recycled |-> FALSE, absent |-> ~screen]
<1>1. /\ proc' = proc /\ used' = used /\ recycled' = recycled /\ open' = open
      /\ screen' = screen /\ prompt' = prompt
  BY DEF Begin, tableVars
<1>2. Live' = Live
  BY <1>1 DEF Live
<1>3. /\ call \in [Calls -> CallRecords] /\ past \in [Calls -> PastType]
      /\ \A d \in Calls : WalkOK(call[d]) /\ Traced(call[d], past[d].recycled)
  BY DEF PaneIInv, PaneTypeOK, PastType
<1>4. new \in CallRecords /\ WalkOK(new) /\ \A again : Traced(new, again)
  <2>1. /\ Idle \in CallRecords
        /\ Idle.asked = {} /\ Idle.visited = {} /\ Idle.found = {} /\ Idle.depth = 0
    BY DEF Idle, CallRecords
  <2>2. /\ verb \in {"none", "send", "type", "key", "signal", "ps", "wait"}
        /\ stage \in Stages
    BY DEF Stages, Awaits
  <2>3. /\ new \in CallRecords /\ new.stage = stage
        /\ new.asked = {} /\ new.visited = {} /\ new.found = {} /\ new.depth = 0
    BY <2>1, <2>2 DEF CallRecords, Stages
  <2> HIDE DEF new
  <2> QED BY <2>3 DEF WalkOK, Traced
<1>5. now \in PastType
  BY TreeLive DEF PaneIInv, PaneTypeOK, PastType
<1> HIDE DEF new, now
<1>6. call' = [call EXCEPT ![c] = new] /\ past' = [past EXCEPT ![c] = now]
  BY DEF Begin, new, now
<1>7. call' \in [Calls -> CallRecords] /\ past' \in [Calls -> PastType]
  BY <1>3, <1>4, <1>5, <1>6
<1>8. \A d \in Calls : WalkOK(call'[d]) /\ Traced(call'[d], past'[d].recycled)
  BY <1>3, <1>4, <1>6
<1>9. PaneTypeOK'
  BY <1>1, <1>2, <1>7, <1>8
     DEF PaneIInv, PaneTypeOK, PastType, CallRecords, WalkOK, WalkedTree, Awaits, Settled
<1>10. Lineage'
  BY <1>1, <1>2 DEF PaneIInv, Lineage
<1>11. \A d \in Calls : Traced(call[d], past[d].recycled)'
  BY <1>1, <1>2, <1>8 DEF Traced, WalkedTree
<1> QED BY <1>9, <1>10, <1>11 DEF PaneIInv

(* The shell of an open window is its own.                                      *)
LEMMA PanePidInv ==
    ASSUME PaneIInv, NEW c \in Calls, PanePid(c)
    PROVE  PaneIInv'
<1> USE PaneAssumption
<1> DEFINE stage == IF call[c].verb = "ps" THEN "children" ELSE "walk"
           new == [call[c] EXCEPT !.stage = stage, !.asked = {Shell}]
<1>1. /\ call[c] \in CallRecords /\ WalkOK(call[c]) /\ call[c].stage = "pane-pid"
      /\ Traced(call[c], past[c].recycled)
  BY DEF PaneIInv, PaneTypeOK, PanePid, At
<1>2. /\ new \in CallRecords /\ new.stage = stage /\ new.asked = {Shell}
      /\ new.visited = call[c].visited /\ new.found = call[c].found
      /\ new.depth = call[c].depth
  BY <1>1 DEF CallRecords, Awaits
<1>3. WalkOK(new)
  BY <1>1, <1>2 DEF WalkOK, WalkedTree
<1>4. Shell \in used /\ proc[Shell].kin
  BY DEF PaneIInv, Lineage, PanePid
<1>5. Traced(new, past[c].recycled)
  BY <1>1, <1>2, <1>4 DEF Traced
<1>6. call' = [call EXCEPT ![c] = new]
  BY DEF PanePid
<1>7. screen' \in BOOLEAN /\ prompt' \subseteq Calls /\ UNCHANGED <<tableVars, past>>
  BY DEF PanePid, PaneIInv, PaneTypeOK
<1> HIDE DEF new
<1> QED BY <1>2, <1>3, <1>5, <1>6, <1>7, CallStep

LEMMA ForegroundPidInv ==
    ASSUME PaneIInv, NEW c \in Calls, ForegroundPid(c)
    PROVE  PaneIInv'
<1> DEFINE new == [call[c] EXCEPT !.stage = "walk"]
<1>1. /\ call[c] \in CallRecords /\ WalkOK(call[c]) /\ call[c].stage = "children"
      /\ Traced(call[c], past[c].recycled)
  BY DEF PaneIInv, PaneTypeOK, ForegroundPid, At
<1>2. /\ new \in CallRecords /\ new.stage = "walk" /\ new.asked = call[c].asked
      /\ new.visited = call[c].visited /\ new.found = call[c].found
      /\ new.depth = call[c].depth
  BY <1>1 DEF CallRecords, Awaits
<1>3. WalkOK(new)
  BY <1>1, <1>2 DEF WalkOK, WalkedTree
<1>4. Traced(new, past[c].recycled)
  BY <1>1, <1>2 DEF Traced
<1>5. call' = [call EXCEPT ![c] = new]
  BY DEF ForegroundPid, Goto
<1>6. screen' \in BOOLEAN /\ prompt' \subseteq Calls /\ UNCHANGED <<tableVars, past>>
  BY DEF ForegroundPid, PaneIInv, PaneTypeOK
<1> HIDE DEF new
<1> QED BY <1>2, <1>3, <1>4, <1>5, <1>6, CallStep

------------------------------------------------------------------------------
(* The walk                                                                     *)

(* The children of a process the walk asks about are the shell's too.           *)
LEMMA AnswerTraced ==
    ASSUME PaneIInv, NEW c \in Calls, call[c].stage = "walk", NEW p \in call[c].asked
    PROVE  LET this == [call[c] EXCEPT !.asked = @ \ {p}, !.found = @ \cup Children(p)]
           IN /\ this \in CallRecords /\ this.stage = "walk" /\ this.depth < MaxDepth
              /\ this.asked \subseteq WalkedTree(this)
              /\ Traced(this, past[c].recycled)
<1> USE PaneAssumption
<1> DEFINE this == [call[c] EXCEPT !.asked = @ \ {p}, !.found = @ \cup Children(p)]
<1>1. /\ call[c] \in CallRecords /\ WalkOK(call[c]) /\ Traced(call[c], past[c].recycled)
      /\ Live \subseteq used /\ used \subseteq Pids
  BY DEF PaneIInv, PaneTypeOK
<1>2. Children(p) \subseteq Live
  BY DEF Children
<1>3. /\ this.stage = "walk" /\ this.asked = call[c].asked \ {p}
      /\ this.found = call[c].found \cup Children(p)
      /\ this.visited = call[c].visited /\ this.depth = call[c].depth
      /\ this \in CallRecords
  BY <1>1, <1>2 DEF CallRecords
<1>4. this.depth < MaxDepth /\ this.asked \subseteq WalkedTree(this)
  BY <1>1, <1>3 DEF WalkOK, WalkedTree
<1>5. ASSUME ~past[c].recycled, NEW q \in Children(p)
      PROVE  proc[q].kin
  <2>1. p \in {Shell} \cup call[c].visited
    BY <1>1 DEF WalkOK, WalkedTree
  <2>2. q \in Live /\ proc[q].parent = p
    BY DEF Children
  <2>3. p \in Live
    <3>1. p \in Pids
      BY <1>1 DEF CallRecords
    <3> QED BY <2>2, <3>1 DEF PaneIInv, PaneTypeOK
  <2>4. proc[p].kin
    BY <1>1, <1>5, <2>1, <2>3 DEF Traced
  <2> QED BY <2>2, <2>3, <2>4 DEF PaneIInv, Lineage
<1> HIDE DEF this
<1>6. Traced(this, past[c].recycled)
  BY <1>1, <1>2, <1>3, <1>5 DEF Traced
<1> QED BY <1>3, <1>4, <1>6 DEF this

(* What a level found is walked, and looked up when the walk is over.           *)
LEMMA LevelTraced ==
    ASSUME NEW this \in CallRecords, this.stage = "walk", this.depth < MaxDepth,
           NEW again, Traced(this, again)
    PROVE  NextLevel(this) \in CallRecords /\ WalkOK(NextLevel(this))
           /\ Traced(NextLevel(this), again)
<1> USE PaneAssumption
<1> DEFINE next == NextFrontier(this)
           walked == [this EXCEPT !.visited = @ \cup next, !.found = {}, !.depth = @ + 1]
<1>1. next \subseteq this.found
  BY DEF NextFrontier
<1> HIDE DEF next
<1>2. /\ walked.visited = this.visited \cup next /\ walked.found = {}
      /\ walked.depth = this.depth + 1 /\ walked.stage = "walk" /\ walked.target = this.target
      /\ walked \in CallRecords
  <2>1. /\ this.visited \cup next \in SUBSET Pids /\ this.depth \in 0..MaxDepth
    BY <1>1 DEF CallRecords
  <2>2. this.depth + 1 \in 0..MaxDepth
    BY <2>1
  <2>3. walked = [this EXCEPT !.visited = this.visited \cup next, !.found = {},
                              !.depth = this.depth + 1]
    BY DEF CallRecords
  <2> HIDE DEF walked
  <2> QED BY <2>1, <2>2, <2>3 DEF CallRecords
<1>3. Traced(walked, again)
  BY <1>1, <1>2 DEF Traced
<1> HIDE DEF walked
<1>4. CASE GoesDeeper(walked, next)
  <2> DEFINE new == [walked EXCEPT !.asked = next]
  <2>1. /\ new.visited = walked.visited /\ new.found = {} /\ new.depth = walked.depth
        /\ new.stage = "walk" /\ new.asked = next /\ new \in CallRecords
    BY <1>1, <1>2 DEF CallRecords
  <2>2. NextLevel(this) = new
    BY <1>4 DEF NextLevel, walked, next
  <2> HIDE DEF new
  <2>3. WalkOK(new)
    BY <1>2, <1>4, <2>1 DEF WalkOK, WalkedTree, GoesDeeper
  <2>4. Traced(new, again)
    BY <1>3, <1>2, <2>1 DEF Traced
  <2> QED BY <2>1, <2>2, <2>3, <2>4
<1>5. CASE ~GoesDeeper(walked, next)
  <2> DEFINE stage == AfterWalk(walked)
             new == [walked EXCEPT !.asked = {}, !.stage = stage]
  <2>1. /\ stage \in {"rows", "kill", "refused"}
        /\ stage = "kill" => walked.target \in WalkedTree(walked)
    BY DEF AfterWalk
  <2> HIDE DEF stage
  <2>2. /\ new.visited = walked.visited /\ new.found = {} /\ new.depth = walked.depth
        /\ new.stage = stage /\ new.asked = {} /\ new.target = walked.target
        /\ new \in CallRecords
    BY <1>2, <2>1 DEF CallRecords, Awaits, Settled
  <2>3. NextLevel(this) = new
    BY <1>5 DEF NextLevel, walked, next, stage
  <2> HIDE DEF new
  <2>4. WalkOK(new)
    BY <2>1, <2>2 DEF WalkOK
  <2>5. Traced(new, again)
    BY <1>3, <1>2, <2>1, <2>2 DEF Traced, WalkedTree
  <2> QED BY <2>2, <2>3, <2>4, <2>5
<1> QED BY <1>4, <1>5

LEMMA PgrepAnswersInv ==
    ASSUME PaneIInv, NEW c \in Calls, NEW p \in Pids, PgrepAnswers(c, p)
    PROVE  PaneIInv'
<1> DEFINE this == [call[c] EXCEPT !.asked = @ \ {p}, !.found = @ \cup Children(p)]
           new == IF this.asked = {} THEN NextLevel(this) ELSE this
<1>1. call[c].stage = "walk" /\ p \in call[c].asked
  BY DEF PgrepAnswers, At
<1>2. call' = [call EXCEPT ![c] = new]
  BY DEF PgrepAnswers
<1>3. /\ this \in CallRecords /\ this.stage = "walk" /\ this.depth < MaxDepth
      /\ this.asked \subseteq WalkedTree(this) /\ Traced(this, past[c].recycled)
  BY <1>1, AnswerTraced
<1> HIDE DEF this
<1>4. new \in CallRecords /\ WalkOK(new) /\ Traced(new, past[c].recycled)
  <2>1. CASE this.asked = {}
    BY <1>3, <2>1, LevelTraced
  <2>2. CASE this.asked # {}
    BY <1>3, <2>2 DEF WalkOK
  <2> QED BY <2>1, <2>2
<1>5. screen' \in BOOLEAN /\ prompt' \subseteq Calls /\ UNCHANGED <<tableVars, past>>
  BY DEF PgrepAnswers, PaneIInv, PaneTypeOK
<1> HIDE DEF new
<1> QED BY <1>2, <1>4, <1>5, CallStep

LEMMA PsRowsInv ==
    ASSUME PaneIInv, NEW c \in Calls, PsRows(c)
    PROVE  PaneIInv'
<1> DEFINE rows == WalkedTree(call[c]) \cap Live
           new == [call[c] EXCEPT !.stage = "done", !.found = rows]
<1>1. call[c] \in CallRecords /\ WalkOK(call[c]) /\ rows \subseteq Pids
  BY DEF PaneIInv, PaneTypeOK
<1> HIDE DEF rows
<1>2. /\ new \in CallRecords /\ new.stage = "done" /\ new.asked = call[c].asked
      /\ new.visited = call[c].visited
  BY <1>1 DEF CallRecords, Settled
<1>3. WalkOK(new) /\ Traced(new, past[c].recycled)
  BY <1>1, <1>2 DEF WalkOK, WalkedTree, Traced
<1>4. call' = [call EXCEPT ![c] = new]
  BY DEF PsRows, rows
<1>5. screen' \in BOOLEAN /\ prompt' \subseteq Calls /\ UNCHANGED <<tableVars, past>>
  BY DEF PsRows, PaneIInv, PaneTypeOK
<1> HIDE DEF new
<1> QED BY <1>2, <1>3, <1>4, <1>5, CallStep

------------------------------------------------------------------------------
(* The other steps: none begins a walk, and only the end of a walk leads to a   *)
(* kill.                                                                        *)
LEMMA ThrowsInv ==
    ASSUME PaneIInv, NEW c \in Calls, Throws(c)
    PROVE  PaneIInv'
<1>1. /\ Goto(c, "failed") /\ "failed" \in Stages
      /\ UNCHANGED <<tableVars, past>> /\ screen' \in BOOLEAN /\ prompt' \subseteq Calls
  BY DEF Throws, Stages, Settled, PaneIInv, PaneTypeOK
<1> QED BY <1>1, GotoStep

LEMMA SendTextInv ==
    ASSUME PaneIInv, NEW c \in Calls, SendText(c)
    PROVE  PaneIInv'
<1> DEFINE stage == IF call[c].verb = "send" THEN "enter" ELSE "done"
<1>1. /\ Goto(c, stage) /\ UNCHANGED <<tableVars, past>>
      /\ screen' \in BOOLEAN /\ prompt' \subseteq Calls
  BY DEF SendText, PaneIInv, PaneTypeOK
<1>2. stage \in Stages /\ stage \notin {"pane-pid", "children", "walk", "kill"}
  BY DEF Stages, Awaits, Settled
<1> HIDE DEF stage
<1> QED BY <1>1, <1>2, GotoStep

LEMMA SendKeysInv ==
    ASSUME PaneIInv, NEW c \in Calls, SendEnter(c) \/ SendSignalKey(c) \/ KillPid(c)
    PROVE  PaneIInv'
<1>1. /\ Goto(c, "done") /\ "done" \in Stages
      /\ UNCHANGED <<tableVars, past>> /\ screen' \in BOOLEAN /\ prompt' \subseteq Calls
  BY DEF SendEnter, SendSignalKey, KillPid, Stages, Settled, PaneIInv, PaneTypeOK
<1> QED BY <1>1, GotoStep

LEMMA WaitGotoInv ==
    ASSUME PaneIInv, NEW c \in Calls, CheckCapture(c) \/ Wakes(c)
    PROVE  PaneIInv'
<1>1. PICK stage \in {"done", "timeout", "sleep", "capture"} : Goto(c, stage)
  BY DEF CheckCapture, Wakes
<1>2. stage \in Stages /\ stage \notin {"pane-pid", "children", "walk", "kill"}
  BY DEF Stages, Awaits, Settled
<1>3. UNCHANGED <<tableVars, past>> /\ screen' \in BOOLEAN /\ prompt' \subseteq Calls
  BY DEF CheckCapture, Wakes, PaneIInv, PaneTypeOK
<1> QED BY <1>1, <1>2, <1>3, GotoStep

LEMMA CaptureVisibleInv ==
    ASSUME PaneIInv, NEW c \in Calls, CaptureVisible(c)
    PROVE  PaneIInv'
<1> DEFINE new == [call[c] EXCEPT !.stage = "check", !.matched = screen]
<1>1. call[c] \in CallRecords /\ WalkOK(call[c]) /\ screen \in BOOLEAN
  BY DEF PaneIInv, PaneTypeOK
<1>2. /\ new \in CallRecords /\ new.stage = "check" /\ new.asked = call[c].asked
      /\ new.visited = call[c].visited
  BY <1>1 DEF CallRecords
<1>3. WalkOK(new) /\ Traced(new, past[c].recycled)
  BY <1>1, <1>2 DEF WalkOK, WalkedTree, Traced
<1>4. call' = [call EXCEPT ![c] = new]
  BY DEF CaptureVisible
<1>5. screen' \in BOOLEAN /\ prompt' \subseteq Calls /\ UNCHANGED <<tableVars, past>>
  BY DEF CaptureVisible, PaneIInv, PaneTypeOK
<1> HIDE DEF new
<1> QED BY <1>2, <1>3, <1>4, <1>5, CallStep

LEMMA ElapsesInv ==
    ASSUME PaneIInv, NEW c \in Calls, Elapses(c)
    PROVE  PaneIInv'
<1> DEFINE new == [call[c] EXCEPT !.late = TRUE]
<1>1. /\ call[c] \in CallRecords /\ WalkOK(call[c])
      /\ call[c].stage \in {"capture", "check", "sleep"}
  BY DEF Elapses, PaneIInv, PaneTypeOK
<1>2. /\ new \in CallRecords /\ new.stage = call[c].stage /\ new.asked = call[c].asked
      /\ new.visited = call[c].visited
  BY <1>1 DEF CallRecords
<1>3. WalkOK(new) /\ Traced(new, past[c].recycled)
  BY <1>1, <1>2 DEF WalkOK, WalkedTree, Traced
<1>4. call' = [call EXCEPT ![c] = new]
  BY DEF Elapses
<1>5. screen' \in BOOLEAN /\ prompt' \subseteq Calls /\ UNCHANGED <<tableVars, past>>
  BY DEF Elapses, PaneIInv, PaneTypeOK
<1> HIDE DEF new
<1> QED BY <1>2, <1>3, <1>4, <1>5, CallStep

------------------------------------------------------------------------------
LEMMA PaneInvariant == PaneSpec => []PaneIInv
<1>1. PaneInit => PaneIInv
  BY PaneInitInv
<1>2. PaneIInv /\ [PaneNext]_paneVars => PaneIInv'
  <2> SUFFICES ASSUME PaneIInv, [PaneNext]_paneVars PROVE PaneIInv'
    OBVIOUS
  <2>1. ASSUME Machine PROVE PaneIInv'
    <3>1. ASSUME NEW parent \in Pids \cup {InitPid}, NEW p \in Pids, ProcessStarts(parent, p)
          PROVE  PaneIInv'
      BY <3>1, ProcessStartsInv
    <3>2. ASSUME NEW p \in Pids, ProcessEnds(p) PROVE PaneIInv'
      BY <3>2, ProcessEndsInv
    <3>3. ASSUME ScreenChanges PROVE PaneIInv'
      BY <3>3, ScreenChangesInv
    <3> QED BY <2>1, <3>1, <3>2, <3>3 DEF Machine
  <2>2. ASSUME NEW c \in Calls, Called(c) PROVE PaneIInv'
    <3>1. CASE CallSend(c)
      BY <3>1, BeginInv DEF CallSend
    <3>2. CASE CallSignal(c)
      <4>1. CASE Begin(c, "key", "key", InitPid)
        BY <4>1, BeginInv
      <4>2. ASSUME NEW p \in Pids, Begin(c, "signal", "pane-pid", p) PROVE PaneIInv'
        BY <4>2, BeginInv
      <4> QED BY <3>2, <4>1, <4>2 DEF CallSignal
    <3>3. CASE CallPs(c)
      BY <3>3, BeginInv DEF CallPs
    <3>4. CASE CallWaitFor(c)
      BY <3>4, BeginInv DEF CallWaitFor
    <3> QED BY <2>2, <3>1, <3>2, <3>3, <3>4 DEF Called
  <2>3. ASSUME NEW c \in Calls, Proceeds(c) PROVE PaneIInv'
    <3>1. ASSUME NEW p \in Pids, PgrepAnswers(c, p) PROVE PaneIInv'
      BY <3>1, PgrepAnswersInv
    <3> QED BY <2>3, <3>1, ThrowsInv, SendTextInv, SendKeysInv, PanePidInv, ForegroundPidInv,
               PsRowsInv, CaptureVisibleInv, WaitGotoInv, ElapsesInv DEF Proceeds
  <2>4. CASE UNCHANGED paneVars
    <3>1. Live' = Live
      BY <2>4 DEF Live, paneVars, tableVars
    <3> QED BY <2>4, <3>1 DEF PaneIInv, PaneTypeOK, Lineage, Traced, CallRecords, WalkOK,
                             WalkedTree, Awaits, Settled, paneVars, tableVars
  <2> QED BY <2>1, <2>2, <2>3, <2>4 DEF PaneNext
<1> QED BY <1>1, <1>2, PTL DEF PaneSpec

(* The types hold, and a walk asks about processes it has found, on at most     *)
(* MaxDepth levels (descendantPids, tmux.client.ts).                            *)
THEOREM PaneTypeCorrect == PaneSpec => []PaneTypeOK
<1>1. PaneIInv => PaneTypeOK
  BY DEF PaneIInv
<1> QED BY <1>1, PaneInvariant, PTL

(* term_signal kills nothing the terminal's shell did not start, unless a pid   *)
(* was given to another process since the verb began (term-signal.tool.ts).     *)
THEOREM SignalsInLineage == PaneSpec => []SignalsStayInLineage
<1>1. PaneIInv => SignalsStayInLineage
  BY DEF PaneIInv, SignalsStayInLineage, Traced, WalkedTree, At
<1> QED BY <1>1, PaneInvariant, PTL
------------------------------------------------------------------------------
(* What the calls remember: that the pattern was not on the screen, and which   *)
(* processes stayed in the tree.                                                *)

(* term_wait_for has seen no match, so there was a moment without one.          *)
Watched(this, seen, absent) ==
    /\ this.stage \in {"capture", "check", "sleep"} => absent \/ seen
    /\ this.stage = "check" => absent \/ this.matched
    /\ this.stage = "timeout" => absent

(* The walk has followed every chain to a steady process as deep as it has      *)
(* gone; whoever follows a process of the tree is in the tree, found, or still  *)
(* asked for.                                                                   *)
Followed(this, steady) ==
    \A k \in 0..MaxDepth : \A f \in Chains(k) : f[k] \in steady =>
        /\ \A i \in 0..k : i <= this.depth => f[i] \in WalkedTree(this)
        /\ \A i \in 1..k : f[i - 1] \in WalkedTree(this) =>
              \/ f[i - 1] \in this.asked
              \/ f[i] \in WalkedTree(this) \cup this.found

Covers(this, steady) ==
    /\ steady \subseteq Tree
    /\ this.stage = "pane-pid" => this.visited = {} /\ this.found = {} /\ this.depth = 0
    /\ this.stage \in {"children", "walk"} => Followed(this, steady)
    /\ this.stage \in {"rows", "kill"} => steady \subseteq WalkedTree(this)
    /\ this.stage = "refused" => this.target \notin steady
    /\ this.stage = "done" /\ this.verb = "ps" => steady \subseteq this.found

PastIInv ==
    \A c \in Calls :
        Watched(call[c], screen, past[c].absent) /\ Covers(call[c], past[c].steady)

LEMMA PaneTypes ==
    ASSUME PaneIInv
    PROVE  /\ call \in [Calls -> CallRecords] /\ past \in [Calls -> PastType]
           /\ proc \in [Live -> Process] /\ Live \subseteq Pids /\ screen \in BOOLEAN
BY DEF PaneIInv, PaneTypeOK, PastType, Process

LEMMA PastInit == PaneInit => PastIInv
BY DEF PaneInit, PastIInv, Watched, Covers, Idle

(* A nonempty set of numbers has a least one.                                   *)
LEMMA LeastNatural ==
    ASSUME NEW T \in SUBSET Nat, T # {}
    PROVE  \E n \in T : \A m \in T : n <= m
<1>1. PICK n \in T : \A m \in T : ~(<<m, n>> \in OpToRel(<, Nat))
  BY NatLessThanWellFounded, WFMin
<1>2. \A m \in T : ~(m < n)
  <2> TAKE m \in T
  <2>1. <<m, n>> \in Nat \X Nat
    OBVIOUS
  <2> QED BY <1>1, <2>1 DEF OpToRel
<1> QED BY <1>2

(* A tree that nothing found leads out of has every chain that starts in it.    *)
LEMMA ClosedUnderChildren ==
    ASSUME NEW k \in Nat, NEW f \in Chains(k), NEW V, Shell \in V,
           \A i \in 1..k : f[i - 1] \in V => f[i] \in V
    PROVE  f[k] \in V
<1> DEFINE outside == {i \in 0..k : f[i] \notin V}
<1>1. SUFFICES ASSUME outside # {} PROVE FALSE
  OBVIOUS
<1>2. PICK n \in outside : \A m \in outside : n <= m
  <2>1. outside \in SUBSET Nat
    OBVIOUS
  <2> HIDE DEF outside
  <2> QED BY <1>1, <2>1, LeastNatural
<1>3. n # 0
  BY <1>2 DEF Chains
<1>4. n \in 1..k /\ n - 1 \in 0..k /\ n - 1 \notin outside
  BY <1>2, <1>3
<1> QED BY <1>2, <1>4

------------------------------------------------------------------------------
(* A step that changes one call, and neither the processes nor the screen.      *)
LEMMA PastCallStep ==
    ASSUME PaneIInv, PastIInv, NEW c \in Calls, NEW new,
           call' = [call EXCEPT ![c] = new],
           Watched(new, screen, past[c].absent), Covers(new, past[c].steady),
           UNCHANGED <<proc, screen, past>>
    PROVE  PastIInv'
<1>1. \A d \in Calls : call'[d] = IF d = c THEN new ELSE call[d]
  BY PaneTypes
<1>2. ASSUME NEW d \in Calls
      PROVE  Watched(call'[d], screen, past[d].absent) /\ Covers(call'[d], past[d].steady)
  BY <1>1 DEF PastIInv
<1>3. Live' = Live /\ \A k : Chains(k)' = Chains(k)
  BY DEF Live, Chains
<1>4. Tree' = Tree
  BY <1>3 DEF Tree
<1>5. ASSUME NEW d \in Calls
      PROVE  (Watched(call[d], screen, past[d].absent) /\ Covers(call[d], past[d].steady))'
  BY <1>2, <1>3, <1>4 DEF Watched, Covers, Followed, WalkedTree
<1> QED BY <1>5 DEF PastIInv

(* A goto that neither walks nor waits.                                         *)
LEMMA PastGotoStep ==
    ASSUME PaneIInv, PastIInv, NEW c \in Calls, NEW stage, Goto(c, stage),
           stage \in {"enter", "done", "failed"}, stage = "done" => call[c].verb # "ps",
           UNCHANGED <<proc, screen, past>>
    PROVE  PastIInv'
<1> DEFINE new == [call[c] EXCEPT !.stage = stage]
<1>1. /\ new.stage = stage /\ new.verb = call[c].verb
      /\ call' = [call EXCEPT ![c] = new]
  BY PaneTypes DEF CallRecords, Goto
<1>2. Covers(call[c], past[c].steady)
  BY DEF PastIInv
<1> HIDE DEF new
<1>3. Watched(new, screen, past[c].absent) /\ Covers(new, past[c].steady)
  BY <1>1, <1>2 DEF Watched, Covers
<1> QED BY <1>1, <1>3, PastCallStep

------------------------------------------------------------------------------
(* The tree changes under the walk                                              *)

(* The new process is nobody's parent yet, so it is on no chain to an older one.*)
LEMMA PastProcessStarts ==
    ASSUME PaneIInv, PastIInv, NEW parent \in Pids \cup {InitPid}, NEW p \in Pids,
           ProcessStarts(parent, p)
    PROVE  PastIInv'
<1> USE PaneAssumption
<1>1. /\ parent \in Live \cup {InitPid} /\ p \notin Live /\ Live' = Live \cup {p}
      /\ screen' = screen /\ call' = call
  BY DEF ProcessStarts, Live
<1>2. \A q \in Live : proc'[q] = proc[q] /\ proc[q].parent \in Live \cup {InitPid}
  <2>1. \A q \in Live : proc'[q] = proc[q]
    BY <1>1 DEF ProcessStarts
  <2> QED BY <2>1, PaneTypes DEF Process
<1>3. proc'[p].parent = parent
  BY <1>1 DEF ProcessStarts
<1>4. p # InitPid
  OBVIOUS
<1>5. ASSUME NEW k \in Nat, NEW f \in Chains(k) PROVE f \in Chains(k)'
  <2>1. f \in [0..k -> Live] /\ f[0] = Shell /\ \A i \in 1..k : proc[f[i]].parent = f[i - 1]
    BY DEF Chains
  <2>2. f \in [0..k -> Live']
    BY <2>1, <1>1
  <2>3. \A i \in 1..k : proc'[f[i]].parent = f[i - 1]
    BY <2>1, <1>2
  <2> QED BY <2>1, <2>2, <2>3 DEF Chains
<1>6. ASSUME NEW k \in Nat, NEW f \in Chains(k)', f[k] \in Live PROVE f \in Chains(k)
  <2>1. /\ f \in [0..k -> Live'] /\ f[0] = Shell
        /\ \A i \in 1..k : proc'[f[i]].parent = f[i - 1]
    BY DEF Chains
  <2>2. ASSUME NEW i \in 0..k, f[i] = p PROVE FALSE
    <3>1. i < k /\ i + 1 \in 1..k
      BY <2>2, <1>6, <1>1
    <3>2. proc'[f[i + 1]].parent = p /\ f[i + 1] \in Live'
      BY <2>1, <2>2, <3>1
    <3> QED BY <3>2, <1>1, <1>2, <1>3, <1>4
  <2>3. f \in [0..k -> Live]
    BY <2>1, <2>2, <1>1
  <2>4. \A i \in 1..k : proc[f[i]].parent = f[i - 1]
    BY <2>1, <2>3, <1>2
  <2> QED BY <2>1, <2>3, <2>4 DEF Chains
<1>7. Tree \subseteq Tree'
  BY <1>1, <1>5 DEF Tree
<1>8. \A c \in Calls : past'[c].steady = past[c].steady /\ past'[c].absent = past[c].absent
  <2> TAKE c \in Calls
  <2> DEFINE again == past[c].recycled \/ p \in used
  <2>1. past'[c] = [past[c] EXCEPT !.recycled = again] /\ past[c] \in PastType
    BY PaneTypes DEF ProcessStarts
  <2> HIDE DEF again
  <2> QED BY <2>1 DEF PastType
<1>9. ASSUME NEW c \in Calls
      PROVE  (Watched(call[c], screen, past[c].absent) /\ Covers(call[c], past[c].steady))'
  <2>1. Watched(call[c], screen, past[c].absent) /\ Covers(call[c], past[c].steady)
    BY DEF PastIInv
  <2>2. Watched(call[c], screen, past[c].absent)'
    BY <2>1, <1>1, <1>8 DEF Watched
  <2>3. past[c].steady \subseteq Tree /\ past[c].steady \subseteq Live
    BY <2>1, TreeLive DEF Covers
  <2>4. Followed(call[c], past[c].steady) => Followed(call[c], past[c].steady)'
    BY <1>1, <1>6, <1>8, <2>3 DEF Followed, WalkedTree
  <2> QED BY <2>1, <2>2, <2>3, <2>4, <1>1, <1>7, <1>8 DEF Covers, WalkedTree
<1> QED BY <1>9 DEF PastIInv

(* What is left of a chain is no chain: every chain was there before.           *)
LEMMA PastProcessEnds ==
    ASSUME PaneIInv, PastIInv, NEW p \in Pids, ProcessEnds(p)
    PROVE  PastIInv'
<1> USE PaneAssumption
<1>1. Live' = Live \ {p} /\ screen' = screen /\ call' = call
  BY DEF ProcessEnds, Live
<1>2. ASSUME NEW q \in Live', proc'[q].parent # InitPid
      PROVE  proc'[q].parent = proc[q].parent
  <2>1. q \in Live /\ proc[q] \in Process
    BY <1>1, PaneTypes
  <2>2. proc'[q] = [proc[q] EXCEPT !.parent = IF @ = p THEN InitPid ELSE @]
    BY <1>1 DEF ProcessEnds
  <2>3. proc'[q].parent = IF proc[q].parent = p THEN InitPid ELSE proc[q].parent
    BY <2>1, <2>2 DEF Process
  <2> QED BY <2>3, <1>2
<1>3. InitPid \notin Live'
  BY <1>1, PaneTypes
<1>4. ASSUME NEW k \in Nat, NEW f \in Chains(k)' PROVE f \in Chains(k)
  <2>1. /\ f \in [0..k -> Live'] /\ f[0] = Shell
        /\ \A i \in 1..k : proc'[f[i]].parent = f[i - 1]
    BY DEF Chains
  <2>2. f \in [0..k -> Live]
    BY <2>1, <1>1
  <2>3. ASSUME NEW i \in 1..k PROVE proc[f[i]].parent = f[i - 1]
    <3>1. f[i] \in Live' /\ f[i - 1] \in Live'
      BY <2>1
    <3> QED BY <2>1, <3>1, <1>2, <1>3
  <2> QED BY <2>1, <2>2, <2>3 DEF Chains
<1>5. ASSUME NEW c \in Calls
      PROVE  /\ past'[c].steady \subseteq past[c].steady \cap Tree'
             /\ past'[c].absent = past[c].absent
  <2> DEFINE kept == past[c].steady \cap Tree'
  <2>1. past'[c] = [past[c] EXCEPT !.steady = kept]
    BY DEF ProcessEnds
  <2>2. past[c] \in PastType
    BY PaneTypes
  <2>3. past'[c].steady = kept /\ past'[c].absent = past[c].absent
    <3> HIDE DEF kept
    <3> QED BY <2>1, <2>2 DEF PastType
  <2> QED BY <2>3
<1>6. ASSUME NEW c \in Calls
      PROVE  (Watched(call[c], screen, past[c].absent) /\ Covers(call[c], past[c].steady))'
  <2>1. Watched(call[c], screen, past[c].absent) /\ Covers(call[c], past[c].steady)
    BY DEF PastIInv
  <2>2. Watched(call[c], screen, past[c].absent)'
    BY <2>1, <1>1, <1>5 DEF Watched
  <2>4. Followed(call[c], past[c].steady) => Followed(call[c], past[c].steady)'
    BY <1>1, <1>4, <1>5 DEF Followed, WalkedTree
  <2> QED BY <2>1, <2>2, <2>4, <1>1, <1>5 DEF Covers, WalkedTree
<1> QED BY <1>6 DEF PastIInv

LEMMA PastScreenChanges ==
    ASSUME PaneIInv, PastIInv, ScreenChanges
    PROVE  PastIInv'
<1>1. proc' = proc /\ call' = call /\ screen' = ~screen
  BY DEF ScreenChanges, tableVars
<1>2. Live' = Live /\ \A k : Chains(k)' = Chains(k)
  BY <1>1 DEF Live, Chains
<1>3. Tree' = Tree
  BY <1>2 DEF Tree
<1>4. \A c \in Calls : past'[c].steady = past[c].steady
                       /\ past'[c].absent = (past[c].absent \/ screen)
  <2> TAKE c \in Calls
  <2> DEFINE gone == past[c].absent \/ ~screen'
  <2>1. past'[c] = [past[c] EXCEPT !.absent = gone] /\ past[c] \in PastType
    BY PaneTypes DEF ScreenChanges
  <2>2. gone = (past[c].absent \/ screen)
    BY <1>1, PaneTypes
  <2> HIDE DEF gone
  <2> QED BY <2>1, <2>2 DEF PastType
<1>5. ASSUME NEW c \in Calls
      PROVE  (Watched(call[c], screen, past[c].absent) /\ Covers(call[c], past[c].steady))'
  <2>1. Watched(call[c], screen, past[c].absent) /\ Covers(call[c], past[c].steady)
    BY DEF PastIInv
  <2>2. Watched(call[c], screen, past[c].absent)'
    BY <2>1, <1>1, <1>4, PaneTypes DEF Watched
  <2>3. Covers(call[c], past[c].steady)'
    BY <2>1, <1>1, <1>2, <1>3, <1>4 DEF Covers, Followed, WalkedTree
  <2> QED BY <2>2, <2>3
<1> QED BY <1>5 DEF PastIInv

------------------------------------------------------------------------------
(* The verbs                                                                    *)

LEMMA PastBegin ==
    ASSUME PaneIInv, PastIInv, NEW c \in Calls, NEW verb,
           NEW stage \in {"text", "key", "pane-pid", "capture"}, NEW target,
           Begin(c, verb, stage, target)
    PROVE  PastIInv'
<1> DEFINE new == [Idle EXCEPT !.verb = verb, !.stage = stage, !.target = target]
           now == [steady |-> Tree, recycled |-> FALSE, absent |-> ~screen]
<1>1. proc' = proc /\ screen' = screen
  BY DEF Begin, tableVars
<1>2. Live' = Live /\ \A k : Chains(k)' = Chains(k)
  BY <1>1 DEF Live, Chains
<1>3. Tree' = Tree
  BY <1>2 DEF Tree
<1>4. call' = [call EXCEPT ![c] = new] /\ past' = [past EXCEPT ![c] = now]
  BY DEF Begin
<1>5. /\ new.stage = stage /\ new.visited = {} /\ new.found = {} /\ new.depth = 0
      /\ now.steady = Tree /\ now.absent = ~screen
  BY DEF Idle
<1> HIDE DEF new, now
<1>6. \A d \in Calls : /\ call'[d] = IF d = c THEN new ELSE call[d]
                       /\ past'[d] = IF d = c THEN now ELSE past[d]
  BY <1>4, PaneTypes
<1>7. Watched(new, screen, now.absent) /\ Covers(new, now.steady)
  BY <1>5, PaneTypes DEF Watched, Covers
<1>8. ASSUME NEW d \in Calls
      PROVE  (Watched(call[d], screen, past[d].absent) /\ Covers(call[d], past[d].steady))'
  <2>1. Watched(call'[d], screen, past'[d].absent) /\ Covers(call'[d], past'[d].steady)
    BY <1>6, <1>7 DEF PastIInv
  <2> QED BY <2>1, <1>1, <1>2, <1>3 DEF Watched, Covers, Followed, WalkedTree
<1> QED BY <1>8 DEF PastIInv

(* Nothing is found yet, and every chain starts with the shell.                 *)
LEMMA PastPanePid ==
    ASSUME PaneIInv, PastIInv, NEW c \in Calls, PanePid(c)
    PROVE  PastIInv'
<1> USE PaneAssumption
<1> DEFINE stage == IF call[c].verb = "ps" THEN "children" ELSE "walk"
           new == [call[c] EXCEPT !.stage = stage, !.asked = {Shell}]
<1>1. call[c].stage = "pane-pid" /\ Covers(call[c], past[c].steady)
  BY DEF PanePid, At, PastIInv
<1>2. /\ call' = [call EXCEPT ![c] = new]
      /\ new.stage = stage /\ new.asked = {Shell} /\ new.visited = call[c].visited
      /\ new.found = call[c].found /\ new.depth = call[c].depth
  BY PaneTypes DEF CallRecords, PanePid
<1>3. stage \in {"children", "walk"}
  OBVIOUS
<1> HIDE DEF new, stage
<1>4. WalkedTree(new) = {Shell} /\ new.depth = 0
  BY <1>1, <1>2 DEF Covers, WalkedTree
<1>5. Followed(new, past[c].steady)
  <2> SUFFICES ASSUME NEW k \in 0..MaxDepth, NEW f \in Chains(k)
               PROVE  /\ \A i \in 0..k : i <= 0 => f[i] = Shell
                      /\ \A i \in 1..k : f[i - 1] = Shell => f[i - 1] \in new.asked
    BY <1>4 DEF Followed
  <2> QED BY <1>2 DEF Chains
<1>6. Watched(new, screen, past[c].absent) /\ Covers(new, past[c].steady)
  BY <1>1, <1>2, <1>3, <1>5 DEF Watched, Covers
<1> QED BY <1>2, <1>6, PastCallStep DEF PanePid, tableVars

LEMMA PastForegroundPid ==
    ASSUME PaneIInv, PastIInv, NEW c \in Calls, ForegroundPid(c)
    PROVE  PastIInv'
<1> DEFINE new == [call[c] EXCEPT !.stage = "walk"]
<1>1. call[c].stage = "children" /\ Covers(call[c], past[c].steady)
  BY DEF ForegroundPid, At, PastIInv
<1>2. /\ call' = [call EXCEPT ![c] = new]
      /\ new.stage = "walk" /\ new.asked = call[c].asked /\ new.visited = call[c].visited
      /\ new.found = call[c].found /\ new.depth = call[c].depth
  BY PaneTypes DEF CallRecords, ForegroundPid, Goto
<1> HIDE DEF new
<1>3. Watched(new, screen, past[c].absent) /\ Covers(new, past[c].steady)
  BY <1>1, <1>2 DEF Watched, Covers, Followed, WalkedTree
<1> QED BY <1>2, <1>3, PastCallStep DEF ForegroundPid, tableVars

(* The next process on a chain is a child of the one that was asked about.      *)
LEMMA AnswerFollowed ==
    ASSUME PaneIInv, NEW c \in Calls, NEW p, NEW steady, Followed(call[c], steady)
    PROVE  LET this == [call[c] EXCEPT !.asked = @ \ {p}, !.found = @ \cup Children(p)]
           IN  Followed(this, steady)
<1> DEFINE this == [call[c] EXCEPT !.asked = @ \ {p}, !.found = @ \cup Children(p)]
<1>1. /\ this.asked = call[c].asked \ {p} /\ this.found = call[c].found \cup Children(p)
      /\ this.visited = call[c].visited /\ this.depth = call[c].depth
  BY PaneTypes DEF CallRecords
<1> HIDE DEF this
<1>2. WalkedTree(this) = WalkedTree(call[c])
  BY <1>1 DEF WalkedTree
<1>3. ASSUME NEW k \in 0..MaxDepth, NEW f \in Chains(k), f[k] \in steady,
             NEW i \in 1..k, f[i - 1] = p
      PROVE  f[i] \in Children(p)
  BY <1>3 DEF Chains, Children
<1>4. Followed(this, steady)
  BY <1>1, <1>2, <1>3 DEF Followed
<1> QED BY <1>4 DEF this

(* When a level is done the next is followed; when the walk is over, because    *)
(* nothing new was found or because it is as deep as it goes, it has walked     *)
(* every steady process.                                                        *)
LEMMA LevelFollowed ==
    ASSUME NEW this \in CallRecords, this.stage = "walk", this.asked = {},
           this.depth < MaxDepth, NEW steady \in SUBSET Tree, Followed(this, steady),
           NEW absent
    PROVE  Covers(NextLevel(this), steady) /\ Watched(NextLevel(this), screen, absent)
<1> USE PaneAssumption
<1> DEFINE next == NextFrontier(this)
           walked == [this EXCEPT !.visited = @ \cup next, !.found = {}, !.depth = @ + 1]
<1>1. /\ walked.visited = this.visited \cup next /\ walked.depth = this.depth + 1
      /\ walked.found = {} /\ walked.target = this.target /\ walked.verb = this.verb
      /\ DOMAIN walked = DOMAIN this
  BY DEF CallRecords
<1>2. WalkedTree(walked) = WalkedTree(this) \cup this.found
  BY <1>1 DEF WalkedTree, NextFrontier
<1>3. ASSUME NEW k \in 0..MaxDepth, NEW f \in Chains(k), f[k] \in steady
      PROVE  /\ \A i \in 0..k : i <= this.depth => f[i] \in WalkedTree(this)
             /\ \A i \in 1..k : f[i - 1] \in WalkedTree(this) => f[i] \in WalkedTree(walked)
  BY <1>2, <1>3 DEF Followed
<1>4. this.depth \in Nat
  BY DEF CallRecords
<1>5. ASSUME NEW k \in 0..MaxDepth, NEW f \in Chains(k), f[k] \in steady,
             NEW i \in 0..k, i <= this.depth + 1
      PROVE  f[i] \in WalkedTree(walked)
  <2>1. CASE i <= this.depth
    BY <2>1, <1>2, <1>3, <1>5
  <2>2. CASE i = this.depth + 1
    <3>1. i \in 1..k /\ i - 1 \in 0..k /\ i - 1 <= this.depth
      BY <2>2, <1>4
    <3> QED BY <3>1, <1>3, <1>5
  <2> QED BY <2>1, <2>2, <1>4, <1>5
<1>6. CASE GoesDeeper(walked, next)
  <2> DEFINE new == [walked EXCEPT !.asked = next]
  <2>1. NextLevel(this) = new
    BY <1>6 DEF NextLevel
  <2>2. /\ new.visited = walked.visited /\ new.depth = this.depth + 1 /\ new.stage = "walk"
        /\ new.asked = next /\ new.found = {}
    BY <1>1 DEF CallRecords
  <2> HIDE DEF new, walked
  <2>3. WalkedTree(new) = WalkedTree(walked)
    BY <2>2 DEF WalkedTree
  <2>4. WalkedTree(walked) = WalkedTree(this) \cup next
    BY <1>1 DEF WalkedTree
  <2> HIDE DEF next
  <2>5. Followed(new, steady)
    BY <1>3, <1>5, <2>2, <2>3, <2>4 DEF Followed
  <2> QED BY <2>1, <2>2, <2>5 DEF Covers, Watched
<1>7. CASE ~GoesDeeper(walked, next)
  <2> DEFINE stage == AfterWalk(walked)
             new == [walked EXCEPT !.asked = {}, !.stage = stage]
  <2>1. NextLevel(this) = new
    BY <1>7 DEF NextLevel
  <2>2. /\ new.visited = walked.visited /\ new.stage = stage /\ new.target = walked.target
    BY <1>1 DEF CallRecords
  <2> HIDE DEF new
  <2>3. WalkedTree(new) = WalkedTree(walked)
    BY <2>2 DEF WalkedTree
  <2>4. ASSUME NEW p \in steady PROVE p \in WalkedTree(walked)
    <3>1. PICK k \in 0..MaxDepth : \E f \in Chains(k) : f[k] = p
      BY DEF Tree
    <3>2. PICK f \in Chains(k) : f[k] = p
      BY <3>1
    <3>3. CASE next = {}
      <4>1. WalkedTree(walked) = WalkedTree(this)
        BY <3>3, <1>1 DEF WalkedTree
      <4> HIDE DEF walked, next
      <4>2. \A i \in 1..k : f[i - 1] \in WalkedTree(walked) => f[i] \in WalkedTree(walked)
        BY <4>1, <3>2, <1>3
      <4>3. Shell \in WalkedTree(walked)
        BY DEF WalkedTree
      <4> QED BY <4>2, <4>3, <3>2, ClosedUnderChildren
    <3>4. CASE next # {}
      <4> HIDE DEF next
      <4>1. ~(walked.depth < MaxDepth)
        BY <1>7, <3>4 DEF GoesDeeper
      <4>2. MaxDepth <= this.depth + 1
        BY <4>1, <1>1, <1>4
      <4> HIDE DEF walked
      <4> QED BY <4>2, <1>4, <1>5, <3>2
    <3> QED BY <3>3, <3>4
  <2>5. /\ stage \in {"rows", "kill", "refused"}
        /\ stage = "refused" => walked.target \notin WalkedTree(walked)
    BY DEF AfterWalk
  <2> HIDE DEF walked, next, stage
  <2> QED BY <2>1, <2>2, <2>3, <2>4, <2>5 DEF Covers, Watched
<1> QED BY <1>6, <1>7

LEMMA PastPgrepAnswers ==
    ASSUME PaneIInv, PastIInv, NEW c \in Calls, NEW p \in Pids, PgrepAnswers(c, p)
    PROVE  PastIInv'
<1> DEFINE this == [call[c] EXCEPT !.asked = @ \ {p}, !.found = @ \cup Children(p)]
           new == IF this.asked = {} THEN NextLevel(this) ELSE this
<1>1. /\ call[c].stage = "walk" /\ p \in call[c].asked
      /\ Covers(call[c], past[c].steady)
  BY DEF PgrepAnswers, At, PastIInv
<1>2. call' = [call EXCEPT ![c] = new]
  BY DEF PgrepAnswers
<1>3. this \in CallRecords /\ this.stage = "walk" /\ this.depth < MaxDepth
  BY <1>1, AnswerTraced
<1>4. past[c].steady \in SUBSET Tree /\ Followed(this, past[c].steady)
  BY <1>1, AnswerFollowed DEF Covers
<1> HIDE DEF this
<1>5. Covers(new, past[c].steady) /\ Watched(new, screen, past[c].absent)
  <2>1. CASE this.asked = {}
    BY <1>3, <1>4, <2>1, LevelFollowed
  <2>2. CASE this.asked # {}
    BY <1>3, <1>4, <2>2 DEF Covers, Watched
  <2> QED BY <2>1, <2>2
<1> HIDE DEF new
<1> QED BY <1>2, <1>5, PastCallStep DEF PgrepAnswers, tableVars

LEMMA PastPsRows ==
    ASSUME PaneIInv, PastIInv, NEW c \in Calls, PsRows(c)
    PROVE  PastIInv'
<1> DEFINE rows == WalkedTree(call[c]) \cap Live
           new == [call[c] EXCEPT !.stage = "done", !.found = rows]
<1>1. call[c].stage = "rows" /\ Covers(call[c], past[c].steady)
  BY DEF PsRows, At, PastIInv
<1>2. past[c].steady \subseteq rows
  BY <1>1, TreeLive DEF Covers
<1>3. call' = [call EXCEPT ![c] = new] /\ new.stage = "done" /\ new.found = rows
  BY PaneTypes DEF CallRecords, PsRows
<1> HIDE DEF new, rows
<1>4. Watched(new, screen, past[c].absent) /\ Covers(new, past[c].steady)
  BY <1>1, <1>2, <1>3 DEF Watched, Covers
<1> QED BY <1>3, <1>4, PastCallStep DEF PsRows, tableVars

(* The capture that sees no match is of a moment without one.                   *)
LEMMA PastCaptureVisible ==
    ASSUME PaneIInv, PastIInv, NEW c \in Calls, CaptureVisible(c)
    PROVE  PastIInv'
<1> DEFINE new == [call[c] EXCEPT !.stage = "check", !.matched = screen]
<1>1. /\ call[c].stage = "capture" /\ Covers(call[c], past[c].steady)
      /\ Watched(call[c], screen, past[c].absent)
  BY DEF CaptureVisible, At, PastIInv
<1>2. call' = [call EXCEPT ![c] = new] /\ new.stage = "check" /\ new.matched = screen
  BY PaneTypes DEF CallRecords, CaptureVisible
<1> HIDE DEF new
<1>3. Watched(new, screen, past[c].absent) /\ Covers(new, past[c].steady)
  BY <1>1, <1>2 DEF Watched, Covers
<1> QED BY <1>2, <1>3, PastCallStep DEF CaptureVisible, tableVars

LEMMA PastWaitGoto ==
    ASSUME PaneIInv, PastIInv, NEW c \in Calls, CheckCapture(c) \/ Wakes(c)
    PROVE  PastIInv'
<1>1. /\ Covers(call[c], past[c].steady) /\ Watched(call[c], screen, past[c].absent)
      /\ call[c] \in CallRecords /\ past[c].absent \in BOOLEAN
  BY PaneTypes DEF PastIInv, PastType
<1>2. PICK stage \in {"done", "timeout", "sleep", "capture"} :
          /\ Goto(c, stage) /\ call[c].verb = "wait"
          /\ stage = "timeout" => past[c].absent
          /\ stage \in {"sleep", "capture"} => past[c].absent \/ screen
  <2>1. CASE CheckCapture(c)
    BY <2>1, <1>1 DEF CheckCapture, At, Watched
  <2>2. CASE Wakes(c)
    BY <2>2, <1>1 DEF Wakes, At, Watched
  <2> QED BY <2>1, <2>2
<1> DEFINE new == [call[c] EXCEPT !.stage = stage]
<1>3. /\ call' = [call EXCEPT ![c] = new] /\ new.stage = stage
      /\ new.verb = "wait"
  BY <1>1, <1>2 DEF Goto, CallRecords
<1> HIDE DEF new
<1>4. Watched(new, screen, past[c].absent) /\ Covers(new, past[c].steady)
  BY <1>1, <1>2, <1>3 DEF Watched, Covers
<1> QED BY <1>3, <1>4, PastCallStep DEF CheckCapture, Wakes, tableVars

LEMMA PastElapses ==
    ASSUME PaneIInv, PastIInv, NEW c \in Calls, Elapses(c)
    PROVE  PastIInv'
<1> DEFINE new == [call[c] EXCEPT !.late = TRUE]
<1>1. /\ Covers(call[c], past[c].steady) /\ Watched(call[c], screen, past[c].absent)
      /\ call[c].stage \in {"capture", "check", "sleep"}
  BY DEF Elapses, PastIInv
<1>2. /\ call' = [call EXCEPT ![c] = new] /\ new.stage = call[c].stage
      /\ new.matched = call[c].matched
  BY PaneTypes DEF Elapses, CallRecords
<1> HIDE DEF new
<1>3. Watched(new, screen, past[c].absent) /\ Covers(new, past[c].steady)
  BY <1>1, <1>2 DEF Watched, Covers
<1> QED BY <1>2, <1>3, PastCallStep DEF Elapses, tableVars

(* The steps of the other verbs, and failures.                                  *)
LEMMA PastOtherSteps ==
    ASSUME PaneIInv, PastIInv, NEW c \in Calls,
           Throws(c) \/ SendText(c) \/ SendEnter(c) \/ SendSignalKey(c) \/ KillPid(c)
    PROVE  PastIInv'
<1>1. CASE Throws(c)
  BY <1>1, PastGotoStep DEF Throws, tableVars
<1>2. CASE SendText(c)
  <2>1. /\ Goto(c, IF call[c].verb = "send" THEN "enter" ELSE "done") /\ call[c].verb # "ps"
        /\ UNCHANGED <<proc, screen, past>>
    BY <1>2 DEF SendText, At, tableVars
  <2> QED BY <2>1, PastGotoStep
<1>3. CASE SendEnter(c)
  BY <1>3, PastGotoStep DEF SendEnter, At, tableVars
<1>4. CASE SendSignalKey(c)
  BY <1>4, PastGotoStep DEF SendSignalKey, At, tableVars
<1>5. CASE KillPid(c)
  BY <1>5, PastGotoStep DEF KillPid, At, tableVars
<1> QED BY <1>1, <1>2, <1>3, <1>4, <1>5

------------------------------------------------------------------------------
LEMMA PastInvariant == PaneSpec => []PastIInv
<1>1. PaneInit => PastIInv
  BY PastInit
<1>2. PaneIInv /\ PastIInv /\ [PaneNext]_paneVars => PastIInv'
  <2> SUFFICES ASSUME PaneIInv, PastIInv, [PaneNext]_paneVars PROVE PastIInv'
    OBVIOUS
  <2>1. ASSUME Machine PROVE PastIInv'
    <3>1. ASSUME NEW parent \in Pids \cup {InitPid}, NEW p \in Pids, ProcessStarts(parent, p)
          PROVE  PastIInv'
      BY <3>1, PastProcessStarts
    <3>2. ASSUME NEW p \in Pids, ProcessEnds(p) PROVE PastIInv'
      BY <3>2, PastProcessEnds
    <3>3. ASSUME ScreenChanges PROVE PastIInv'
      BY <3>3, PastScreenChanges
    <3> QED BY <2>1, <3>1, <3>2, <3>3 DEF Machine
  <2>2. ASSUME NEW c \in Calls, Called(c) PROVE PastIInv'
    <3>1. CASE CallSend(c)
      BY <3>1, PastBegin DEF CallSend
    <3>2. CASE CallSignal(c)
      BY <3>2, PastBegin DEF CallSignal
    <3>3. CASE CallPs(c)
      BY <3>3, PastBegin DEF CallPs
    <3>4. CASE CallWaitFor(c)
      BY <3>4, PastBegin DEF CallWaitFor
    <3> QED BY <2>2, <3>1, <3>2, <3>3, <3>4 DEF Called
  <2>3. ASSUME NEW c \in Calls, Proceeds(c) PROVE PastIInv'
    <3>1. ASSUME NEW p \in Pids, PgrepAnswers(c, p) PROVE PastIInv'
      BY <3>1, PastPgrepAnswers
    <3> QED BY <2>3, <3>1, PastOtherSteps, PastPanePid, PastForegroundPid, PastPsRows,
               PastCaptureVisible, PastWaitGoto, PastElapses DEF Proceeds
  <2>4. CASE UNCHANGED paneVars
    <3>1. proc' = proc /\ screen' = screen /\ call' = call /\ past' = past
      BY <2>4 DEF paneVars, tableVars
    <3>2. Live' = Live /\ \A k : Chains(k)' = Chains(k)
      BY <3>1 DEF Live, Chains
    <3>3. Tree' = Tree
      BY <3>2 DEF Tree
    <3> QED BY <3>1, <3>2, <3>3 DEF PastIInv, Watched, Covers, Followed, WalkedTree
  <2> QED BY <2>1, <2>2, <2>3, <2>4 DEF PaneNext
<1> QED BY <1>1, <1>2, PaneInvariant, PTL DEF PaneSpec

(* A process that stays in the tree, no deeper than MaxDepth, is neither        *)
(* refused by term_signal nor missing from term_ps, however the tree changes    *)
(* between the pgreps (descendantPids, tmux.client.ts).                         *)
THEOREM WalkCovers == PaneSpec => []WalkCoversSteadyTree
<1>1. PastIInv => WalkCoversSteadyTree
  BY DEF PastIInv, Covers, WalkCoversSteadyTree, At
<1> QED BY <1>1, PastInvariant, PTL

(* term_wait_for does not time out on a pattern that was on the screen all the  *)
(* while (term-wait-for.tool.ts).                                               *)
THEOREM WaitSeesMatch == PaneSpec => []WaitSeesSteadyMatch
<1>1. PastIInv => WaitSeesSteadyMatch
  BY DEF PastIInv, Watched, WaitSeesSteadyMatch, At
<1> QED BY <1>1, PastInvariant, PTL
=============================================================================
