-------------------------- MODULE SupervisorProofs --------------------------
(***************************************************************************)
(* Proofs about Supervisor, for any number of MCP processes: its types,    *)
(* that the lock file serialises the spawns of a service, that a bootstrap *)
(* that failed holds no lock, and that a stack that is reported ready was  *)
(* up.                                                                     *)
(***************************************************************************)
EXTENDS Supervisor, FiniteSetTheorems, TLAPS

\* Processes that have won the lock of s and have spawned or will.
Winners(s) ==
    Spawners(s) \cup {p \in Procs : call[p].service = s /\ call[p].stage \in {"write", "spawn"}}

Present(s) == IF lock[s] = NoLock THEN 0 ELSE 1

\* Each of them created the lock file once, and each file that is no longer
\* there was unlinked.
OneWinnerPerFile ==
    \A s \in Services : Cardinality(Winners(s)) <= unlinks[s] + Present(s)

SupervisorIInv == SupervisorTypeOK /\ OneWinnerPerFile

----------------------------------------------------------------------------
(* Types                                                                   *)

CallType == [stage : Stages, service : Services, winner : BOOLEAN, late : BOOLEAN]
FileType == [by : Procs, written : BOOLEAN, old : BOOLEAN]

LEMMA ServicesDistinct == "broker" \in Services /\ "web" \in Services
BY DEF Services

LEMMA GotoType ==
    ASSUME NEW p \in Procs, call \in [Procs -> CallType], NEW st \in Stages, Goto(p, st),
           \A q \in Procs : call[q].stage \in {"write", "spawn", "release"} => call[q].winner,
           st \in {"write", "spawn", "release"} => call[p].winner
    PROVE  /\ call' \in [Procs -> CallType]
           /\ \A q \in Procs : call'[q].stage \in {"write", "spawn", "release"} => call'[q].winner
<1>1. call[p] \in CallType
  OBVIOUS
<1>2. [call[p] EXCEPT !.stage = st] \in CallType
  BY <1>1 DEF CallType
<1>3. call' = [call EXCEPT ![p] = [call[p] EXCEPT !.stage = st]]
  BY DEF Goto
<1>4. \A q \in Procs : call'[q] = IF q = p THEN [call[p] EXCEPT !.stage = st] ELSE call[q]
  BY <1>3
<1>5. [call[p] EXCEPT !.stage = st].winner = call[p].winner
      /\ [call[p] EXCEPT !.stage = st].stage = st
  BY <1>1 DEF CallType
<1> QED BY <1>2, <1>3, <1>4, <1>5

LEMMA SupervisorInitType == SupervisorInit => SupervisorTypeOK
<1> SUFFICES ASSUME SupervisorInit PROVE SupervisorTypeOK
  OBVIOUS
<1> USE SupervisorAssumption
<1>1. lock \in [Services -> {NoLock} \cup FileType] /\ unlinks \in [Services -> Nat]
  BY DEF SupervisorInit
<1>2. /\ call \in [Procs -> CallType]
      /\ \A p \in Procs : call[p].stage \in {"write", "spawn", "release"} => call[p].winner
  BY DEF SupervisorInit, CallType, Stages, Settled, Running, Services
<1>3. child \in [Procs -> [Services -> ChildStates]]
  BY DEF SupervisorInit, ChildStates
<1>4. port \in [Services -> Procs \cup {Foreign, NoOne}]
  BY DEF SupervisorInit
<1>5. crashes \in 0..MaxCrashes /\ serviceDeaths \in 0..MaxServiceDeaths
      /\ slowProbes \in 0..MaxSlowProbes /\ lockFaults \in 0..MaxLockFaults
  BY DEF SupervisorInit
<1> QED BY <1>1, <1>2, <1>3, <1>4, <1>5 DEF SupervisorTypeOK, CallType, FileType

\* The part of the type invariant that speaks of calls.
CallsOK ==
    /\ call \in [Procs -> CallType]
    /\ \A p \in Procs : call[p].stage \in {"write", "spawn", "release"} => call[p].winner

\* The part of it that speaks of lock files and probes.
FilesOK ==
    /\ lock \in [Services -> {NoLock} \cup FileType]
    /\ unlinks \in [Services -> Nat]
    /\ crashes \in 0..MaxCrashes /\ serviceDeaths \in 0..MaxServiceDeaths
    /\ slowProbes \in 0..MaxSlowProbes /\ lockFaults \in 0..MaxLockFaults

\* And of the services.
ServicesOK ==
    /\ child \in [Procs -> [Services -> ChildStates]]
    /\ port \in [Services -> Procs \cup {Foreign, NoOne}]

LEMMA TypeParts == SupervisorTypeOK <=> CallsOK /\ FilesOK /\ ServicesOK
BY DEF SupervisorTypeOK, CallsOK, FilesOK, ServicesOK, CallType, FileType

LEMMA ReadyType ==
    ASSUME CallsOK, NEW p \in Procs, ServiceReady(p)
    PROVE  CallsOK'
<1> DEFINE new == IF call[p].service = "broker" /\ p \notin WebOptOut
                  THEN [stage |-> "probe", service |-> "web", winner |-> FALSE, late |-> FALSE]
                  ELSE [call[p] EXCEPT !.stage = "resolved"]
<1>1. call[p] \in CallType
  BY DEF CallsOK
<1>2. new \in CallType /\ new.stage \in {"probe", "resolved"}
  BY <1>1 DEF CallType, Stages, Settled, Running, Services
<1>3. call' = [call EXCEPT ![p] = new]
  BY DEF ServiceReady
<1> HIDE DEF new
<1>4. \A q \in Procs : call'[q] = IF q = p THEN new ELSE call[q]
  BY <1>3 DEF CallsOK
<1> QED BY <1>2, <1>3, <1>4 DEF CallsOK

LEMMA StageType ==
    ASSUME CallsOK, NEW p \in Procs, NEW st \in Stages, Goto(p, st),
           st \in {"write", "spawn", "release"} => call[p].winner
    PROVE  CallsOK'
BY GotoType DEF CallsOK

LEMMA ThrowType ==
    ASSUME CallsOK, NEW p \in Procs, Throw(p)
    PROVE  CallsOK'
<1> DEFINE st == IF call[p].winner THEN "release" ELSE "rejected"
<1>1. st \in Stages /\ (st \in {"write", "spawn", "release"} => call[p].winner)
  BY DEF Stages, Settled, Running
<1>2. Goto(p, st)
  BY DEF Throw
<1> QED BY <1>1, <1>2, StageType

LEMMA RemoveLockType ==
    ASSUME FilesOK, NEW s \in Services, RemoveLock(s),
           UNCHANGED <<crashes, serviceDeaths, slowProbes, lockFaults>>
    PROVE  FilesOK'
BY DEF FilesOK, RemoveLock

LEMMA StepType == SupervisorTypeOK /\ [SupervisorNext]_supervisorVars => SupervisorTypeOK'
<1> SUFFICES ASSUME CallsOK, FilesOK, ServicesOK, [SupervisorNext]_supervisorVars
             PROVE  CallsOK' /\ FilesOK' /\ ServicesOK'
  BY TypeParts, TypeParts, PTL
<1> USE DEF boundVars, serviceVars
<1>0. \A p \in Procs : call[p].service \in Services
  BY DEF CallsOK, CallType
<1>p. ASSUME slowProbes' \in 0..MaxSlowProbes,
             UNCHANGED <<lock, unlinks, serviceVars, crashes, serviceDeaths, lockFaults>>
      PROVE  FilesOK' /\ ServicesOK'
  BY <1>p DEF FilesOK, ServicesOK
<1>h. ASSUME NEW s \in Services, Healthy(s) PROVE slowProbes' \in 0..MaxSlowProbes
  BY <1>h DEF Healthy, FilesOK
<1>n. ASSUME NEW s \in Services, NotHealthy(s) PROVE slowProbes' \in 0..MaxSlowProbes
  BY <1>n, SupervisorAssumption DEF NotHealthy, FilesOK
<1>f. ASSUME NEW s \in Services, PortConflict(s) PROVE slowProbes' \in 0..MaxSlowProbes
  BY <1>f DEF PortConflict, FilesOK
<1>1. ASSUME NEW p \in Procs, Call(p) PROVE CallsOK' /\ FilesOK' /\ ServicesOK'
  <2>1. CallsOK'
    BY <1>1, StageType DEF Call, Stages, Settled, Running
  <2> QED BY <1>1, <2>1 DEF Call, FilesOK, ServicesOK
<1>2. ASSUME NEW p \in Procs, Probe(p) PROVE CallsOK' /\ FilesOK' /\ ServicesOK'
  <2>1. CallsOK' /\ slowProbes' \in 0..MaxSlowProbes
    BY <1>2, <1>0, <1>h, <1>n, <1>f, ReadyType, StageType, ThrowType
       DEF Probe, Stages, Settled, Running
  <2> QED BY <1>2, <1>p, <2>1 DEF Probe
<1>3. ASSUME NEW p \in Procs, AcquireLock(p) PROVE CallsOK' /\ FilesOK' /\ ServicesOK'
  <2>0. LockFile(p) \in FileType
    BY DEF LockFile, FileType
  <2>1. FilesOK' /\ ServicesOK'
    BY <1>0, <1>3, <2>0 DEF AcquireLock, FilesOK, ServicesOK
  <2>2. CASE lock[call[p].service] = NoLock
    <3> DEFINE new == [call[p] EXCEPT !.stage = "write", !.winner = TRUE]
    <3>1. new \in CallType /\ new.winner
      BY DEF CallsOK, CallType, Stages, Settled, Running
    <3>2. call' = [call EXCEPT ![p] = new]
      BY <1>3, <2>2 DEF AcquireLock
    <3> HIDE DEF new
    <3>3. \A q \in Procs : call'[q] = IF q = p THEN new ELSE call[q]
      BY <3>2 DEF CallsOK
    <3> QED BY <2>1, <3>1, <3>2, <3>3 DEF CallsOK
  <2>3. CASE lock[call[p].service] # NoLock
    BY <1>3, <2>1, <2>3, StageType DEF AcquireLock, Stages, Settled, Running
  <2> QED BY <2>2, <2>3
<1>4. ASSUME NEW p \in Procs, WritePid(p) PROVE CallsOK' /\ FilesOK' /\ ServicesOK'
  <2>1. call[p].winner
    BY <1>4 DEF WritePid, At, CallsOK
  <2>2. CallsOK'
    BY <1>4, <2>1, StageType DEF WritePid, Stages, Settled, Running
  <2>3. ServicesOK' /\ UNCHANGED <<unlinks, crashes, serviceDeaths, slowProbes, lockFaults>>
    BY <1>4 DEF WritePid, ServicesOK
  <2>4. lock' \in [Services -> {NoLock} \cup FileType]
    BY <1>0, <1>4 DEF WritePid, FilesOK, FileType
  <2> QED BY <2>2, <2>3, <2>4 DEF FilesOK
<1>5. ASSUME NEW p \in Procs, Spawn(p) PROVE CallsOK' /\ FilesOK' /\ ServicesOK'
  <2>1. CallsOK'
    BY <1>5, StageType DEF Spawn, Stages, Settled, Running
  <2> QED BY <1>0, <1>5, <2>1 DEF Spawn, FilesOK, ServicesOK, ChildStates
<1>6. ASSUME NEW p \in Procs, Poll(p) PROVE CallsOK' /\ FilesOK' /\ ServicesOK'
  <2>1. CallsOK' /\ slowProbes' \in 0..MaxSlowProbes
    BY <1>6, <1>0, <1>h, <1>n, <1>f, ReadyType, StageType, ThrowType
       DEF Poll, Stages, Settled, Running, FilesOK
  <2> QED BY <1>6, <1>p, <2>1 DEF Poll
<1>7. ASSUME NEW p \in Procs, CheckStale(p) PROVE CallsOK' /\ FilesOK' /\ ServicesOK'
  <2>1. CallsOK'
    BY <1>7, StageType, ThrowType DEF CheckStale, Stages, Settled, Running
  <2> QED BY <1>7, <2>1 DEF CheckStale, FilesOK, ServicesOK
<1>8. ASSUME NEW p \in Procs, Unlink(p) PROVE CallsOK' /\ FilesOK' /\ ServicesOK'
  BY <1>0, <1>8, ThrowType, RemoveLockType DEF Unlink, ServicesOK
<1>9. ASSUME NEW p \in Procs, Release(p) PROVE CallsOK' /\ FilesOK' /\ ServicesOK'
  <2>1. CallsOK'
    BY <1>9, StageType DEF Release, Stages, Settled, Running
  <2> QED BY <1>0, <1>9, <2>1, RemoveLockType DEF Release, ServicesOK
<1>10. ASSUME NEW p \in Procs, DeadlinePasses(p) PROVE CallsOK' /\ FilesOK' /\ ServicesOK'
  <2>1. CallsOK'
    BY <1>10 DEF DeadlinePasses, CallsOK, CallType
  <2> QED BY <1>10, <2>1 DEF DeadlinePasses, FilesOK, ServicesOK
<1>11. ASSUME NEW p \in Procs, McpEnds(p) PROVE CallsOK' /\ FilesOK' /\ ServicesOK'
  <2>1. CallsOK'
    BY <1>11, StageType DEF McpEnds, Stages, Settled
  <2> QED BY <1>11, <2>1, SupervisorAssumption DEF McpEnds, FilesOK, ServicesOK
<1>12. ASSUME NEW p \in Procs, NEW s \in Services, ServiceStarts(p, s)
       PROVE  CallsOK' /\ FilesOK' /\ ServicesOK'
  <2>1. CallsOK' /\ FilesOK'
    BY <1>12 DEF ServiceStarts, CallsOK, FilesOK
  <2>2. child' \in [Procs -> [Services -> ChildStates]]
    BY <1>12 DEF ServiceStarts, ServicesOK, ChildStates
  <2>3. port' \in [Services -> Procs \cup {Foreign, NoOne}]
    BY <1>12 DEF ServiceStarts, ServicesOK
  <2> QED BY <2>1, <2>2, <2>3 DEF ServicesOK
<1>13. ASSUME NEW p \in Procs, NEW s \in Services, ServiceDies(p, s)
       PROVE  CallsOK' /\ FilesOK' /\ ServicesOK'
  BY <1>13, SupervisorAssumption DEF ServiceDies, CallsOK, FilesOK, ServicesOK, ChildStates
<1>14. ASSUME NEW s \in Services, LockAges(s) PROVE CallsOK' /\ FilesOK' /\ ServicesOK'
  BY <1>14 DEF LockAges, CallsOK, FilesOK, FileType, ServicesOK
<1>15. ASSUME NEW s \in Services, ForeignLeaves(s) PROVE CallsOK' /\ FilesOK' /\ ServicesOK'
  BY <1>15, SupervisorAssumption DEF ForeignLeaves, CallsOK, FilesOK, ServicesOK
<1>16. ASSUME NEW p \in Procs, LockFails(p) PROVE CallsOK' /\ FilesOK' /\ ServicesOK'
  <2>1. CallsOK'
    BY <1>16, StageType DEF LockFails, Stages, Settled
  <2> QED BY <1>16, <2>1, SupervisorAssumption DEF LockFails, FilesOK, ServicesOK
<1>17. CASE UNCHANGED supervisorVars
  BY <1>17 DEF supervisorVars, CallsOK, FilesOK, ServicesOK
<1> QED
  BY <1>1, <1>2, <1>3, <1>4, <1>5, <1>6, <1>7, <1>8, <1>9, <1>10, <1>11, <1>12, <1>13,
     <1>14, <1>15, <1>16, <1>17 DEF SupervisorNext, EnsureStack

\* For any number of processes, the supervisor's locks, calls, children and
\* ports keep their types, and only a winner writes, spawns and releases.
THEOREM SupervisorTypeCorrect == SupervisorSpec => []SupervisorTypeOK
BY SupervisorInitType, StepType, PTL DEF SupervisorSpec

----------------------------------------------------------------------------
(* One winner per lock file                                                *)

LEMMA WinnersFinite == \A s \in Services : IsFiniteSet(Winners(s))
<1> SUFFICES ASSUME NEW s \in Services PROVE IsFiniteSet(Winners(s))
  OBVIOUS
<1>1. Winners(s) \subseteq Procs
  BY DEF Winners, Spawners
<1> QED BY <1>1, FS_Subset, SupervisorAssumption

\* A step that makes no winner and removes no file.
LEMMA NoNewWinner ==
    ASSUME SupervisorTypeOK, OneWinnerPerFile, UNCHANGED unlinks,
           \A s \in Services : Winners(s)' \subseteq Winners(s),
           \A s \in Services : lock[s] # NoLock => lock'[s] # NoLock
    PROVE  OneWinnerPerFile'
<1> SUFFICES ASSUME NEW s \in Services
             PROVE  Cardinality(Winners(s)') <= unlinks'[s] + Present(s)'
  BY DEF OneWinnerPerFile
<1>1. /\ IsFiniteSet(Winners(s)') /\ Cardinality(Winners(s)') <= Cardinality(Winners(s))
  BY WinnersFinite, FS_Subset
<1>2. Cardinality(Winners(s)') \in Nat /\ Cardinality(Winners(s)) \in Nat
  BY <1>1, WinnersFinite, FS_CardinalityType
<1>3. unlinks[s] \in Nat /\ Present(s) <= Present(s)' /\ Present(s) \in Nat /\ Present(s)' \in Nat
  BY DEF SupervisorTypeOK, Present
<1> QED BY <1>1, <1>2, <1>3 DEF OneWinnerPerFile

\* A step of p that ends in no winner's stage and spawns nothing.
LEMMA LeavesWinners ==
    ASSUME SupervisorTypeOK, NEW p \in Procs, UNCHANGED child,
           \A q \in Procs \ {p} : call'[q] = call[q],
           call'[p].stage \notin {"write", "spawn"}
    PROVE  \A s \in Services : Winners(s)' \subseteq Winners(s)
BY DEF Winners, Spawners

LEMMA GotoLeaves ==
    ASSUME SupervisorTypeOK, NEW p \in Procs, UNCHANGED child, NEW st, Goto(p, st),
           st \notin {"write", "spawn"}
    PROVE  \A s \in Services : Winners(s)' \subseteq Winners(s)
<1>1. call' = [call EXCEPT ![p] = [call[p] EXCEPT !.stage = st]] /\ call[p] \in CallType
  BY DEF Goto, SupervisorTypeOK, CallType
<1>2. \A q \in Procs \ {p} : call'[q] = call[q]
  BY <1>1 DEF SupervisorTypeOK
<1>3. call'[p].stage = st
  BY <1>1 DEF SupervisorTypeOK, CallType
<1> QED BY <1>2, <1>3, LeavesWinners

LEMMA ThrowLeaves ==
    ASSUME SupervisorTypeOK, NEW p \in Procs, UNCHANGED child, Throw(p)
    PROVE  \A s \in Services : Winners(s)' \subseteq Winners(s)
BY GotoLeaves DEF Throw

LEMMA ReadyLeaves ==
    ASSUME SupervisorTypeOK, NEW p \in Procs, UNCHANGED child, ServiceReady(p)
    PROVE  \A s \in Services : Winners(s)' \subseteq Winners(s)
<1> DEFINE new == IF call[p].service = "broker" /\ p \notin WebOptOut
                  THEN [stage |-> "probe", service |-> "web", winner |-> FALSE, late |-> FALSE]
                  ELSE [call[p] EXCEPT !.stage = "resolved"]
<1>1. new.stage \in {"probe", "resolved"}
  <2>1. call[p] \in CallType
    BY DEF SupervisorTypeOK, CallType
  <2> QED BY <2>1 DEF CallType
<1>2. call' = [call EXCEPT ![p] = new]
  BY DEF ServiceReady
<1> HIDE DEF new
<1>3. \A q \in Procs : call'[q] = IF q = p THEN new ELSE call[q]
  BY <1>2 DEF SupervisorTypeOK
<1> QED BY <1>1, <1>3, LeavesWinners

\* A lock file goes: one more unlink pays for it.
LEMMA RemovalPays ==
    ASSUME SupervisorTypeOK, OneWinnerPerFile, NEW t \in Services, RemoveLock(t),
           \A s \in Services : Winners(s)' \subseteq Winners(s)
    PROVE  OneWinnerPerFile'
<1> SUFFICES ASSUME NEW s \in Services
             PROVE  Cardinality(Winners(s)') <= unlinks'[s] + Present(s)'
  BY DEF OneWinnerPerFile
<1>1. /\ IsFiniteSet(Winners(s)') /\ Cardinality(Winners(s)') <= Cardinality(Winners(s))
  BY WinnersFinite, FS_Subset
<1>2. Cardinality(Winners(s)') \in Nat /\ Cardinality(Winners(s)) \in Nat
  BY <1>1, WinnersFinite, FS_CardinalityType
<1>3. unlinks[s] + Present(s) = unlinks'[s] + Present(s)' /\ unlinks[s] \in Nat
  BY DEF SupervisorTypeOK, Present, RemoveLock
<1>4. unlinks[s] + Present(s) \in Nat
  BY <1>3 DEF Present
<1> QED BY <1>1, <1>2, <1>3, <1>4 DEF OneWinnerPerFile

\* A lock file is created: it pays for its creator.
LEMMA CreationPays ==
    ASSUME SupervisorTypeOK, OneWinnerPerFile, NEW p \in Procs, AcquireLock(p)
    PROVE  OneWinnerPerFile'
<1> DEFINE t == call[p].service
<1>0. call[p] \in CallType /\ t \in Services
  BY DEF SupervisorTypeOK, CallType
<1>1. CASE lock[t] # NoLock
  <2>1. Goto(p, "poll") /\ UNCHANGED <<lock, unlinks, child>>
    BY <1>1 DEF AcquireLock, serviceVars
  <2> QED BY <2>1, GotoLeaves, NoNewWinner
<1>2. CASE lock[t] = NoLock
  <2>1. /\ lock' = [lock EXCEPT ![t] = LockFile(p)]
        /\ call' = [call EXCEPT ![p] = [call[p] EXCEPT !.stage = "write", !.winner = TRUE]]
        /\ UNCHANGED <<unlinks, child>>
    BY <1>2 DEF AcquireLock, serviceVars
  <2>2. LockFile(p) # NoLock
    <3>1. LockFile(p) \in [by : Procs, written : BOOLEAN, old : BOOLEAN]
      BY DEF LockFile
    <3> QED BY <3>1, SupervisorAssumption
  <2> SUFFICES ASSUME NEW s \in Services
               PROVE  Cardinality(Winners(s)') <= unlinks'[s] + Present(s)'
    BY DEF OneWinnerPerFile
  <2>3. \A q \in Procs \ {p} : call'[q] = call[q]
    BY <2>1 DEF SupervisorTypeOK
  <2>4. call'[p].service = t /\ call'[p].stage = "write"
    BY <1>0, <2>1 DEF SupervisorTypeOK, CallType
  <2>5. CASE s = t
    <3>1. Winners(s)' \subseteq Winners(s) \cup {p}
      BY <2>1, <2>3 DEF Winners, Spawners
    <3>2. /\ IsFiniteSet(Winners(s) \cup {p})
          /\ Cardinality(Winners(s) \cup {p}) <= Cardinality(Winners(s)) + 1
      <4>1. IsFiniteSet(Winners(s)) /\ Cardinality(Winners(s)) \in Nat
        BY WinnersFinite, FS_CardinalityType
      <4> HIDE DEF Winners
      <4> QED BY <4>1, FS_AddElement
    <3>3. Cardinality(Winners(s)') <= Cardinality(Winners(s) \cup {p})
          /\ IsFiniteSet(Winners(s)')
      BY <3>1, <3>2, FS_Subset
    <3>4. /\ Cardinality(Winners(s)') \in Nat /\ Cardinality(Winners(s)) \in Nat
          /\ Cardinality(Winners(s) \cup {p}) \in Nat
      BY <3>2, <3>3, WinnersFinite, FS_CardinalityType
    <3>5. Present(s) = 0 /\ Present(s)' = 1 /\ unlinks'[s] = unlinks[s] /\ unlinks[s] \in Nat
      BY <1>2, <2>1, <2>2, <2>5 DEF Present, SupervisorTypeOK
    <3> QED BY <3>2, <3>3, <3>4, <3>5 DEF OneWinnerPerFile
  <2>6. CASE s # t
    <3>1. Winners(s)' \subseteq Winners(s)
      BY <2>1, <2>3, <2>4, <2>6 DEF Winners, Spawners
    <3>2. /\ IsFiniteSet(Winners(s)') /\ Cardinality(Winners(s)') <= Cardinality(Winners(s))
      BY <3>1, WinnersFinite, FS_Subset
    <3>3. Cardinality(Winners(s)') \in Nat /\ Cardinality(Winners(s)) \in Nat
      BY <3>2, WinnersFinite, FS_CardinalityType
    <3>4. Present(s)' = Present(s) /\ unlinks'[s] = unlinks[s] /\ unlinks[s] \in Nat
      BY <2>1, <2>6 DEF Present, SupervisorTypeOK
    <3>5. Present(s) \in Nat
      BY DEF Present
    <3> QED BY <3>2, <3>3, <3>4, <3>5 DEF OneWinnerPerFile
  <2> QED BY <2>5, <2>6
<1> QED BY <1>1, <1>2

LEMMA InitWinners == SupervisorInit => OneWinnerPerFile
<1> SUFFICES ASSUME SupervisorInit, NEW s \in Services
             PROVE  Cardinality(Winners(s)) <= unlinks[s] + Present(s)
  BY DEF OneWinnerPerFile
<1>1. Winners(s) = {}
  BY DEF SupervisorInit, Winners, Spawners
<1>2. unlinks[s] = 0 /\ Present(s) \in Nat
  BY DEF SupervisorInit, Present
<1> QED BY <1>1, <1>2, FS_EmptySet

LEMMA StepWinners ==
    SupervisorTypeOK /\ OneWinnerPerFile /\ [SupervisorNext]_supervisorVars => OneWinnerPerFile'
<1> SUFFICES ASSUME SupervisorTypeOK, OneWinnerPerFile, [SupervisorNext]_supervisorVars
             PROVE  OneWinnerPerFile'
  OBVIOUS
<1> USE DEF serviceVars
<1>0. \A p \in Procs : call[p] \in CallType
  BY DEF SupervisorTypeOK, CallType
<1>1. ASSUME NEW p \in Procs, Call(p) \/ LockFails(p) \/ McpEnds(p) PROVE OneWinnerPerFile'
  <2>1. UNCHANGED <<child, unlinks, lock>>
    BY <1>1 DEF Call, LockFails, McpEnds
  <2>2. \A s \in Services : Winners(s)' \subseteq Winners(s)
    BY <1>1, <2>1, GotoLeaves DEF Call, LockFails, McpEnds
  <2> QED BY <2>1, <2>2, NoNewWinner
<1>2. ASSUME NEW p \in Procs, Probe(p) \/ Poll(p) \/ CheckStale(p) PROVE OneWinnerPerFile'
  <2>1. UNCHANGED <<child, unlinks, lock>>
    BY <1>2 DEF Probe, Poll, CheckStale
  <2>2. \/ ServiceReady(p) \/ Throw(p)
        \/ \E st \in {"acquire", "stale", "unlink", "poll"} : Goto(p, st)
    BY <1>2 DEF Probe, Poll, CheckStale
  <2>3. \A s \in Services : Winners(s)' \subseteq Winners(s)
    BY <2>1, <2>2, GotoLeaves, ThrowLeaves, ReadyLeaves
  <2> QED BY <2>1, <2>3, NoNewWinner
<1>3. ASSUME NEW p \in Procs, AcquireLock(p) PROVE OneWinnerPerFile'
  BY <1>3, CreationPays
<1>4. ASSUME NEW p \in Procs, WritePid(p) PROVE OneWinnerPerFile'
  <2>1. UNCHANGED <<child, unlinks>> /\ call[p].stage = "write"
        /\ call' = [call EXCEPT ![p] = [call[p] EXCEPT !.stage = "spawn"]]
    BY <1>4 DEF WritePid, Goto, At
  <2>2. \A s \in Services : Winners(s)' \subseteq Winners(s)
    BY <1>0, <2>1 DEF Winners, Spawners, SupervisorTypeOK, CallType
  <2>3. ASSUME NEW s \in Services, lock[s] # NoLock PROVE lock'[s] # NoLock
    <3>1. lock'[s] = lock[s] \/ lock'[s] = [lock[s] EXCEPT !.written = TRUE, !.old = FALSE]
      BY <1>4, <2>3 DEF WritePid, SupervisorTypeOK
    <3>2. lock[s] \in [by : Procs, written : BOOLEAN, old : BOOLEAN]
      BY <2>3 DEF SupervisorTypeOK
    <3>3. [lock[s] EXCEPT !.written = TRUE, !.old = FALSE]
             \in [by : Procs, written : BOOLEAN, old : BOOLEAN]
      BY <3>2
    <3> QED BY <2>3, <3>1, <3>3, SupervisorAssumption
  <2> QED BY <2>1, <2>2, <2>3, NoNewWinner
<1>5. ASSUME NEW p \in Procs, Spawn(p) PROVE OneWinnerPerFile'
  <2>1. UNCHANGED <<unlinks, lock>> /\ call[p].stage = "spawn"
        /\ call' = [call EXCEPT ![p] = [call[p] EXCEPT !.stage = "poll"]]
        /\ child' = [child EXCEPT ![p][call[p].service] = "starting"]
    BY <1>5 DEF Spawn, Goto, At
  <2>2. \A q \in Procs \ {p} : call'[q] = call[q] /\ child'[q] = child[q]
    BY <2>1 DEF SupervisorTypeOK
  <2>3. \A s \in Services : s # call[p].service => child'[p][s] = child[p][s]
    BY <2>1 DEF SupervisorTypeOK
  <2>4. call'[p].stage = "poll"
    BY <1>0, <2>1 DEF SupervisorTypeOK, CallType
  <2>5. ASSUME NEW s \in Services PROVE Winners(s)' \subseteq Winners(s)
    <3>1. CASE s = call[p].service
      <4>1. p \in Winners(s)
        BY <2>1, <3>1 DEF Winners
      <4> QED BY <2>2, <4>1 DEF Winners, Spawners
    <3>2. CASE s # call[p].service
      BY <2>2, <2>3, <2>4, <3>2 DEF Winners, Spawners
    <3> QED BY <3>1, <3>2
  <2> QED BY <2>1, <2>5, NoNewWinner
<1>6. ASSUME NEW p \in Procs, Unlink(p) \/ Release(p) PROVE OneWinnerPerFile'
  <2>1. UNCHANGED child /\ RemoveLock(call[p].service) /\ call[p].service \in Services
    BY <1>0, <1>6 DEF Unlink, Release, CallType
  <2>2. \A s \in Services : Winners(s)' \subseteq Winners(s)
    BY <1>6, <2>1, GotoLeaves, ThrowLeaves DEF Unlink, Release
  <2> QED BY <2>1, <2>2, RemovalPays
<1>7. ASSUME NEW p \in Procs, DeadlinePasses(p) PROVE OneWinnerPerFile'
  <2>1. UNCHANGED <<child, unlinks, lock>>
        /\ call' = [call EXCEPT ![p] = [call[p] EXCEPT !.late = TRUE]]
    BY <1>7 DEF DeadlinePasses
  <2>2. \A s \in Services : Winners(s)' \subseteq Winners(s)
    BY <1>0, <2>1 DEF Winners, Spawners, SupervisorTypeOK, CallType
  <2> QED BY <2>1, <2>2, NoNewWinner
<1>8. ASSUME NEW p \in Procs, NEW t \in Services, ServiceStarts(p, t) \/ ServiceDies(p, t)
      PROVE  OneWinnerPerFile'
  <2>1. /\ UNCHANGED <<unlinks, lock, call>>
        /\ child[p][t] # "none"
        /\ \E c : child' = [child EXCEPT ![p][t] = c]
    BY <1>8 DEF ServiceStarts, ServiceDies
  <2>2. \A q \in Procs, s \in Services : child'[q][s] # "none" => child[q][s] # "none"
    BY <2>1 DEF SupervisorTypeOK
  <2>3. \A s \in Services : Winners(s)' \subseteq Winners(s)
    BY <2>1, <2>2 DEF Winners, Spawners
  <2> QED BY <2>1, <2>3, NoNewWinner
<1>9. ASSUME NEW t \in Services, LockAges(t) PROVE OneWinnerPerFile'
  <2>1. UNCHANGED <<child, unlinks, call>> /\ lock[t] # NoLock
        /\ lock' = [lock EXCEPT ![t] = [lock[t] EXCEPT !.old = TRUE]]
    BY <1>9 DEF LockAges
  <2>2. lock[t] \in [by : Procs, written : BOOLEAN, old : BOOLEAN]
    BY <2>1 DEF SupervisorTypeOK
  <2>3. [lock[t] EXCEPT !.old = TRUE] \in [by : Procs, written : BOOLEAN, old : BOOLEAN]
    BY <2>2
  <2>4. \A s \in Services : lock[s] # NoLock => lock'[s] # NoLock
    BY <2>1, <2>3, SupervisorAssumption DEF SupervisorTypeOK
  <2>5. \A s \in Services : Winners(s)' \subseteq Winners(s)
    BY <2>1 DEF Winners, Spawners
  <2> QED BY <2>1, <2>4, <2>5, NoNewWinner
<1>10. ASSUME UNCHANGED supervisorVars \/ \E t \in Services : ForeignLeaves(t)
       PROVE  OneWinnerPerFile'
  <2>1. UNCHANGED <<child, unlinks, lock, call>>
    BY <1>10 DEF ForeignLeaves, supervisorVars
  <2>2. \A s \in Services : Winners(s)' \subseteq Winners(s)
    BY <2>1 DEF Winners, Spawners
  <2> QED BY <2>1, <2>2, NoNewWinner
<1> QED
  BY <1>1, <1>2, <1>3, <1>4, <1>5, <1>6, <1>7, <1>8, <1>9, <1>10
     DEF SupervisorNext, EnsureStack

\* However many MCP processes race, crash and reclaim each other's locks, a
\* service is spawned at most once more than its lock file was removed: the
\* O_EXCL lock file serialises the spawns (lockfile.ts, ensure-stack.ts).
THEOREM LockSerialisesSpawns == SupervisorSpec => []SpawnsFollowUnlinks
<1>1. SupervisorInit => SupervisorIInv
  BY SupervisorInitType, InitWinners DEF SupervisorIInv
<1>2. SupervisorIInv /\ [SupervisorNext]_supervisorVars => SupervisorIInv'
  BY StepType, StepWinners DEF SupervisorIInv
<1>3. SupervisorIInv => SpawnsFollowUnlinks
  <2> SUFFICES ASSUME SupervisorIInv, NEW s \in Services
               PROVE  Cardinality(Spawners(s)) <= 1 + unlinks[s]
    BY DEF SpawnsFollowUnlinks
  <2>1. /\ IsFiniteSet(Spawners(s))
        /\ Cardinality(Spawners(s)) <= Cardinality(Winners(s))
    BY WinnersFinite, FS_Subset DEF Winners
  <2>2. Cardinality(Spawners(s)) \in Nat /\ Cardinality(Winners(s)) \in Nat
    BY <2>1, WinnersFinite, FS_CardinalityType
  <2>3. /\ Cardinality(Winners(s)) <= unlinks[s] + Present(s)
        /\ unlinks[s] \in Nat /\ Present(s) \in {0, 1}
    BY DEF SupervisorIInv, OneWinnerPerFile, SupervisorTypeOK, Present
  <2> QED BY <2>1, <2>2, <2>3
<1> QED BY <1>1, <1>2, <1>3, PTL DEF SupervisorSpec

----------------------------------------------------------------------------
(* A failed winner leaves no lock                                          *)

\* p created the lock file that s has now.
Holder(p, s) == lock[s] # NoLock /\ lock[s].by = p

\* A call that may hold the lock of the service it is at.
Holding(c) ==
    \/ c.stage \in {"resolved", "aborted", "dead"}
    \/ c.winner /\ c.stage \in {"write", "spawn", "poll", "stale", "unlink", "release"}

\* Who holds a lock won it, and has not failed with that service.
HoldersWon ==
    \A p \in Procs, s \in Services : Holder(p, s) =>
        /\ call[p].service = s => Holding(call[p])
        /\ s = "web" => call[p].service = "web"

\* A step that gives nobody a lock and keeps p's call fit to hold one.
LEMMA StaysHolding ==
    ASSUME SupervisorTypeOK, HoldersWon, NEW p \in Procs, NEW c \in CallType,
           call' = [call EXCEPT ![p] = c],
           c.service = call[p].service, Holding(call[p]) => Holding(c),
           \A q \in Procs, s \in Services : Holder(q, s)' => Holder(q, s)
    PROVE  HoldersWon'
<1>1. \A q \in Procs : call'[q] = IF q = p THEN c ELSE call[q]
  BY DEF SupervisorTypeOK
<1> SUFFICES ASSUME NEW q \in Procs, NEW s \in Services, Holder(q, s)'
             PROVE  /\ call'[q].service = s => Holding(call'[q])
                    /\ s = "web" => call'[q].service = "web"
  BY DEF HoldersWon, Holding
<1>2. Holder(q, s)
  OBVIOUS
<1>3. /\ call[q].service = s => Holding(call[q])
      /\ s = "web" => call[q].service = "web"
  BY <1>2 DEF HoldersWon
<1> QED BY <1>1, <1>3

LEMMA GotoStaysHolding ==
    ASSUME SupervisorTypeOK, HoldersWon, NEW p \in Procs, NEW st \in Stages, Goto(p, st),
           Holding(call[p]) => Holding([call[p] EXCEPT !.stage = st]),
           \A q \in Procs, s \in Services : Holder(q, s)' => Holder(q, s)
    PROVE  HoldersWon'
<1> DEFINE c == [call[p] EXCEPT !.stage = st]
<1>1. c \in CallType /\ c.service = call[p].service
  BY DEF SupervisorTypeOK, CallType
<1>2. call' = [call EXCEPT ![p] = c]
  BY DEF Goto
<1> QED BY <1>1, <1>2, StaysHolding

LEMMA ThrowStaysHolding ==
    ASSUME SupervisorTypeOK, HoldersWon, NEW p \in Procs, Throw(p),
           call[p].stage \in {"probe", "poll", "stale", "unlink"},
           \A q \in Procs, s \in Services : Holder(q, s)' => Holder(q, s)
    PROVE  HoldersWon'
<1> DEFINE st == IF call[p].winner THEN "release" ELSE "rejected"
<1>1. st \in Stages /\ Goto(p, st)
  BY DEF Throw, Stages, Settled, Running
<1>2. Holding(call[p]) => Holding([call[p] EXCEPT !.stage = st])
  BY DEF Holding, SupervisorTypeOK, CallType
<1> HIDE DEF st
<1> QED BY <1>1, <1>2, GotoStaysHolding

LEMMA ReadyStaysHolding ==
    ASSUME SupervisorTypeOK, HoldersWon, NEW p \in Procs, ServiceReady(p),
           \A q \in Procs, s \in Services : Holder(q, s)' => Holder(q, s)
    PROVE  HoldersWon'
<1>0. call[p] \in CallType
  BY DEF SupervisorTypeOK, CallType
<1>1. CASE call[p].service = "broker" /\ p \notin WebOptOut
  <2>1. /\ call'[p].service = "web"
        /\ \A q \in Procs \ {p} : call'[q] = call[q]
    BY <1>1 DEF ServiceReady, SupervisorTypeOK
  <2>2. ~Holder(p, "web")
    BY <1>1, ServicesDistinct DEF HoldersWon
  <2> SUFFICES ASSUME NEW q \in Procs, NEW s \in Services, Holder(q, s)'
               PROVE  /\ call'[q].service = s => Holding(call'[q])
                      /\ s = "web" => call'[q].service = "web"
    BY DEF HoldersWon, Holding
  <2>3. Holder(q, s)
    OBVIOUS
  <2>4. CASE q = p
    BY <2>1, <2>2, <2>3, <2>4
  <2>5. CASE q # p
    BY <2>1, <2>3, <2>5 DEF HoldersWon
  <2> QED BY <2>4, <2>5
<1>2. CASE ~(call[p].service = "broker" /\ p \notin WebOptOut)
  <2>1. Goto(p, "resolved")
    BY <1>2 DEF ServiceReady, Goto
  <2>2. Holding([call[p] EXCEPT !.stage = "resolved"])
    BY <1>0 DEF Holding, CallType
  <2> QED BY <2>1, <2>2, GotoStaysHolding DEF Stages, Settled
<1> QED BY <1>1, <1>2

LEMMA StepHolders ==
    SupervisorTypeOK /\ HoldersWon /\ [SupervisorNext]_supervisorVars => HoldersWon'
<1> SUFFICES ASSUME SupervisorTypeOK, HoldersWon, [SupervisorNext]_supervisorVars
             PROVE  HoldersWon'
  OBVIOUS
<1> USE DEF serviceVars
<1>0. \A p \in Procs : call[p] \in CallType
  BY DEF SupervisorTypeOK, CallType
<1>k. ASSUME UNCHANGED lock
      PROVE  \A q \in Procs, s \in Services : Holder(q, s)' => Holder(q, s)
  BY <1>k DEF Holder
<1>1. ASSUME NEW p \in Procs, Call(p) \/ LockFails(p) \/ McpEnds(p) PROVE HoldersWon'
  <2>1. UNCHANGED lock
    BY <1>1 DEF Call, LockFails, McpEnds
  <2>2. CASE Call(p)
    <3>1. Goto(p, "probe") /\ ~Holding(call[p])
      BY <2>2 DEF Call, At, Holding
    <3> QED BY <1>k, <2>1, <3>1, GotoStaysHolding DEF Stages, Settled, Running
  <2>3. CASE McpEnds(p)
    <3>1. Goto(p, "dead") /\ Holding([call[p] EXCEPT !.stage = "dead"])
      BY <1>0, <2>3 DEF McpEnds, Holding, CallType
    <3> QED BY <1>k, <2>1, <3>1, GotoStaysHolding DEF Stages, Settled
  <2>4. CASE LockFails(p)
    <3>1. Goto(p, "aborted") /\ Holding([call[p] EXCEPT !.stage = "aborted"])
      BY <1>0, <2>4 DEF LockFails, Holding, CallType
    <3> QED BY <1>k, <2>1, <3>1, GotoStaysHolding DEF Stages, Settled
  <2> QED BY <1>1, <2>2, <2>3, <2>4
<1>2. ASSUME NEW p \in Procs, Probe(p) \/ Poll(p) \/ CheckStale(p) PROVE HoldersWon'
  <2>1. UNCHANGED lock /\ call[p].stage \in {"probe", "poll", "stale"}
    BY <1>2 DEF Probe, Poll, CheckStale, At
  <2>2. CASE ServiceReady(p)
    BY <1>k, <2>1, <2>2, ReadyStaysHolding
  <2>3. CASE Throw(p)
    BY <1>k, <2>1, <2>3, ThrowStaysHolding
  <2>4. CASE Goto(p, "acquire") /\ call[p].stage = "probe"
    <3>1. ~Holding(call[p])
      BY <2>4 DEF Holding
    <3> QED BY <1>k, <2>1, <2>4, <3>1, GotoStaysHolding DEF Stages, Settled, Running
  <2>5. ASSUME NEW st \in {"stale", "unlink", "poll"}, Goto(p, st),
               call[p].stage \in {"poll", "stale"}
        PROVE  HoldersWon'
    <3>1. Holding(call[p]) => Holding([call[p] EXCEPT !.stage = st])
      BY <1>0, <2>5 DEF Holding, CallType
    <3> QED BY <1>k, <2>1, <2>5, <3>1, GotoStaysHolding DEF Stages, Settled, Running
  <2> QED BY <1>2, <2>2, <2>3, <2>4, <2>5 DEF Probe, Poll, CheckStale, At
<1>3. ASSUME NEW p \in Procs, AcquireLock(p) PROVE HoldersWon'
  <2> DEFINE t == call[p].service
  <2>0. t \in Services /\ ~Holding(call[p])
    BY <1>0, <1>3 DEF AcquireLock, At, CallType, Holding
  <2>1. CASE lock[t] # NoLock
    <3>1. Goto(p, "poll") /\ UNCHANGED lock
      BY <1>3, <2>1 DEF AcquireLock
    <3> QED BY <1>k, <2>0, <3>1, GotoStaysHolding DEF Stages, Settled, Running
  <2>2. CASE lock[t] = NoLock
    <3>1. /\ lock' = [lock EXCEPT ![t] = LockFile(p)]
          /\ call' = [call EXCEPT ![p] = [call[p] EXCEPT !.stage = "write", !.winner = TRUE]]
      BY <1>3, <2>2 DEF AcquireLock
    <3>2. /\ call'[p].service = t /\ call'[p].winner /\ call'[p].stage = "write"
          /\ \A q \in Procs \ {p} : call'[q] = call[q]
      BY <1>0, <3>1 DEF SupervisorTypeOK, CallType
    <3>3. Holding(call'[p])
      BY <3>2 DEF Holding
    <3> SUFFICES ASSUME NEW q \in Procs, NEW s \in Services, Holder(q, s)'
                 PROVE  /\ call'[q].service = s => Holding(call'[q])
                        /\ s = "web" => call'[q].service = "web"
      BY DEF HoldersWon, Holding
    <3>4. q # p => Holder(q, s)
      BY <2>0, <3>1 DEF Holder, SupervisorTypeOK, LockFile
    <3>5. q = p => s = t \/ Holder(q, s)
      BY <2>0, <3>1 DEF Holder, SupervisorTypeOK
    <3> QED BY <2>0, <3>2, <3>3, <3>4, <3>5 DEF HoldersWon
  <2> QED BY <2>1, <2>2
<1>4. ASSUME NEW p \in Procs, WritePid(p) PROVE HoldersWon'
  <2>1. \A q \in Procs, s \in Services : Holder(q, s)' => Holder(q, s)
    BY <1>0, <1>4 DEF WritePid, Holder, SupervisorTypeOK, CallType
  <2>2. Goto(p, "spawn") /\ (Holding(call[p]) => Holding([call[p] EXCEPT !.stage = "spawn"]))
    BY <1>0, <1>4 DEF WritePid, At, Holding, CallType
  <2> QED BY <2>1, <2>2, GotoStaysHolding DEF Stages, Settled, Running
<1>5. ASSUME NEW p \in Procs, Spawn(p) PROVE HoldersWon'
  <2>1. UNCHANGED lock
    BY <1>5 DEF Spawn
  <2>2. Goto(p, "poll") /\ (Holding(call[p]) => Holding([call[p] EXCEPT !.stage = "poll"]))
    BY <1>0, <1>5 DEF Spawn, At, Holding, CallType
  <2> QED BY <1>k, <2>1, <2>2, GotoStaysHolding DEF Stages, Settled, Running
<1>6. ASSUME NEW p \in Procs, Unlink(p) PROVE HoldersWon'
  <2>1. \A q \in Procs, s \in Services : Holder(q, s)' => Holder(q, s)
    BY <1>6 DEF Unlink, RemoveLock, Holder, SupervisorTypeOK
  <2> QED BY <1>6, <2>1, ThrowStaysHolding DEF Unlink, At
<1>7. ASSUME NEW p \in Procs, Release(p) PROVE HoldersWon'
  <2> DEFINE t == call[p].service
  <2>1. \A q \in Procs, s \in Services : Holder(q, s)' => Holder(q, s) /\ s # t
    BY <1>0, <1>7 DEF Release, RemoveLock, Holder, SupervisorTypeOK, CallType
  <2>2. /\ call'[p].service = t
        /\ \A q \in Procs \ {p} : call'[q] = call[q]
    BY <1>0, <1>7 DEF Release, Goto, SupervisorTypeOK, CallType
  <2> SUFFICES ASSUME NEW q \in Procs, NEW s \in Services, Holder(q, s)'
               PROVE  /\ call'[q].service = s => Holding(call'[q])
                      /\ s = "web" => call'[q].service = "web"
    BY DEF HoldersWon, Holding
  <2>3. Holder(q, s) /\ s # t
    BY <2>1
  <2>4. CASE q = p
    BY <2>2, <2>3, <2>4 DEF HoldersWon
  <2>5. CASE q # p
    BY <2>2, <2>3, <2>5 DEF HoldersWon
  <2> QED BY <2>4, <2>5
<1>8. ASSUME NEW p \in Procs, DeadlinePasses(p) PROVE HoldersWon'
  <2> DEFINE c == [call[p] EXCEPT !.late = TRUE]
  <2>1. UNCHANGED lock /\ call' = [call EXCEPT ![p] = c]
    BY <1>0, <1>8 DEF DeadlinePasses, SupervisorTypeOK, CallType
  <2>2. c \in CallType /\ c.service = call[p].service /\ (Holding(call[p]) => Holding(c))
    BY <1>0 DEF CallType, Holding
  <2> QED BY <1>k, <2>1, <2>2, StaysHolding
<1>9. ASSUME NEW t \in Services, LockAges(t) PROVE HoldersWon'
  <2>1. UNCHANGED call /\ lock[t] # NoLock
        /\ lock' = [lock EXCEPT ![t] = [lock[t] EXCEPT !.old = TRUE]]
    BY <1>9 DEF LockAges
  <2>2. \A q \in Procs, s \in Services : Holder(q, s)' => Holder(q, s)
    BY <2>1 DEF Holder, SupervisorTypeOK
  <2> QED BY <2>1, <2>2 DEF HoldersWon, Holding
<1>10. ASSUME \/ UNCHANGED supervisorVars
              \/ \E t \in Services : ForeignLeaves(t)
              \/ \E p \in Procs, t \in Services : ServiceStarts(p, t) \/ ServiceDies(p, t)
       PROVE  HoldersWon'
  <2>1. UNCHANGED <<lock, call>>
    BY <1>10 DEF ForeignLeaves, ServiceStarts, ServiceDies, supervisorVars
  <2> QED BY <2>1 DEF HoldersWon, Holder, Holding
<1> QED
  BY <1>1, <1>2, <1>3, <1>4, <1>5, <1>6, <1>7, <1>8, <1>9, <1>10
     DEF SupervisorNext, EnsureStack

\* A process whose bootstrap failed left no lock file of its own behind for
\* the service it failed with (the catch blocks of ensureBroker and ensureWeb).
THEOREM FailureFreesLock == SupervisorSpec => []FailedWinnerReleases
<1>1. SupervisorInit => HoldersWon
  BY DEF SupervisorInit, HoldersWon, Holder
<1>2. SupervisorTypeOK /\ HoldersWon => FailedWinnerReleases
  BY DEF SupervisorTypeOK, HoldersWon, Holder, Holding, FailedWinnerReleases, At
<1> QED BY SupervisorInitType, StepType, StepHolders, <1>1, <1>2, PTL DEF SupervisorSpec

----------------------------------------------------------------------------
(* A stack that was reported ready is up                                   *)

\* While no listener has gone: a process that went on to the web server found
\* the broker on its port, and one that was told the stack is ready found what
\* it did not opt out of.
StackFound ==
    /\ \A p \in Procs : call[p].service = "web" => p \notin WebOptOut
    /\ serviceDeaths = 0 => \A p \in Procs :
          /\ call[p].service = "web" => port["broker"] \in Procs
          /\ At(p, "resolved") => /\ port["broker"] \in Procs
                                  /\ p \notin WebOptOut => port["web"] # NoOne

\* A step of one call that reaches no new service and reports nothing.
LEMMA FoundStays ==
    ASSUME StackFound, NEW p \in Procs, NEW c, call \in [Procs -> CallType],
           call' = [call EXCEPT ![p] = c], c.service = call[p].service,
           c.stage = "resolved" => call[p].stage = "resolved",
           UNCHANGED <<port, serviceDeaths>>
    PROVE  StackFound'
<1>1. \A q \in Procs : call'[q] = IF q = p THEN c ELSE call[q]
  OBVIOUS
<1> QED BY <1>1 DEF StackFound, At

LEMMA GotoFinds ==
    ASSUME StackFound, NEW p \in Procs, NEW st, Goto(p, st), st # "resolved",
           call \in [Procs -> CallType], UNCHANGED <<port, serviceDeaths>>
    PROVE  StackFound'
<1> DEFINE c == [call[p] EXCEPT !.stage = st]
<1>1. call' = [call EXCEPT ![p] = c] /\ c.service = call[p].service /\ c.stage = st
  BY DEF Goto, CallType
<1> HIDE DEF c
<1> QED BY <1>1, FoundStays

\* ensureBroker or ensureWeb returns after a probe that was answered.
LEMMA ReadyFinds ==
    ASSUME StackFound, NEW p \in Procs, Healthy(call[p].service), ServiceReady(p),
           call \in [Procs -> CallType], UNCHANGED <<port, serviceDeaths>>
    PROVE  StackFound'
<1>1. call[p] \in CallType /\ call[p].service \in {"broker", "web"}
  BY DEF CallType, Services
<1>2. CASE call[p].service = "broker" /\ p \notin WebOptOut
  <2> DEFINE c == [stage |-> "probe", service |-> "web", winner |-> FALSE, late |-> FALSE]
  <2>1. call' = [call EXCEPT ![p] = c]
    BY <1>2 DEF ServiceReady
  <2>2. \A q \in Procs : call'[q] = IF q = p THEN c ELSE call[q]
    BY <2>1
  <2>3. port["broker"] \in Procs
    BY <1>2 DEF Healthy
  <2> QED BY <1>2, <2>2, <2>3 DEF StackFound, At
<1>3. CASE ~(call[p].service = "broker" /\ p \notin WebOptOut)
  <2> DEFINE c == [call[p] EXCEPT !.stage = "resolved"]
  <2>1. call' = [call EXCEPT ![p] = c]
    BY <1>3 DEF ServiceReady
  <2>2. c.service = call[p].service /\ c.stage = "resolved"
    BY <1>1 DEF CallType
  <2> HIDE DEF c
  <2>3. \A q \in Procs : call'[q] = IF q = p THEN c ELSE call[q]
    BY <2>1
  <2>4. serviceDeaths = 0 => /\ port["broker"] \in Procs
                             /\ p \notin WebOptOut => port["web"] # NoOne
    BY <1>1, <1>3 DEF Healthy, StackFound
  <2>5. \A q \in Procs : call'[q].service = call[q].service
    BY <2>2, <2>3
  <2>6. \A q \in Procs : call'[q].stage = "resolved" => q = p \/ call[q].stage = "resolved"
    BY <2>3
  <2> QED BY <2>4, <2>5, <2>6 DEF StackFound, At
<1> QED BY <1>2, <1>3

LEMMA StepFinds == SupervisorTypeOK /\ StackFound /\ [SupervisorNext]_supervisorVars => StackFound'
<1> SUFFICES ASSUME SupervisorTypeOK, StackFound, [SupervisorNext]_supervisorVars
             PROVE  StackFound'
  OBVIOUS
<1> USE DEF boundVars, serviceVars
<1>0. call \in [Procs -> CallType] /\ serviceDeaths \in Nat
      /\ port \in [Services -> Procs \cup {Foreign, NoOne}]
  BY SupervisorAssumption DEF SupervisorTypeOK, CallType
<1>1. ASSUME NEW p \in Procs, Call(p) \/ LockFails(p) \/ McpEnds(p) PROVE StackFound'
  BY <1>0, <1>1, GotoFinds DEF Call, LockFails, McpEnds
<1>2. ASSUME NEW p \in Procs, Probe(p) \/ Poll(p) \/ CheckStale(p) PROVE StackFound'
  <2>1. UNCHANGED <<port, serviceDeaths>>
    BY <1>2 DEF Probe, Poll, CheckStale
  <2>2. CASE Healthy(call[p].service) /\ ServiceReady(p)
    BY <1>0, <2>1, <2>2, ReadyFinds
  <2>3. CASE Throw(p)
    BY <1>0, <2>1, <2>3, GotoFinds DEF Throw
  <2>4. ASSUME NEW st \in {"acquire", "stale", "unlink", "poll"}, Goto(p, st)
        PROVE  StackFound'
    BY <1>0, <2>1, <2>4, GotoFinds
  <2>5. CASE CheckStale(p)
    <3>1. Throw(p) \/ Goto(p, "unlink") \/ Goto(p, "poll")
      BY <2>5 DEF CheckStale, Goto
    <3> QED BY <2>3, <2>4, <3>1
  <2>6. CASE Probe(p)
    BY <2>2, <2>3, <2>4, <2>6 DEF Probe
  <2>7. CASE Poll(p)
    BY <2>2, <2>3, <2>4, <2>7 DEF Poll
  <2> QED BY <1>2, <2>5, <2>6, <2>7
<1>3. ASSUME NEW p \in Procs, AcquireLock(p) PROVE StackFound'
  <2> DEFINE c == [call[p] EXCEPT !.stage = "write", !.winner = TRUE]
  <2>1. UNCHANGED <<port, serviceDeaths>>
        /\ (Goto(p, "poll") \/ call' = [call EXCEPT ![p] = c])
    BY <1>3 DEF AcquireLock
  <2>2. c.service = call[p].service /\ c.stage = "write"
    BY <1>0 DEF CallType
  <2> HIDE DEF c
  <2> QED BY <1>0, <2>1, <2>2, GotoFinds, FoundStays
<1>4. ASSUME NEW p \in Procs, WritePid(p) \/ Spawn(p) \/ Unlink(p) \/ Release(p)
      PROVE  StackFound'
  BY <1>0, <1>4, GotoFinds DEF WritePid, Spawn, Unlink, Release, Throw
<1>5. ASSUME NEW p \in Procs, DeadlinePasses(p) PROVE StackFound'
  <2> DEFINE c == [call[p] EXCEPT !.late = TRUE]
  <2>1. UNCHANGED <<port, serviceDeaths>> /\ call' = [call EXCEPT ![p] = c]
    BY <1>0, <1>5 DEF DeadlinePasses
  <2>2. c.service = call[p].service /\ c.stage = call[p].stage
    BY <1>0 DEF CallType
  <2> HIDE DEF c
  <2> QED BY <1>0, <2>1, <2>2, FoundStays
<1>6. ASSUME NEW p \in Procs, NEW s \in Services, ServiceStarts(p, s) PROVE StackFound'
  <2>1. UNCHANGED <<call, serviceDeaths>>
        /\ (UNCHANGED port \/ (port[s] = NoOne /\ port' = [port EXCEPT ![s] = p]))
    BY <1>6 DEF ServiceStarts
  <2>2. \A t \in Services : port'[t] = port[t] \/ port'[t] = p
    BY <1>0, <2>1
  <2> QED BY <2>1, <2>2, SupervisorAssumption DEF StackFound, At, Services
<1>7. ASSUME \/ \E p \in Procs, s \in Services : ServiceDies(p, s)
             \/ \E s \in Services : ForeignLeaves(s)
      PROVE  StackFound'
  <2>1. UNCHANGED call /\ serviceDeaths' # 0
    BY <1>0, <1>7 DEF ServiceDies, ForeignLeaves
  <2> QED BY <2>1 DEF StackFound
<1>8. ASSUME UNCHANGED supervisorVars \/ \E s \in Services : LockAges(s) PROVE StackFound'
  <2>1. UNCHANGED <<call, port, serviceDeaths>>
    BY <1>8 DEF supervisorVars, LockAges
  <2> QED BY <2>1 DEF StackFound, At
<1> QED
  BY <1>1, <1>2, <1>3, <1>4, <1>5, <1>6, <1>7, <1>8 DEF SupervisorNext, EnsureStack

\* A verb that ensureStack let through has the broker itself on the broker's
\* port and something on the web port unless the process opted out of it, as
\* long as no listener went away (ensureBroker, ensureWeb).
THEOREM ReadyMeansUp == SupervisorSpec => []ReadyStackIsUp
<1>1. SupervisorInit => StackFound
  BY DEF SupervisorInit, StackFound, At
<1>2. StackFound => ReadyStackIsUp
  BY DEF StackFound, ReadyStackIsUp
<1> QED BY SupervisorInitType, StepType, StepFinds, <1>1, <1>2, PTL DEF SupervisorSpec

=============================================================================
