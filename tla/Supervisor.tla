----------------------------- MODULE Supervisor -----------------------------
(***************************************************************************)
(* The stack bootstrap of ddx-term-mcp.  Every MCP process on the machine  *)
(* runs ensureStack before its first verb: it probes a service and, if the *)
(* service is not up, either wins the service's lock file and spawns it,   *)
(* or loses and polls until the winner's spawn is up.  The broker comes    *)
(* first, then the web server.                                             *)
(*                                                                         *)
(* MCP processes share nothing but the file system and the ports, so they  *)
(* interleave between any two system calls: creating the lock file and     *)
(* writing the pid into it are two steps, and so are reading a lock and    *)
(* unlinking it.  Time is three flags that are set late enough: a lock is  *)
(* old (10 s), a poll is late (30 s, 20 s), a probe is slow (3 s).         *)
(***************************************************************************)
EXTENDS Naturals, FiniteSets

CONSTANTS
    Procs,            \* MCP processes, each with its pid
    WebOptOut,        \* those run with DDX_TERM_WEB=0
    NoLock,           \* there is no lock file
    Foreign,          \* a program that is not part of the stack
    NoOne,            \* nothing listens on the port
    MaxCrashes,       \* bound: MCP processes that end
    MaxServiceDeaths, \* bound: listeners that die or fail to start
    MaxSlowProbes,    \* bound: probes a healthy broker answers too late
    MaxLockFaults     \* bound: lock files that cannot be created or written

ASSUME SupervisorAssumption ==
    /\ IsFiniteSet(Procs) /\ WebOptOut \subseteq Procs
    /\ NoLock \notin [by : Procs, written : BOOLEAN, old : BOOLEAN]
    /\ Foreign \notin Procs /\ NoOne \notin Procs \cup {Foreign}
    /\ {MaxCrashes, MaxServiceDeaths, MaxSlowProbes, MaxLockFaults} \subseteq Nat

Services == {"broker", "web"}

VARIABLES
    lock,        \* service -> its lock file
    unlinks,     \* history: service -> times its lock file was removed
    call,        \* process -> where its ensureStack stands
    child,       \* process -> service -> the child it spawned for it
    port,        \* service -> who listens on its port
    crashes, serviceDeaths, slowProbes, lockFaults   \* how much of each bound is used

serviceVars == <<child, port>>
boundVars == <<crashes, serviceDeaths, slowProbes, lockFaults>>
supervisorVars == <<lock, unlinks, call, serviceVars, boundVars>>

\* A lock file: who created it, whether its pid has been written, its age.
LockFile(p) == [by |-> p, written |-> FALSE, old |-> FALSE]

Running == {"probe", "acquire", "write", "spawn", "poll", "stale", "unlink", "release"}
Settled == {"resolved", "rejected", "aborted", "dead"}
Stages == {"unused"} \cup Settled \cup Running
ChildStates == {"none", "starting", "listening", "dead"}

SupervisorInit ==
    /\ lock = [s \in Services |-> NoLock] /\ unlinks = [s \in Services |-> 0]
    /\ call = [p \in Procs |-> [stage |-> "unused", service |-> "broker",
                                winner |-> FALSE, late |-> FALSE]]
    /\ child = [p \in Procs |-> [s \in Services |-> "none"]]
    /\ port \in [Services -> {NoOne, Foreign}]
    /\ crashes = 0 /\ serviceDeaths = 0 /\ slowProbes = 0 /\ lockFaults = 0

At(p, stage) == call[p].stage = stage
Goto(p, stage) == call' = [call EXCEPT ![p].stage = stage]

\* ensureBroker or ensureWeb returns: on to the web server, unless it was the
\* web server or this process opted out of it.
ServiceReady(p) ==
    call' = [call EXCEPT ![p] =
        IF call[p].service = "broker" /\ p \notin WebOptOut
        THEN [stage |-> "probe", service |-> "web", winner |-> FALSE, late |-> FALSE]
        ELSE [@ EXCEPT !.stage = "resolved"]]

\* It throws: a winner's catch block releases the lock first.
Throw(p) == Goto(p, IF call[p].winner THEN "release" ELSE "rejected")

\* Whatever lock file the service has is unlinked; none is no error.
RemoveLock(s) ==
    /\ lock' = [lock EXCEPT ![s] = NoLock]
    /\ unlinks' = [unlinks EXCEPT ![s] = IF lock[s] = NoLock THEN @ ELSE @ + 1]

----------------------------------------------------------------------------
(* Probes.  probeHealth wants the broker's own answer; tcpProbe takes any  *)
(* listener for the web server.                                            *)

\* Mutant: any answer is taken for the broker's.
HealthyAnyAnswer(s) == port[s] # NoOne /\ UNCHANGED slowProbes

Healthy(s) == IF s = "broker" THEN port[s] \in Procs /\ UNCHANGED slowProbes
                              ELSE port[s] # NoOne /\ UNCHANGED slowProbes

\* Nothing answers, or what answers is no 2xx, or the broker is slow.
NotHealthy(s) ==
    \/ port[s] = NoOne /\ UNCHANGED slowProbes
    \/ s = "broker" /\ port[s] = Foreign /\ UNCHANGED slowProbes
    \/ s = "broker" /\ port[s] \in Procs /\ slowProbes < MaxSlowProbes
       /\ slowProbes' = slowProbes + 1

\* A 2xx answer that is not the broker's.
PortConflict(s) == s = "broker" /\ port[s] = Foreign /\ UNCHANGED slowProbes

----------------------------------------------------------------------------
(* ensureStack                                                             *)

\* The first verb of the process.  Later verbs share its promise, settled or
\* not, and change nothing.
Call(p) ==
    /\ At(p, "unused")
    /\ Goto(p, "probe")
    /\ UNCHANGED <<lock, unlinks, serviceVars, boundVars>>

\* The fast path.
Probe(p) ==
    /\ At(p, "probe")
    /\ \/ Healthy(call[p].service) /\ ServiceReady(p)
       \/ NotHealthy(call[p].service) /\ Goto(p, "acquire")
       \/ PortConflict(call[p].service) /\ Throw(p)
    /\ UNCHANGED <<lock, unlinks, serviceVars, crashes, serviceDeaths, lockFaults>>

\* Mutant: the file is opened without O_EXCL.
AcquireLockAnyway(p) ==
    /\ At(p, "acquire")
    /\ lock' = [lock EXCEPT ![call[p].service] = LockFile(p)]
    /\ call' = [call EXCEPT ![p] = [@ EXCEPT !.stage = "write", !.winner = TRUE]]
    /\ UNCHANGED <<unlinks, serviceVars, boundVars>>

\* Mutant: a loser goes on to spawn.
AcquireLockLoserSpawns(p) ==
    /\ At(p, "acquire")
    /\ IF lock[call[p].service] = NoLock
       THEN /\ lock' = [lock EXCEPT ![call[p].service] = LockFile(p)]
            /\ call' = [call EXCEPT ![p] = [@ EXCEPT !.stage = "write", !.winner = TRUE]]
       ELSE Goto(p, "spawn") /\ UNCHANGED lock
    /\ UNCHANGED <<unlinks, serviceVars, boundVars>>

\* acquireLock, first half: create the file, exclusively, or lose.
AcquireLock(p) ==
    /\ At(p, "acquire")
    /\ IF lock[call[p].service] = NoLock
       THEN /\ lock' = [lock EXCEPT ![call[p].service] = LockFile(p)]
            /\ call' = [call EXCEPT ![p] = [@ EXCEPT !.stage = "write", !.winner = TRUE]]
       ELSE Goto(p, "poll") /\ UNCHANGED lock
    /\ UNCHANGED <<unlinks, serviceVars, boundVars>>

\* Second half: write the pid, into the file that was created even if it has
\* been unlinked since.
WritePid(p) ==
    /\ At(p, "write")
    /\ LET s == call[p].service IN
       lock' = IF lock[s] # NoLock /\ lock[s].by = p
               THEN [lock EXCEPT ![s] = [@ EXCEPT !.written = TRUE, !.old = FALSE]]
               ELSE lock
    /\ Goto(p, "spawn")
    /\ UNCHANGED <<unlinks, serviceVars, boundVars>>

\* acquireLock throws: the file cannot be created, or its pid not be written and
\* the file stays empty.  No catch block releases it.
LockFails(p) ==
    /\ At(p, "acquire") \/ At(p, "write")
    /\ lockFaults < MaxLockFaults /\ lockFaults' = lockFaults + 1
    /\ Goto(p, "aborted")
    /\ UNCHANGED <<lock, unlinks, serviceVars, crashes, serviceDeaths, slowProbes>>

Spawn(p) ==
    /\ At(p, "spawn")
    /\ child' = [child EXCEPT ![p][call[p].service] = "starting"]
    /\ Goto(p, "poll")
    /\ UNCHANGED <<lock, unlinks, port, boundVars>>

\* Mutant: the loop has no deadline.
PollForever(p) ==
    /\ At(p, "poll")
    /\ \/ Healthy(call[p].service) /\ ServiceReady(p)
       \/ NotHealthy(call[p].service) /\ call[p].service = "broker" /\ Goto(p, "stale")
       \/ PortConflict(call[p].service) /\ Throw(p)
    /\ UNCHANGED <<lock, unlinks, serviceVars, crashes, serviceDeaths, lockFaults>>

\* One turn of pollUntilHealthy or pollUntilTcpOpen.  (While the web port is
\* closed a turn changes nothing.)
Poll(p) ==
    /\ At(p, "poll")
    /\ IF call[p].late THEN Throw(p) /\ UNCHANGED slowProbes
       ELSE \/ Healthy(call[p].service) /\ ServiceReady(p)
            \/ NotHealthy(call[p].service) /\ call[p].service = "broker" /\ Goto(p, "stale")
            \/ PortConflict(call[p].service) /\ Throw(p)
    /\ UNCHANGED <<lock, unlinks, serviceVars, crashes, serviceDeaths, lockFaults>>

\* reclaimStaleLock, first half, run by losers and by the winner alike: a
\* lock that is gone or has no pid yet counts as reclaimed, a dead holder or
\* an old file is to be unlinked.
CheckStale(p) ==
    /\ At(p, "stale")
    /\ LET file == lock[call[p].service] IN
       IF file # NoLock /\ file.written
       THEN Goto(p, IF At(file.by, "dead") \/ file.old THEN "unlink" ELSE "poll")
       ELSE Throw(p)
    /\ UNCHANGED <<lock, unlinks, serviceVars, boundVars>>

\* Second half.  pollUntilHealthy then throws.
Unlink(p) ==
    /\ At(p, "unlink")
    /\ RemoveLock(call[p].service)
    /\ Throw(p)
    /\ UNCHANGED <<serviceVars, boundVars>>

\* Mutant: the catch block only rethrows.
ReleaseNothing(p) ==
    /\ At(p, "release")
    /\ Goto(p, "rejected")
    /\ UNCHANGED <<lock, unlinks, serviceVars, boundVars>>

\* releaseLock in the winner's catch block.
Release(p) ==
    /\ At(p, "release")
    /\ RemoveLock(call[p].service)
    /\ Goto(p, "rejected")
    /\ UNCHANGED <<serviceVars, boundVars>>

----------------------------------------------------------------------------
(* Time, processes and ports.                                              *)

DeadlinePasses(p) ==
    /\ call[p].stage \in {"poll", "stale", "unlink"} /\ ~call[p].late
    /\ call' = [call EXCEPT ![p].late = TRUE]
    /\ UNCHANGED <<lock, unlinks, serviceVars, boundVars>>

LockAges(s) ==
    /\ lock[s] # NoLock /\ ~lock[s].old
    /\ lock' = [lock EXCEPT ![s] = [@ EXCEPT !.old = TRUE]]
    /\ UNCHANGED <<unlinks, call, serviceVars, boundVars>>

\* The MCP process ends.  Its children are detached; its lock files stay.
McpEnds(p) ==
    /\ ~At(p, "dead") /\ crashes < MaxCrashes
    /\ crashes' = crashes + 1
    /\ Goto(p, "dead")
    /\ UNCHANGED <<lock, unlinks, serviceVars, serviceDeaths, slowProbes, lockFaults>>

\* A service listens, or exits because its port is taken.
ServiceStarts(p, s) ==
    /\ child[p][s] = "starting"
    /\ IF port[s] = NoOne
       THEN /\ child' = [child EXCEPT ![p][s] = "listening"]
            /\ port' = [port EXCEPT ![s] = p]
       ELSE child' = [child EXCEPT ![p][s] = "dead"] /\ UNCHANGED port
    /\ UNCHANGED <<lock, unlinks, call, boundVars>>

ServiceDies(p, s) ==
    /\ child[p][s] \in {"starting", "listening"} /\ serviceDeaths < MaxServiceDeaths
    /\ serviceDeaths' = serviceDeaths + 1
    /\ child' = [child EXCEPT ![p][s] = "dead"]
    /\ port' = [port EXCEPT ![s] = IF @ = p THEN NoOne ELSE @]
    /\ UNCHANGED <<lock, unlinks, call, crashes, slowProbes, lockFaults>>

ForeignLeaves(s) ==
    /\ port[s] = Foreign /\ serviceDeaths < MaxServiceDeaths
    /\ serviceDeaths' = serviceDeaths + 1
    /\ port' = [port EXCEPT ![s] = NoOne]
    /\ UNCHANGED <<lock, unlinks, call, child, crashes, slowProbes, lockFaults>>

EnsureStack(p) ==
    \/ Probe(p) \/ AcquireLock(p) \/ WritePid(p) \/ LockFails(p) \/ Spawn(p)
    \/ Poll(p) \/ CheckStale(p) \/ Unlink(p) \/ Release(p)

SupervisorNext ==
    \/ \E p \in Procs : Call(p) \/ EnsureStack(p) \/ DeadlinePasses(p) \/ McpEnds(p)
    \/ \E p \in Procs, s \in Services : ServiceStarts(p, s) \/ ServiceDies(p, s)
    \/ \E s \in Services : LockAges(s) \/ ForeignLeaves(s)

SupervisorSpec == SupervisorInit /\ [][SupervisorNext]_supervisorVars

\* An MCP process goes on with its bootstrap, and clocks advance.
SupervisorFairness ==
    \A p \in Procs : WF_supervisorVars(EnsureStack(p)) /\ WF_supervisorVars(DeadlinePasses(p))

FairSupervisorSpec == SupervisorSpec /\ SupervisorFairness

----------------------------------------------------------------------------
\* Types of the lock files, the calls, the children and the ports; only the
\* winner of a lock writes its pid, spawns the service and releases the lock.
SupervisorTypeOK ==
    /\ lock \in [Services -> {NoLock} \cup [by : Procs, written : BOOLEAN, old : BOOLEAN]]
    /\ unlinks \in [Services -> Nat]
    /\ call \in [Procs -> [stage : Stages, service : Services,
                           winner : BOOLEAN, late : BOOLEAN]]
    /\ \A p \in Procs : call[p].stage \in {"write", "spawn", "release"} => call[p].winner
    /\ child \in [Procs -> [Services -> ChildStates]]
    /\ port \in [Services -> Procs \cup {Foreign, NoOne}]
    /\ crashes \in 0..MaxCrashes /\ serviceDeaths \in 0..MaxServiceDeaths
    /\ slowProbes \in 0..MaxSlowProbes /\ lockFaults \in 0..MaxLockFaults

Spawners(s) == {p \in Procs : child[p][s] # "none"}

\* The lock serialises the spawns: however processes race, crash and reclaim,
\* a service is spawned again only after its lock file was removed.
SpawnsFollowUnlinks ==
    \A s \in Services : Cardinality(Spawners(s)) <= 1 + unlinks[s]

\* A bootstrap that failed with its lock in hand leaves no lock file of its own
\* for that service: a process that goes on running would keep every other one
\* from trying.  (One whose acquireLock threw is aborted, and may.)
FailedWinnerReleases ==
    \A p \in Procs :
        At(p, "rejected") /\ lock[call[p].service] # NoLock
            => lock[call[p].service].by # p

\* Verbs run against a live stack: while no listener has gone, a process whose
\* ensureStack resolved has the broker itself on the broker's port, never a
\* foreign program, and something on the web port unless it opted out.
ReadyStackIsUp ==
    \A p \in Procs : At(p, "resolved") /\ serviceDeaths = 0 =>
        /\ port["broker"] \in Procs
        /\ p \notin WebOptOut => port["web"] # NoOne

\* A verb never hangs in the bootstrap: winner or loser, it resolves or fails.
EveryCallSettles ==
    \A p \in Procs :
        call[p].stage \in Running ~> call[p].stage \in Settled

----------------------------------------------------------------------------
(* What the documentation promises and the code does not keep *)

\* A lock that reclaimStaleLock would call stale.
Stale(s) == lock[s] # NoLock /\ (lock[s].old \/ At(lock[s].by, "dead"))

\* "Exactly ONE broker + ONE web per machine - guarded by O_EXCL lockfile + PID
\* + stale-timeout reclaim" (plans/autonomous-stack-publish/_invariants.md:9):
\* a process that waits for the web server behind a stale lock gets the lock
\* out of the way, unless a web server comes up.
StaleWebLockReclaimed ==
    \A p \in Procs :
        (At(p, "poll") /\ call[p].service = "web" /\ Stale("web"))
            ~> (~Stale("web") \/ port["web"] # NoOne \/ At(p, "dead"))
=============================================================================
