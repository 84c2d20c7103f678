------------------------- MODULE ControlModeAttach -------------------------
(***************************************************************************)
(* The attach loop of the broker: one `tmux -CC attach-session` child on a *)
(* pty, respawned with a backoff when it exits, until a number of          *)
(* consecutive failures stops the loop.                                    *)
(*                                                                         *)
(* A pty master stays open until kill() is called on it, whether or not    *)
(* its child is alive.  Ptys are drawn from a set and reused once their    *)
(* child has exited and their exit was handled.                            *)
(***************************************************************************)
EXTENDS Naturals, FiniteSets

CONSTANTS
    Ptys,          \* pseudo-terminals the system can allocate
    NoPty,         \* this.proc = null
    MaxAttempts,   \* RECONNECT_MAX_ATTEMPTS, 60
    MaxOutages     \* bound: times the tmux session goes away

ASSUME AttachAssumption ==
    /\ IsFiniteSet(Ptys) /\ NoPty \notin Ptys
    /\ MaxAttempts \in Nat \ {0} /\ MaxOutages \in Nat

VARIABLES
    proc,            \* the pty the loop holds, or NoPty
    masters,         \* ptys whose master fd is open in the broker
    child,           \* pty -> state of the tmux client on it
    reconnectTimer,  \* a reconnect is scheduled
    failedAttempts,
    stopped,
    started,         \* start() has been called
    session,         \* the tmux session is there
    outages          \* how much of MaxOutages is used

attachVars == <<proc, masters, child, reconnectTimer, failedAttempts, stopped,
                started, session, outages>>

\* free: no client.  starting: spawned, nothing printed yet.  attached: it
\* streams control mode.  failing: it has printed why it ends.
\* exited: dead, onExit still to be called.
ChildStates == {"free", "starting", "attached", "failing", "exited"}

AttachInit ==
    /\ proc = NoPty /\ masters = {} /\ child = [p \in Ptys |-> "free"]
    /\ reconnectTimer = FALSE /\ failedAttempts = 0
    /\ stopped = FALSE /\ started = FALSE
    /\ session = TRUE /\ outages = 0

----------------------------------------------------------------------------
\* scheduleReconnect: count the failure, then give up or arm the timer, which
\* was `timer` before the call.  (The backoff is the timer's length, left out.)
ScheduleReconnect(timer) ==
    IF stopped THEN reconnectTimer' = timer /\ UNCHANGED <<failedAttempts, stopped>>
    ELSE /\ failedAttempts' = failedAttempts + 1
         /\ stopped' = (failedAttempts' >= MaxAttempts)
         /\ reconnectTimer' = (timer \/ ~stopped')

\* spawn, called with no timer pending: reap the pty that is held, then
\* allocate one, or fail to.
Spawn ==
    \/ \E p \in Ptys :
          /\ child[p] = "free" /\ p \notin masters
          /\ child' = [child EXCEPT ![p] = "starting"]
          /\ masters' = (masters \ {proc}) \cup {p}
          /\ proc' = p
          /\ reconnectTimer' = FALSE
          /\ UNCHANGED <<failedAttempts, stopped>>
    \/ /\ masters' = masters \ {proc}
       /\ proc' = NoPty
       /\ ScheduleReconnect(FALSE)
       /\ UNCHANGED child

\* onApplicationBootstrap calls start() once.
Start ==
    /\ ~started /\ ~stopped
    /\ started' = TRUE
    /\ Spawn
    /\ UNCHANGED <<session, outages>>

\* stop(), on module destroy.  The killed client exits later.
Stop ==
    /\ started
    /\ stopped' = TRUE /\ failedAttempts' = 0 /\ reconnectTimer' = FALSE
    /\ masters' = masters \ {proc} /\ proc' = NoPty
    /\ UNCHANGED <<child, started, session, outages>>

TimerFires ==
    /\ reconnectTimer
    /\ IF stopped
       THEN reconnectTimer' = FALSE
            /\ UNCHANGED <<proc, masters, child, failedAttempts, stopped>>
       ELSE Spawn
    /\ UNCHANGED <<started, session, outages>>

\* The client attaches, or reports that there is nothing to attach to.  Both
\* print on the pty, and onData takes any print for a live attach.
ClientPrints(p) ==
    /\ child[p] = "starting"
    /\ child' = [child EXCEPT ![p] = IF session THEN "attached" ELSE "failing"]
    /\ failedAttempts' = 0
    /\ UNCHANGED <<proc, masters, reconnectTimer, stopped, started, session, outages>>

\* The client ends: refused, killed, or its session is gone; a live one may
\* also be detached by hand.
ClientExits(p) ==
    /\ child[p] \in {"starting", "attached", "failing"}
    /\ child' = [child EXCEPT ![p] = "exited"]
    /\ UNCHANGED <<proc, masters, reconnectTimer, failedAttempts, stopped, started,
                   session, outages>>

\* Mutant: the reference is dropped without kill().
OnExitDropping(p) ==
    /\ child[p] = "exited"
    /\ child' = [child EXCEPT ![p] = "free"]
    /\ proc' = IF proc = p THEN NoPty ELSE proc
    /\ ScheduleReconnect(reconnectTimer)
    /\ UNCHANGED <<masters, started, session, outages>>

\* Mutant: only an attach that had failed before is retried.
OnExitForgetting(p) ==
    /\ child[p] = "exited"
    /\ child' = [child EXCEPT ![p] = "free"]
    /\ IF proc = p THEN masters' = masters \ {p} /\ proc' = NoPty
                   ELSE UNCHANGED <<masters, proc>>
    /\ IF failedAttempts > 0 THEN ScheduleReconnect(reconnectTimer)
       ELSE UNCHANGED <<failedAttempts, stopped, reconnectTimer>>
    /\ UNCHANGED <<started, session, outages>>

\* onExit: release the master if it is the one held, then reconnect.
OnExit(p) ==
    /\ child[p] = "exited"
    /\ child' = [child EXCEPT ![p] = "free"]
    /\ IF proc = p THEN masters' = masters \ {p} /\ proc' = NoPty
                   ELSE UNCHANGED <<masters, proc>>
    /\ ScheduleReconnect(reconnectTimer)
    /\ UNCHANGED <<started, session, outages>>

\* The tmux session ends, and the clients attached to it are about to exit.
SessionGone ==
    /\ session /\ outages < MaxOutages
    /\ session' = FALSE /\ outages' = outages + 1
    /\ child' = [p \in Ptys |-> IF child[p] = "attached" THEN "failing" ELSE child[p]]
    /\ UNCHANGED <<proc, masters, reconnectTimer, failedAttempts, stopped, started>>

SessionBack ==
    /\ ~session
    /\ session' = TRUE
    /\ UNCHANGED <<proc, masters, child, reconnectTimer, failedAttempts, stopped, started,
                   outages>>

AttachNext ==
    \/ Start \/ Stop \/ TimerFires \/ SessionGone \/ SessionBack
    \/ \E p \in Ptys : ClientPrints(p) \/ ClientExits(p) \/ OnExit(p)

AttachSpec == AttachInit /\ [][AttachNext]_attachVars

----------------------------------------------------------------------------
\* The broker never holds a pty master but the one of the current attach: the
\* leak of one master per reconnect that exhausts kern.tty.ptmx_max.
NoLeakedMaster == masters \subseteq {proc}

\* The loop is never silently dead: once started, and until it is stopped or
\* gives up, it holds a client or has a reconnect scheduled, never both.
AttachedOrReconnecting ==
    started /\ ~stopped => (proc # NoPty) # reconnectTimer
============================================================================
