----------------------------- MODULE InputQueue -----------------------------
(***************************************************************************)
(* What the gateway promises about input: each terminal has a FIFO queue   *)
(* of the frames accepted for it, and they are finished one by one, from   *)
(* the head.  Frames are numbered per terminal in order of acceptance.       *)
(***************************************************************************)
EXTENDS Naturals, Sequences

CONSTANT Terminals

VARIABLES queue,   \* terminal -> accepted frames not finished yet, oldest first
          served   \* terminal -> frames finished, in the order they were

queueVars == <<queue, served>>

QInit ==
    /\ queue = [t \in Terminals |-> <<>>]
    /\ served = [t \in Terminals |-> <<>>]

Accept(t) ==
    /\ queue' = [queue EXCEPT ![t] = Append(@, Len(queue[t]) + Len(served[t]) + 1)]
    /\ UNCHANGED served

Finish(t) ==
    /\ queue[t] # <<>>
    /\ served' = [served EXCEPT ![t] = Append(@, Head(queue[t]))]
    /\ queue' = [queue EXCEPT ![t] = Tail(@)]

QNext == \E t \in Terminals : Accept(t) \/ Finish(t)

QSpec == QInit /\ [][QNext]_queueVars
=============================================================================
