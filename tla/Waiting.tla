------------------------------ MODULE Waiting ------------------------------
(***************************************************************************)
(* The objects a goroutine of a connection may sleep on: a window, the     *)
(* limiter, the timeout queue.  They share nothing, so a behaviour has     *)
(* steps of one of them.                                                   *)
(***************************************************************************)
EXTENDS FlowControl, Limiter, TimeoutQueue

VARIABLE object

all == <<object, vars, limiterVars, queueVars>>

WaitingInit == /\ object \in {"window", "limiter", "queue"}
               /\ Init /\ LimiterInit /\ QueueInit

WaitingNext ==
  /\ UNCHANGED object
  /\ \/ object = "window" /\ Next /\ UNCHANGED <<limiterVars, queueVars>>
     \/ object = "limiter" /\ LimiterNext /\ UNCHANGED <<vars, queueVars>>
     \/ object = "queue" /\ QueueNext /\ UNCHANGED <<vars, limiterVars>>

(* A goroutine that is handed a mutex runs: sync.Mutex hands over in FIFO  *)
(* order to a waiter that has been starved for a millisecond.  Streams end *)
(* (Release is the server's answer) and a Release that has unlocked        *)
(* signals.                                                                *)
WaitingSpec ==
  /\ WaitingInit /\ [][WaitingNext]_all
  /\ \A t \in Threads :
       WF_all(object = "window" /\ (Park(t) \/ Return(t)) /\ UNCHANGED <<object, limiterVars, queueVars>>)
  /\ \A t \in Callers :
       WF_all(object = "limiter" /\ (Sleep(t) \/ Allow(t)) /\ UNCHANGED <<object, vars, queueVars>>)
  /\ WF_all(object = "limiter" /\ Release /\ UNCHANGED <<object, vars, queueVars>>)
  /\ WF_all(object = "limiter" /\ Signal /\ UNCHANGED <<object, vars, queueVars>>)
=============================================================================
