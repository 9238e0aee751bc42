------------------------------ MODULE RunQueue ------------------------------
(***************************************************************************)
(* What a work queue promises to its modules (robot/work_queue), without   *)
(* times, threads and waits: one Run() at a time, only of attached and     *)
(* enabled items; requests that coalesce and count only while the item is  *)
(* enabled; and a detachment that has no Run() in flight.  WorkQueue       *)
(* implements it; WorkModule is built on it.                               *)
(***************************************************************************)

CONSTANTS Item, Nobody

VARIABLES
  attached,   \* the items of the queue
  enabled,    \* activated and not asked to stop
  pending,    \* requests not yet answered by a Run()
  running     \* the item in Run(), or Nobody

QueueInit == /\ attached = {} /\ enabled = {} /\ pending = {}
             /\ running = Nobody

Attach(i) == /\ i \notin attached /\ attached' = attached \cup {i}
             /\ enabled' = enabled \ {i} /\ pending' = pending \ {i}
             /\ UNCHANGED running

Enable(i) == /\ i \in attached /\ enabled' = enabled \cup {i}
             /\ UNCHANGED <<attached, pending, running>>

\* A request of an item that is not enabled is refused.
Request(i) == /\ pending' = pending \cup ({i} \cap enabled)
              /\ UNCHANGED <<attached, enabled, running>>

Cancel(i) == /\ pending' = pending \ {i}
             /\ UNCHANGED <<attached, enabled, running>>

\* No Run() is started any more; one may be in flight.
Disable(i) == /\ i \in attached
              /\ enabled' = enabled \ {i} /\ pending' = pending \ {i}
              /\ UNCHANGED <<attached, running>>

Detach(i) == /\ i \in attached /\ i \notin enabled /\ running # i
             /\ attached' = attached \ {i}
             /\ UNCHANGED <<enabled, pending, running>>

\* Requested, or due by the period of the item.
Start(i) == /\ running = Nobody /\ i \in attached \cap enabled
            /\ running' = i /\ pending' = pending \ {i}
            /\ UNCHANGED <<attached, enabled>>

Finish == /\ running # Nobody /\ running' = Nobody
          /\ UNCHANGED <<attached, enabled, pending>>

QueueNext == \/ \E i \in Item : \/ Attach(i) \/ Enable(i) \/ Request(i) \/ Cancel(i)
                                \/ Disable(i) \/ Detach(i) \/ Start(i)
             \/ Finish

QueueSpec == QueueInit /\ [][QueueNext]_<<attached, enabled, pending, running>>
=============================================================================
