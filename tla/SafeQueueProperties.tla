------------------------- MODULE SafeQueueProperties -------------------------
(***************************************************************************)
(* What makes SafeQueue correct, and the inductive invariant behind it.    *)
(***************************************************************************)
EXTENDS SafeQueue

TypeOK ==
  /\ queue_ \in Seq(Values)
  /\ mut_ \in Threads \cup {None}
  /\ cv_ \subseteq Threads
  /\ pc \in [Threads -> {"idle", "lock", "locked", "notify", "wait", "relock",
                         "pop", "unlock"}]
  /\ op \in [Threads -> Operations \cup {None}]
  /\ val \in [Threads -> Values \cup {None}]

(* The threads that are about to take an element from the queue, or to     *)
(* tell a waiting thread to.                                               *)
Active(t) == \/ at(t, "notify")
             \/ op[t] = "pop_wait" /\ pc[t] \in {"relock", "locked", "pop"}

(* No wake-up is lost: while a thread waits in pop_wait, every element of  *)
(* the queue has a thread of its own that is on its way to take it or to   *)
(* notify one that will (push notifies once per element, under the mutex,  *)
(* and pop_wait looks at the queue again before it waits).                 *)
NoLostWakeup ==
  cv_ # {} => Len(queue_) <= Cardinality({t \in Threads : Active(t)})

(* A thread is inside exactly when it has the mutex.                       *)
MutexHeld ==
  \A t \in Threads :
    (mut_ = t) = (pc[t] \in {"locked", "notify", "pop", "unlock"})

(* Where each thread is tells what it is doing.                            *)
Places ==
  \A t \in Threads :
    /\ (t \in cv_) = at(t, "wait")
    /\ at(t, "idle") = (op[t] = None)
    /\ pc[t] \in {"wait", "relock"} => op[t] = "pop_wait"
    /\ at(t, "notify") => op[t] = "push"
    /\ at(t, "pop") => op[t] \in {"pop_wait", "try_pop"}
    /\ op[t] = "push" => val[t] \in Values
    /\ op[t] # "push" /\ pc[t] \notin {"pop", "unlock"} => val[t] = None

(* What a thread has read is still the front of the queue when it removes  *)
(* it.                                                                     *)
FrontKept ==
  \A t \in Threads :
    at(t, "pop") => queue_ # <<>> /\ val[t] = Head(queue_)

(* The inductive invariant.                                                *)
IInv == TypeOK /\ MutexHeld /\ Places /\ FrontKept /\ NoLostWakeup

(* What a caller sees: an operation has taken effect once it has changed   *)
(* the queue or found it empty.                                            *)
seen == [t \in Threads |->
           CASE at(t, "idle")   -> <<"idle", None>>
             [] at(t, "notify") -> <<"done", None>>
             [] at(t, "unlock") ->
                  <<"done", IF op[t] = "push" THEN None ELSE val[t]>>
             [] OTHER           ->
                  <<op[t], IF op[t] = "push" THEN val[t] ELSE None>>]

(* The queue with its mutex and condition variable implements the atomic   *)
(* queue.                                                                  *)
Atomic == INSTANCE AtomicQueue WITH queue <- queue_, call <- seen
ImplementsAtomicQueue == Atomic!Spec

(* A thread does not wait in pop_wait for ever while there are elements.   *)
WaitersServed ==
  \A t \in Threads :
    (t \in cv_ /\ queue_ # <<>>) ~> (t \notin cv_ \/ queue_ = <<>>)
==============================================================================
