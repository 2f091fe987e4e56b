------------------------------ MODULE SafeQueue ------------------------------
(***************************************************************************)
(* util::SafeQueue: a queue, the mutex that guards it and the condition    *)
(* variable on which pop_wait waits for an element.                        *)
(*                                                                         *)
(* Any thread may call any operation at any time.  A step is an access to  *)
(* the queue, the mutex or the condition variable; reading the front of    *)
(* the queue and removing it are two steps, as they are in the source, so  *)
(* that it is the mutex and nothing else that makes them one.  A wait may  *)
(* end without a notification.                                             *)
(***************************************************************************)
EXTENDS Integers, Sequences, FiniteSets

CONSTANTS Threads, Values, None,
          QueueBound  \* bound of the model: no push is called beyond it

Operations == {"push", "pop_wait", "try_pop"}

ASSUME NoneAssumption == None \notin Operations
ASSUME ThreadsAssumption == IsFiniteSet(Threads) /\ None \notin Threads
ASSUME ValuesAssumption == None \notin Values
ASSUME QueueBoundAssumption == QueueBound \in Nat

VARIABLES
  queue_,
  mut_,  \* the thread that holds the mutex, or None
  cv_,   \* the threads that wait on the condition variable
  pc,    \* where each thread is
  op,    \* the operation it has called
  val    \* the argument of a push, or the element a pop has read

vars == <<queue_, mut_, cv_, pc, op, val>>

Init ==
  /\ queue_ = <<>>
  /\ mut_ = None
  /\ cv_ = {}
  /\ pc = [t \in Threads |-> "idle"]
  /\ op = [t \in Threads |-> None]
  /\ val = [t \in Threads |-> None]

at(t, place) == pc[t] = place

goto(t, place) == pc' = [pc EXCEPT ![t] = place]

(* Calls.                                                                  *)
callPush(t) ==
  /\ at(t, "idle")
  /\ Len(queue_) < QueueBound
  /\ \E v \in Values : val' = [val EXCEPT ![t] = v]
  /\ op' = [op EXCEPT ![t] = "push"]
  /\ goto(t, "lock")
  /\ UNCHANGED <<queue_, mut_, cv_>>

callPop(t) ==
  /\ at(t, "idle")
  /\ \E o \in {"pop_wait", "try_pop"} : op' = [op EXCEPT ![t] = o]
  /\ goto(t, "lock")
  /\ UNCHANGED <<queue_, mut_, cv_, val>>

(* A variant with a bug: the mutex does not exclude.                       *)
lock_shared(t) ==
  /\ pc[t] \in {"lock", "relock"}
  /\ mut_' = t
  /\ goto(t, "locked")
  /\ UNCHANGED <<queue_, cv_, op, val>>

(* std::unique_lock, and the end of a wait.                                *)
lock(t) ==
  /\ pc[t] \in {"lock", "relock"}
  /\ mut_ = None
  /\ mut_' = t
  /\ goto(t, "locked")
  /\ UNCHANGED <<queue_, cv_, op, val>>

(* A variant with a bug: waiters are told of an element only when the      *)
(* queue has been empty.                                                   *)
push_notifiesIfEmpty(t) ==
  /\ at(t, "locked") /\ op[t] = "push"
  /\ queue_' = Append(queue_, val[t])
  /\ goto(t, IF queue_ = <<>> THEN "notify" ELSE "unlock")
  /\ UNCHANGED <<mut_, cv_, op, val>>

(* A variant with a bug: the element goes to the front.                    *)
push_atFront(t) ==
  /\ at(t, "locked") /\ op[t] = "push"
  /\ queue_' = <<val[t]>> \o queue_
  /\ goto(t, "notify")
  /\ UNCHANGED <<mut_, cv_, op, val>>

push(t) ==
  /\ at(t, "locked") /\ op[t] = "push"
  /\ queue_' = Append(queue_, val[t])
  /\ goto(t, "notify")
  /\ UNCHANGED <<mut_, cv_, op, val>>

(* The thread that is woken has to get the mutex again, which others may   *)
(* do first.                                                               *)
notify_one(t) ==
  /\ at(t, "notify")
  /\ IF cv_ = {}
     THEN goto(t, "unlock") /\ UNCHANGED cv_
     ELSE \E w \in cv_ : /\ cv_' = cv_ \ {w}
                         /\ pc' = [pc EXCEPT ![t] = "unlock", ![w] = "relock"]
  /\ UNCHANGED <<queue_, mut_, op, val>>

(* The loop of pop_wait: the mutex is released as the wait begins.         *)
wait(t) ==
  /\ at(t, "locked") /\ op[t] = "pop_wait"
  /\ queue_ = <<>>
  /\ cv_' = cv_ \cup {t}
  /\ mut_' = None
  /\ goto(t, "wait")
  /\ UNCHANGED <<queue_, op, val>>

spuriousWakeup(t) ==
  /\ t \in cv_
  /\ cv_' = cv_ \ {t}
  /\ goto(t, "relock")
  /\ UNCHANGED <<queue_, mut_, op, val>>

findEmpty(t) ==
  /\ at(t, "locked") /\ op[t] = "try_pop"
  /\ queue_ = <<>>
  /\ goto(t, "unlock")
  /\ UNCHANGED <<queue_, mut_, cv_, op, val>>

front(t) ==
  /\ at(t, "locked") /\ op[t] \in {"pop_wait", "try_pop"}
  /\ queue_ # <<>>
  /\ val' = [val EXCEPT ![t] = Head(queue_)]
  /\ goto(t, "pop")
  /\ UNCHANGED <<queue_, mut_, cv_, op>>

pop(t) ==
  /\ at(t, "pop")
  /\ queue_' = Tail(queue_)
  /\ goto(t, "unlock")
  /\ UNCHANGED <<mut_, cv_, op, val>>

(* ~unique_lock and the return.                                            *)
unlock(t) ==
  /\ at(t, "unlock")
  /\ mut_' = None
  /\ op' = [op EXCEPT ![t] = None]
  /\ val' = [val EXCEPT ![t] = None]
  /\ goto(t, "idle")
  /\ UNCHANGED <<queue_, cv_>>

(* What a thread does while it has the mutex.                              *)
critical(t) ==
  \/ push(t)
  \/ notify_one(t)
  \/ wait(t)
  \/ findEmpty(t)
  \/ front(t)
  \/ pop(t)
  \/ unlock(t)

Next == \E t \in Threads : \/ callPush(t)
                           \/ callPop(t)
                           \/ lock(t)
                           \/ critical(t)
                           \/ spuriousWakeup(t)

Spec == Init /\ [][Next]_vars

(* Threads keep running, and none is kept from the mutex for ever by the   *)
(* others.  Nobody need call anything, and no wait need end unnotified.    *)
FairSpec == Spec /\ \A t \in Threads : /\ SF_vars(lock(t))
                                       /\ WF_vars(critical(t))
==============================================================================
