----------------------------- MODULE AtomicQueue -----------------------------
(***************************************************************************)
(* What util::SafeQueue promises to the threads that share it: every       *)
(* operation takes effect at one instant between its call and its return.  *)
(* An element is popped once, in the order of insertion; pop_wait takes    *)
(* effect only when there is an element, try_pop finds none only when      *)
(* there is none.  The queues of the transmitter and of the receiver are   *)
(* plain sequences in their modules on the strength of this.               *)
(***************************************************************************)
EXTENDS Sequences

CONSTANTS Threads,
          Values,  \* elements of the queue
          None     \* std::nullopt, and no argument or result

VARIABLES
  queue,
  call  \* what each thread has called, or the result it has yet to return

vars == <<queue, call>>

Idle == <<"idle", None>>

Operations == {<<"push", v>> : v \in Values}
                \cup {<<"pop_wait", None>>, <<"try_pop", None>>}

Init == /\ queue = <<>>
        /\ call = [t \in Threads |-> Idle]

Call(t) == /\ call[t] = Idle
           /\ \E operation \in Operations : call' = [call EXCEPT ![t] = operation]
           /\ UNCHANGED queue

Push(t) == /\ call[t][1] = "push"
           /\ queue' = Append(queue, call[t][2])
           /\ call' = [call EXCEPT ![t] = <<"done", None>>]

Pop(t) == /\ call[t][1] \in {"pop_wait", "try_pop"}
          /\ queue # <<>>
          /\ queue' = Tail(queue)
          /\ call' = [call EXCEPT ![t] = <<"done", Head(queue)>>]

FindEmpty(t) == /\ call[t][1] = "try_pop"
                /\ queue = <<>>
                /\ call' = [call EXCEPT ![t] = <<"done", None>>]
                /\ UNCHANGED queue

Return(t) == /\ call[t][1] = "done"
             /\ call' = [call EXCEPT ![t] = Idle]
             /\ UNCHANGED queue

Next == \E t \in Threads :
          Call(t) \/ Push(t) \/ Pop(t) \/ FindEmpty(t) \/ Return(t)

Spec == Init /\ [][Next]_vars
==============================================================================
