--------------------------- MODULE SafeQueueProofs ---------------------------
(***************************************************************************)
(* SafeQueue loses no wake-up and implements the atomic queue, for every   *)
(* set of threads and of elements.                                         *)
(***************************************************************************)
EXTENDS SafeQueueProperties, FiniteSetTheorems, TLAPS

active == {t \in Threads : Active(t)}

(* The part of the invariant that does not count threads.                  *)
Core == TypeOK /\ MutexHeld /\ Places /\ FrontKept

LEMMA ActiveFinite == IsFiniteSet(active) /\ Cardinality(active) \in Nat
BY ThreadsAssumption, FS_Subset, FS_CardinalityType DEF active

LEMMA InitCore == Init => IInv
<1> SUFFICES ASSUME Init PROVE IInv
  OBVIOUS
<1>1. TypeOK
  BY DEF Init, TypeOK
<1>2. MutexHeld
  BY ThreadsAssumption DEF Init, MutexHeld
<1>3. Places
  BY NoneAssumption DEF Init, Places, at, Operations
<1>4. FrontKept
  BY DEF Init, FrontKept, at
<1>5. NoLostWakeup
  BY DEF Init, NoLostWakeup
<1> QED
  BY <1>1, <1>2, <1>3, <1>4, <1>5 DEF IInv

(* Calls and wake-ups leave the queue and the mutex alone.                 *)
LEMMA CallKeepsCore ==
  ASSUME Core, NEW t \in Threads, callPush(t) \/ callPop(t)
  PROVE  Core'
<1> USE DEF Core, at, goto
<1>1. TypeOK'
  BY DEF TypeOK, callPush, callPop, Operations
<1>2. MutexHeld'
  BY DEF TypeOK, MutexHeld, callPush, callPop
<1>3. Places'
  BY NoneAssumption DEF TypeOK, Places, callPush, callPop, Operations
<1>4. FrontKept'
  BY DEF TypeOK, FrontKept, callPush, callPop
<1> QED
  BY <1>1, <1>2, <1>3, <1>4

LEMMA LockKeepsCore ==
  ASSUME Core, NEW t \in Threads, lock(t)
  PROVE  Core'
<1> USE DEF Core, at, goto, lock
<1>1. TypeOK'
  BY DEF TypeOK
<1>2. MutexHeld'
  BY ThreadsAssumption DEF TypeOK, MutexHeld
<1>3. Places'
  BY DEF TypeOK, Places
<1>4. FrontKept'
  BY DEF TypeOK, FrontKept
<1> QED
  BY <1>1, <1>2, <1>3, <1>4

LEMMA PushKeepsCore ==
  ASSUME Core, NEW t \in Threads, push(t)
  PROVE  Core'
<1> USE DEF Core, at, goto, push
<1>1. TypeOK'
  BY DEF TypeOK, Places
<1>2. MutexHeld'
  BY DEF TypeOK, MutexHeld
<1>3. Places'
  BY DEF TypeOK, Places
<1>4. FrontKept'
  BY DEF TypeOK, FrontKept, MutexHeld
<1> QED
  BY <1>1, <1>2, <1>3, <1>4

LEMMA NotifyKeepsCore ==
  ASSUME Core, NEW t \in Threads, notify_one(t)
  PROVE  Core'
<1> USE DEF Core, at, goto
<1>1. CASE cv_ = {}
  <2>1. TypeOK'
    BY <1>1 DEF TypeOK, notify_one
  <2>2. MutexHeld'
    BY <1>1 DEF TypeOK, MutexHeld, notify_one
  <2>3. Places'
    BY <1>1 DEF TypeOK, Places, notify_one
  <2>4. FrontKept'
    BY <1>1 DEF TypeOK, FrontKept, notify_one
  <2> QED
    BY <2>1, <2>2, <2>3, <2>4
<1>2. CASE cv_ # {}
  <2>1. PICK w \in cv_ : /\ cv_' = cv_ \ {w}
                         /\ pc' = [pc EXCEPT ![t] = "unlock", ![w] = "relock"]
    BY <1>2 DEF notify_one
  <2>2. w \in Threads /\ pc[w] = "wait" /\ pc[t] = "notify" /\ w # t
    BY <2>1 DEF notify_one, TypeOK, Places
  <2>3. UNCHANGED <<queue_, mut_, op, val>>
    BY DEF notify_one
  <2>4. TypeOK'
    BY <2>1, <2>2, <2>3 DEF TypeOK
  <2>5. MutexHeld'
    BY <2>1, <2>2, <2>3 DEF TypeOK, MutexHeld
  <2>6. Places'
    BY <2>1, <2>2, <2>3 DEF TypeOK, Places
  <2>7. FrontKept'
    BY <2>1, <2>2, <2>3 DEF TypeOK, FrontKept
  <2> QED
    BY <2>4, <2>5, <2>6, <2>7
<1> QED
  BY <1>1, <1>2

LEMMA WaitKeepsCore ==
  ASSUME Core, NEW t \in Threads, wait(t)
  PROVE  Core'
<1> USE DEF Core, at, goto, wait
<1>1. TypeOK'
  BY DEF TypeOK
<1>2. MutexHeld'
  BY ThreadsAssumption DEF TypeOK, MutexHeld
<1>3. Places'
  BY DEF TypeOK, Places
<1>4. FrontKept'
  BY DEF TypeOK, FrontKept
<1> QED
  BY <1>1, <1>2, <1>3, <1>4

LEMMA WakeupKeepsCore ==
  ASSUME Core, NEW t \in Threads, spuriousWakeup(t)
  PROVE  Core'
<1> USE DEF Core, at, goto, spuriousWakeup
<1>1. TypeOK'
  BY DEF TypeOK
<1>2. MutexHeld'
  BY DEF TypeOK, MutexHeld, Places
<1>3. Places'
  BY DEF TypeOK, Places
<1>4. FrontKept'
  BY DEF TypeOK, FrontKept
<1> QED
  BY <1>1, <1>2, <1>3, <1>4

LEMMA ReadKeepsCore ==
  ASSUME Core, NEW t \in Threads, findEmpty(t) \/ front(t)
  PROVE  Core'
<1> USE DEF Core, at, goto
<1>1. TypeOK'
  BY DEF TypeOK, findEmpty, front
<1>2. MutexHeld'
  BY DEF TypeOK, MutexHeld, findEmpty, front
<1>3. Places'
  BY DEF TypeOK, Places, findEmpty, front
<1>4. FrontKept'
  BY DEF TypeOK, FrontKept, findEmpty, front
<1> QED
  BY <1>1, <1>2, <1>3, <1>4

LEMMA PopKeepsCore ==
  ASSUME Core, NEW t \in Threads, pop(t)
  PROVE  Core'
<1> USE DEF Core, at, goto, pop
<1>1. TypeOK'
  BY DEF TypeOK, FrontKept
<1>2. MutexHeld'
  BY DEF TypeOK, MutexHeld
<1>3. Places'
  BY DEF TypeOK, Places
<1>4. FrontKept'
  BY DEF TypeOK, FrontKept, MutexHeld
<1> QED
  BY <1>1, <1>2, <1>3, <1>4

LEMMA UnlockKeepsCore ==
  ASSUME Core, NEW t \in Threads, unlock(t)
  PROVE  Core'
<1> USE DEF Core, at, goto, unlock
<1>1. TypeOK'
  BY DEF TypeOK
<1>2. MutexHeld'
  BY ThreadsAssumption DEF TypeOK, MutexHeld
<1>3. Places'
  BY NoneAssumption DEF TypeOK, Places, Operations
<1>4. FrontKept'
  BY DEF TypeOK, FrontKept
<1> QED
  BY <1>1, <1>2, <1>3, <1>4

LEMMA NextKeepsCore == Core /\ [Next]_vars => Core'
<1> SUFFICES ASSUME Core, [Next]_vars PROVE Core'
  OBVIOUS
<1>1. CASE UNCHANGED vars
  BY <1>1 DEF Core, TypeOK, MutexHeld, Places, FrontKept, at, vars
<1>2. CASE Next
  <2>1. PICK t \in Threads : \/ callPush(t) \/ callPop(t) \/ lock(t)
                             \/ critical(t) \/ spuriousWakeup(t)
    BY <1>2 DEF Next
  <2>2. CASE callPush(t) \/ callPop(t)
    BY <2>2, CallKeepsCore
  <2>3. CASE lock(t)
    BY <2>3, LockKeepsCore
  <2>4. CASE critical(t)
    BY <2>4, PushKeepsCore, NotifyKeepsCore, WaitKeepsCore, ReadKeepsCore,
       PopKeepsCore, UnlockKeepsCore DEF critical
  <2>5. CASE spuriousWakeup(t)
    BY <2>5, WakeupKeepsCore
  <2> QED
    BY <2>1, <2>2, <2>3, <2>4, <2>5
<1> QED
  BY <1>1, <1>2

(***************************************************************************)
(* Counting.  An action that does not take an element, nor a thread out of *)
(* the active ones, keeps the count above the queue's length.              *)
(***************************************************************************)
LEMMA MoreActive ==
  ASSUME Core, Core', NoLostWakeup, active \subseteq active',
         Len(queue_') = Len(queue_), cv_' # {} => cv_ # {}
  PROVE  NoLostWakeup'
<1>1. IsFiniteSet(active') /\ Cardinality(active') \in Nat
  BY ThreadsAssumption, FS_Subset, FS_CardinalityType DEF active
<1>2. Cardinality(active) <= Cardinality(active')
  BY <1>1, FS_Subset
<1>3. Len(queue_) \in Nat
  BY DEF Core, TypeOK
<1> QED
  BY <1>1, <1>2, <1>3, ActiveFinite DEF NoLostWakeup, active

LEMMA CallKeepsCount ==
  ASSUME IInv, Core', NEW t \in Threads, callPush(t) \/ callPop(t) \/ lock(t)
  PROVE  NoLostWakeup'
<1> USE DEF at, goto, IInv, Core
<1>1. active \subseteq active'
  BY DEF active, Active, callPush, callPop, lock, TypeOK
<1>2. UNCHANGED <<queue_, cv_>>
  BY DEF callPush, callPop, lock
<1> QED
  BY <1>1, <1>2, MoreActive

LEMMA PushKeepsCount ==
  ASSUME IInv, Core', NEW t \in Threads, push(t)
  PROVE  NoLostWakeup'
<1> USE DEF at, goto, IInv, Core, push
<1>1. active' = active \cup {t} /\ t \notin active
  BY DEF active, Active, TypeOK
<1>2. Cardinality(active') = Cardinality(active) + 1
  BY <1>1, ActiveFinite, FS_AddElement
<1>3. Len(queue_') = Len(queue_) + 1 /\ Len(queue_) \in Nat
  BY DEF TypeOK, Places
<1> QED
  BY <1>2, <1>3, ActiveFinite DEF NoLostWakeup, active

LEMMA NotifyKeepsCount ==
  ASSUME IInv, Core', NEW t \in Threads, notify_one(t)
  PROVE  NoLostWakeup'
<1> USE DEF at, goto, IInv, Core
<1>1. CASE cv_ = {}
  BY <1>1 DEF notify_one, NoLostWakeup
<1>2. CASE cv_ # {}
  <2>1. PICK w \in cv_ : /\ cv_' = cv_ \ {w}
                         /\ pc' = [pc EXCEPT ![t] = "unlock", ![w] = "relock"]
    BY <1>2 DEF notify_one
  <2>2. w \in Threads /\ pc[w] = "wait" /\ op[w] = "pop_wait" /\ w # t
    BY <2>1 DEF notify_one, TypeOK, Places
  <2>3. /\ active' = (active \ {t}) \cup {w}
        /\ t \in active /\ w \notin active
    BY <2>1, <2>2 DEF notify_one, active, Active, TypeOK
  <2>4. /\ IsFiniteSet(active \ {t})
        /\ Cardinality(active \ {t}) = Cardinality(active) - 1
    BY <2>3, ActiveFinite, FS_RemoveElement
  <2> DEFINE rest == active \ {t}
  <2>5. Cardinality(active') = Cardinality(active)
    <3>1. Cardinality(rest \cup {w}) = Cardinality(rest) + 1
      BY <2>3, <2>4, FS_AddElement
    <3> QED
      BY <2>3, <2>4, <3>1, ActiveFinite
  <2>6. UNCHANGED queue_
    BY DEF notify_one
  <2> QED
    BY <2>1, <2>5, <2>6 DEF NoLostWakeup, active
<1> QED
  BY <1>1, <1>2

(* A thread that waits, or finds nothing, does so because there is         *)
(* nothing.                                                                *)
LEMMA EmptyKeepsCount ==
  ASSUME IInv, Core', NEW t \in Threads, wait(t) \/ findEmpty(t)
  PROVE  NoLostWakeup'
<1>1. Len(queue_') = 0
  BY DEF wait, findEmpty
<1>2. Cardinality(active') \in Nat
  BY ThreadsAssumption, FS_Subset, FS_CardinalityType DEF active
<1> QED
  BY <1>1, <1>2 DEF NoLostWakeup, active

LEMMA WakeupKeepsCount ==
  ASSUME IInv, Core', NEW t \in Threads, spuriousWakeup(t)
  PROVE  NoLostWakeup'
<1> USE DEF at, goto, IInv, Core, spuriousWakeup
<1>1. active \subseteq active'
  BY DEF active, Active, TypeOK, Places
<1> QED
  BY <1>1, MoreActive

LEMMA FrontKeepsCount ==
  ASSUME IInv, Core', NEW t \in Threads, front(t) \/ unlock(t)
  PROVE  NoLostWakeup'
<1> USE DEF at, goto, IInv, Core
<1>1. active \subseteq active'
  BY DEF active, Active, front, unlock, TypeOK
<1>2. UNCHANGED <<queue_, cv_>>
  BY DEF front, unlock
<1> QED
  BY <1>1, <1>2, MoreActive

LEMMA PopKeepsCount ==
  ASSUME IInv, Core', NEW t \in Threads, pop(t)
  PROVE  NoLostWakeup'
<1> USE DEF at, goto, IInv, Core, pop
<1>1. active \ {t} \subseteq active'
  BY DEF active, Active, TypeOK
<1>2. Cardinality(active \ {t}) >= Cardinality(active) - 1
  <2>1. Cardinality(active \ {t}) =
          IF t \in active THEN Cardinality(active) - 1 ELSE Cardinality(active)
    BY ActiveFinite, FS_RemoveElement
  <2> QED
    BY <2>1, ActiveFinite
<1>3. IsFiniteSet(active') /\ Cardinality(active') \in Nat
  BY ThreadsAssumption, FS_Subset, FS_CardinalityType DEF active
<1>4. Cardinality(active \ {t}) \in Nat /\ Cardinality(active \ {t}) <= Cardinality(active')
  BY <1>1, <1>3, ActiveFinite, FS_Subset, FS_RemoveElement, FS_CardinalityType
<1>5. Len(queue_') = Len(queue_) - 1 /\ Len(queue_) \in Nat
  BY DEF TypeOK, FrontKept
<1> QED
  BY <1>2, <1>3, <1>4, <1>5, ActiveFinite DEF NoLostWakeup, active

LEMMA NextKeepsCount == IInv /\ [Next]_vars => NoLostWakeup'
<1> SUFFICES ASSUME IInv, [Next]_vars PROVE NoLostWakeup'
  OBVIOUS
<1>1. Core'
  BY NextKeepsCore DEF IInv, Core
<1>2. CASE UNCHANGED vars
  BY <1>2 DEF IInv, NoLostWakeup, Active, at, vars
<1>3. CASE Next
  <2>1. PICK t \in Threads : \/ callPush(t) \/ callPop(t) \/ lock(t)
                             \/ critical(t) \/ spuriousWakeup(t)
    BY <1>3 DEF Next
  <2>2. CASE callPush(t) \/ callPop(t) \/ lock(t)
    BY <1>1, <2>2, CallKeepsCount
  <2>3. CASE critical(t)
    BY <1>1, <2>3, PushKeepsCount, NotifyKeepsCount, EmptyKeepsCount,
       FrontKeepsCount, PopKeepsCount DEF critical
  <2>4. CASE spuriousWakeup(t)
    BY <1>1, <2>4, WakeupKeepsCount
  <2> QED
    BY <2>1, <2>2, <2>3, <2>4
<1> QED
  BY <1>2, <1>3

(* The invariant is inductive: the mutex keeps what a thread has read and  *)
(* decided true until it acts on it (MutexHeld, FrontKept), and threads    *)
(* and elements are counted together (NoLostWakeup).                       *)
THEOREM SafeQueueInvariant == Spec => []IInv
<1>1. Init => IInv
  BY InitCore
<1>2. IInv /\ [Next]_vars => IInv'
  BY NextKeepsCore, NextKeepsCount DEF IInv, Core
<1> QED
  BY <1>1, <1>2, PTL DEF Spec

(* While a thread waits in pop_wait, every element of the queue has a      *)
(* thread of its own on its way to take it or to notify one that will.     *)
THEOREM SafeQueueWakes == Spec => []NoLostWakeup
<1>1. IInv => NoLostWakeup
  BY DEF IInv
<1> QED
  BY <1>1, SafeQueueInvariant, PTL

(* An action of one thread changes what that thread's caller sees only.    *)
LEMMA SeenByOne ==
  ASSUME TypeOK, TypeOK', NEW t \in Threads,
         \A u \in Threads \ {t} : /\ pc'[u] = pc[u]
                                  /\ op'[u] = op[u]
                                  /\ val'[u] = val[u]
  PROVE  seen' = [seen EXCEPT ![t] = seen'[t]]
<1>1. \A u \in Threads \ {t} : seen'[u] = seen[u]
  BY DEF seen, at
<1>2. /\ seen = [u \in Threads |-> seen[u]]
      /\ seen' = [u \in Threads |-> seen'[u]]
  BY DEF seen
<1> HIDE DEF seen
<1> QED
  BY <1>1, <1>2

(* SafeQueue implements the atomic queue: an operation takes effect in the *)
(* step that changes queue_, or finds it empty.                            *)
THEOREM SafeQueueIsAtomic == Spec => ImplementsAtomicQueue
<1> USE DEF at, goto, seen
<1>1. Init => Atomic!Init
  BY DEF Init, Atomic!Init, Atomic!Idle
<1>2. ASSUME IInv, IInv', [Next]_vars
      PROVE  [Atomic!Next]_Atomic!vars
  <2> USE DEF IInv
  <2>1. CASE UNCHANGED vars
    BY <1>2, <2>1 DEF vars, Atomic!vars
  <2>2. ASSUME NEW t \in Threads, callPush(t)
        PROVE  Atomic!Call(t)
    <3>1. PICK v \in Values : val' = [val EXCEPT ![t] = v]
      BY <2>2 DEF callPush
    <3>2. seen[t] = Atomic!Idle /\ seen'[t] = <<"push", v>>
      BY <1>2, <2>2, <3>1 DEF callPush, TypeOK, Atomic!Idle
    <3>3. seen' = [seen EXCEPT ![t] = seen'[t]]
      BY <1>2, <2>2, <3>1, SeenByOne DEF callPush, TypeOK
    <3>4. <<"push", v>> \in Atomic!Operations
      BY DEF Atomic!Operations
    <3> QED
      BY <2>2, <3>2, <3>3, <3>4 DEF callPush, Atomic!Call
  <2>3. ASSUME NEW t \in Threads, callPop(t)
        PROVE  Atomic!Call(t)
    <3>1. PICK o \in {"pop_wait", "try_pop"} : op' = [op EXCEPT ![t] = o]
      BY <2>3 DEF callPop
    <3>2. seen[t] = Atomic!Idle /\ seen'[t] = <<o, None>>
      BY <1>2, <2>3, <3>1 DEF callPop, TypeOK, Atomic!Idle
    <3>3. seen' = [seen EXCEPT ![t] = seen'[t]]
      BY <1>2, <2>3, <3>1, SeenByOne DEF callPop, TypeOK
    <3>4. <<o, None>> \in Atomic!Operations
      BY DEF Atomic!Operations
    <3> QED
      BY <2>3, <3>2, <3>3, <3>4 DEF callPop, Atomic!Call
  <2>4. ASSUME NEW t \in Threads, lock(t)
        PROVE  UNCHANGED Atomic!vars
    BY <1>2, <2>4 DEF lock, TypeOK, Atomic!vars
  <2>5. ASSUME NEW t \in Threads, push(t)
        PROVE  Atomic!Push(t)
    BY <1>2, <2>5 DEF push, TypeOK, Atomic!Push
  <2>6. ASSUME NEW t \in Threads, notify_one(t)
        PROVE  UNCHANGED Atomic!vars
    BY <1>2, <2>6 DEF notify_one, TypeOK, Places, Atomic!vars
  <2>7. ASSUME NEW t \in Threads, wait(t) \/ spuriousWakeup(t)
        PROVE  UNCHANGED Atomic!vars
    <3>1. /\ seen'[t] = seen[t]
          /\ seen' = [seen EXCEPT ![t] = seen'[t]]
      BY <1>2, <2>7, SeenByOne DEF wait, spuriousWakeup, TypeOK, Places
    <3>2. seen' = seen
      BY <3>1
    <3> QED
      BY <2>7, <3>2 DEF wait, spuriousWakeup, Atomic!vars
  <2>8. ASSUME NEW t \in Threads, findEmpty(t)
        PROVE  Atomic!FindEmpty(t)
    BY <1>2, <2>8 DEF findEmpty, TypeOK, Places, Atomic!FindEmpty
  <2>9. ASSUME NEW t \in Threads, front(t)
        PROVE  UNCHANGED Atomic!vars
    BY <1>2, <2>9 DEF front, TypeOK, Atomic!vars
  <2>10. ASSUME NEW t \in Threads, pop(t)
         PROVE  Atomic!Pop(t)
    <3>1. seen[t] = <<op[t], None>> /\ op[t] \in {"pop_wait", "try_pop"}
      BY <1>2, <2>10 DEF pop, TypeOK, Places
    <3>2. seen'[t] = <<"done", Head(queue_)>> /\ queue_ # <<>>
      BY <1>2, <2>10, <3>1 DEF pop, TypeOK, FrontKept
    <3>3. seen' = [seen EXCEPT ![t] = seen'[t]]
      BY <1>2, <2>10, SeenByOne DEF pop, TypeOK
    <3> QED
      BY <2>10, <3>1, <3>2, <3>3 DEF pop, Atomic!Pop
  <2>11. ASSUME NEW t \in Threads, unlock(t)
         PROVE  Atomic!Return(t)
    BY <1>2, <2>11 DEF unlock, TypeOK, Atomic!Return, Atomic!Idle
  <2> QED
    BY <1>2, <2>1, <2>2, <2>3, <2>4, <2>5, <2>6, <2>7, <2>8, <2>9, <2>10, <2>11
    DEF Next, critical, Atomic!Next
<1> QED
  BY <1>1, <1>2, SafeQueueInvariant, PTL DEF Spec, ImplementsAtomicQueue, Atomic!Spec
==============================================================================
