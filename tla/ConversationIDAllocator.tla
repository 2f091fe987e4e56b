----------------------- MODULE ConversationIDAllocator ------------------------
(***************************************************************************)
(* arq::ConversationIDAllocator.  Identifiers have 8 bits; the next one    *)
(* after the last allocated that is free is taken, around the end of the   *)
(* range, and a full range is an exception.                                *)
(***************************************************************************)
EXTENDS Integers, FiniteSets

CONSTANT IDModulus  \* 2^8: ConversationID is uint8_t

ASSUME IDModulusAssumption == IDModulus \in Nat \ {0}

IDs == 0 .. IDModulus - 1

Allocators == [lastAllocated : IDs, allocatedIDs : SUBSET IDs]

newAllocator == [lastAllocated |-> 0, allocatedIDs |-> {}]

(* When this is false getNewID throws ConversationIDError.                 *)
hasFreeID(a) == Cardinality(a.allocatedIDs) # IDModulus

(* The value of ++lastAllocated in the k-th round of the loop.             *)
candidate(a, k) == (a.lastAllocated + k) % IDModulus

(* The rounds at which the loop would stop.                                *)
freeRounds(a) == {k \in 1 .. IDModulus : candidate(a, k) \notin a.allocatedIDs}

(* A variant with a bug: what comes next is taken for free.                *)
getNewID_unchecked(a) ==
  [lastAllocated |-> candidate(a, 1),
   allocatedIDs  |-> a.allocatedIDs \cup {candidate(a, 1)}]

(* The identifier returned is the new lastAllocated.                       *)
getNewID(a) ==
  LET k == CHOOSE k \in freeRounds(a) : \A j \in freeRounds(a) : k <= j
  IN  [lastAllocated |-> candidate(a, k),
       allocatedIDs  |-> a.allocatedIDs \cup {candidate(a, k)}]

registerID(a, id) == [a EXCEPT !.allocatedIDs = @ \cup {id}]

releaseID(a, id) == [a EXCEPT !.allocatedIDs = @ \ {id}]

(* The next identifier is one that is not in use, unless all are, and the  *)
(* loop finds it within one turn.                                          *)
NextIDIsFresh(a) ==
  hasFreeID(a) => /\ freeRounds(a) # {}
                  /\ getNewID(a).lastAllocated \notin a.allocatedIDs
                  /\ getNewID(a) \in Allocators
==============================================================================
