--------------------------- MODULE IdealDRAMSystem ---------------------------
(***************************************************************************)
(* class IdealDRAMSystem: a memory system with a buffer without bound,     *)
(* which is meant to return each request latency_ cycles after it was      *)
(* added.  It is the second implementation of MemoryService.               *)
(***************************************************************************)
EXTENDS Integers, Sequences, FiniteSets

CONSTANTS
    Requests,  \* the requests that may be added
    latency_,  \* config_.ideal_memory_latency
    MaxQueue   \* bound: requests in the buffer

ASSUME IdealAssumption == latency_ \in Nat /\ MaxQueue \in Nat \ {0}

VARIABLES
    infinite_buffer_q_,  \* requests with their age, clk_ - added_cycle
    returned             \* callbacks made by the last step: request -> how many

idealVars == <<infinite_buffer_q_, returned>>

NoneReturned == [t \in Requests |-> 0]

IdealInit == infinite_buffer_q_ = <<>> /\ returned = NoneReturned

(* WillAcceptTransaction is always true.                                   *)
AddTransaction(t) ==
    /\ Len(infinite_buffer_q_) < MaxQueue
    /\ infinite_buffer_q_' = Append(infinite_buffer_q_, [trans |-> t, age |-> 0])
    /\ returned' = NoneReturned

(* Mutant: an overdue request is never looked at again.                    *)
Due_OnTime(q, i) == q[i].age = latency_

Due(q, i) == q[i].age >= latency_

(***************************************************************************)
(* The positions the loop of ClockTick erases: when it has erased an       *)
(* element it steps over the one that follows, so position i is looked at  *)
(* unless position i - 1 has just been erased.                             *)
(***************************************************************************)
Served(q) ==
    LET s[i \in 0 .. Len(q)] ==
          IF i = 0 THEN {}
          ELSE IF i - 1 \notin s[i - 1] /\ Due(q, i) THEN s[i - 1] \cup {i}
          ELSE s[i - 1]
    IN s[Len(q)]

Older(entry) == [entry EXCEPT !.age = @ + 1]

(* Mutant: a request that is due is returned but not erased.               *)
Rest_Keeps(q, served) == [i \in DOMAIN q |-> Older(q[i])]

(* The buffer without the positions in served, one cycle later.            *)
Rest(q, served) ==
    LET r[i \in 0 .. Len(q)] ==
          IF i = 0 THEN <<>>
          ELSE IF i \in served THEN r[i - 1]
          ELSE Append(r[i - 1], Older(q[i]))
    IN r[Len(q)]

Return(q, served) ==
    /\ returned' = [t \in Requests |-> Cardinality({i \in served : q[i].trans = t})]
    /\ infinite_buffer_q_' = Rest(q, served)

ClockTick == Return(infinite_buffer_q_, Served(infinite_buffer_q_))

IdealNext == (\E t \in Requests : AddTransaction(t)) \/ ClockTick

IdealSpec == IdealInit /\ [][IdealNext]_idealVars

-----------------------------------------------------------------------------
(* Cycles by which the request at position i is overdue at the next tick.  *)
Late(i) == infinite_buffer_q_[i].age - latency_

Pow2(k) == LET p[i \in 0 .. k] == IF i = 0 THEN 1 ELSE 2 * p[i - 1] IN p[k]

(* The loop may pass over a request again and again, but each time half of *)
(* what is ahead of it leaves: a request that is k cycles late at position *)
(* i was at position i * 2^k when it fell due.  So none is late by more    *)
(* than the logarithm of the requests in the buffer.                       *)
LatenessBounded ==
    \A i \in DOMAIN infinite_buffer_q_ :
        Late(i) > 0 => i * Pow2(Late(i)) <= MaxQueue

(* Each request is returned exactly once, although the loop erases         *)
(* elements of the vector it walks over.                                   *)
Count(t) == Cardinality({i \in DOMAIN infinite_buffer_q_ : infinite_buffer_q_[i].trans = t})

Service == INSTANCE MemoryService WITH outstanding <- [t \in Requests |-> Count(t)]

ImplementsService == Service!Spec

=============================================================================
