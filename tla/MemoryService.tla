---------------------------- MODULE MemoryService ----------------------------
(***************************************************************************)
(* What a memory system promises the CPU model that drives it: a request,  *)
(* once accepted, is outstanding until a clock cycle returns it, and is    *)
(* returned once.  Any number of outstanding requests may be returned in a *)
(* cycle, in any order.                                                    *)
(***************************************************************************)
EXTENDS Integers

CONSTANT Requests

VARIABLES
    outstanding,  \* [Requests -> Nat], accepted and not yet returned
    returned      \* [Requests -> Nat], returned by the last step

Nothing == [t \in Requests |-> 0]

Init == outstanding = Nothing /\ returned = Nothing

Accept(t) ==
    /\ outstanding' = [outstanding EXCEPT ![t] = @ + 1]
    /\ returned' = Nothing

Cycle ==
    /\ \A t \in Requests : returned'[t] \in 0 .. outstanding[t]
    /\ outstanding' = [t \in Requests |-> outstanding[t] - returned'[t]]

Next == Cycle \/ (\E t \in Requests : Accept(t))

Spec == Init /\ [][Next]_<<outstanding, returned>>
=============================================================================
