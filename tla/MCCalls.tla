------------------------------ MODULE MCCalls ------------------------------
(* Two calls from alice to bob, or one each way; carol calls bob in the middle of a call. *)
EXTENDS Calls, TLC

CONSTANTS alice, bob, carol, k1, k2

MCSameCaller == [k \in {k1, k2} |-> alice]
MCSameCallee == [k \in {k1, k2} |-> bob]
MCTwoCallers == [k \in {k1, k2} |-> IF k = k1 THEN alice ELSE carol]

\* Two calls from alice to bob differ in nothing but their ids.
MCSymmetry == Permutations({k1, k2})

=============================================================================
