-------------------------- MODULE MCPresenceFanout --------------------------
(* alice connects twice, one after the other or at once; bob watches from one device. *)
EXTENDS PresenceFanout

CONSTANTS alice, bob, a1, a2, b1

MCOwner == [c \in {a1, a2, b1} |-> IF c = b1 THEN bob ELSE alice]
MCWatches == {<<b1, alice>>}

=============================================================================
