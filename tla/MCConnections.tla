--------------------------- MODULE MCConnections ---------------------------
(* One account on three devices; the limit of two makes the third attempt race it. *)
EXTENDS Connections

CONSTANTS alice, a1, a2, a3

MCOwner == [c \in {a1, a2, a3} |-> alice]

=============================================================================
