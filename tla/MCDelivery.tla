----------------------------- MODULE MCDelivery -----------------------------
(* Two messages for alice, who has two connection attempts. *)
EXTENDS Delivery

CONSTANTS alice, a1, a2

MCOwner == [c \in {a1, a2} |-> alice]

\* Bounds on what TLC explores.  The attempts differ in nothing but their names, so a1 may
\* come first.  Time matters only while an online user has a read loop in a handler and none
\* that reads: other silence is over with the next frame or pong.  And the pointers of the
\* receipts, which nothing here reads, are left at zero once the sweep has struck.
MCBounds ==
    /\ pc'[a2] # "closed" => pc'[a1] # "closed"
    /\ age'[alice] > age[alice] =>
        IsUserOnline(alice) /\ stalled # {} /\ ~ \E c \in Conns : Reading(c)
    /\ evicted' # {} => delivered' = 0

=============================================================================
