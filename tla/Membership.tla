----------------------------- MODULE Membership -----------------------------
(***************************************************************************)
(* What a group promises its members, without requests and checks: it      *)
(* keeps its creator for as long as it exists, people join as plain        *)
(* members and leave one at a time, and a deleted group stays deleted.     *)
(* The server's transactions implement it, see Groups.                     *)
(***************************************************************************)
CONSTANTS People, Creator, Founders

VARIABLES
    there,  \* whether the group exists
    role    \* the roles of its members

membershipvars == <<there, role>>

In == DOMAIN role
With(u, r) == [v \in In \cup {u} |-> IF v = u THEN r ELSE role[v]]

Found ==
    /\ there = TRUE
    /\ role = [u \in {Creator} \cup Founders |-> IF u = Creator THEN "creator" ELSE "member"]

\* Nothing keeps an addition that was under way out of a deleted group.
Join(u) == u \notin In /\ role' = With(u, "member") /\ UNCHANGED there

Go(u) ==
    /\ u \in In /\ role[u] # "creator"
    /\ role' = [v \in In \ {u} |-> role[v]]
    /\ UNCHANGED there

Become(u, r) ==
    /\ u \in In /\ role[u] # "creator"
    /\ role' = With(u, r)
    /\ UNCHANGED there

Dissolve == there' = FALSE /\ role' = [u \in {} |-> "member"]

Change ==
    \/ \E u \in People : Join(u) \/ Go(u) \/ \E r \in {"admin", "member"} : Become(u, r)
    \/ Dissolve

Kept == Found /\ [][Change]_membershipvars
=============================================================================
