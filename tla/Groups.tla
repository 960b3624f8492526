------------------------------- MODULE Groups -------------------------------
(***************************************************************************)
(* A group chat on the server (services/group_service.go,                  *)
(* handlers/group.go, the group half of chat_service.go): who belongs to   *)
(* it with which role, and what it stores.                                 *)
(*                                                                         *)
(* A request is two steps, its checks and its transaction, with other      *)
(* requests in between; removing, leaving and deleting are announced to    *)
(* the members before the checks.  Names, avatars and system messages are  *)
(* left out.  One user's view of the group is the concern of Composer.     *)
(***************************************************************************)
EXTENDS Naturals, Sequences, FiniteSets, E2E

CONSTANTS
    People,     \* registered users
    Creator,    \* who made the group
    Founders,   \* the members it was made with
    Keyed,      \* those who surely have a published key from the start
    MaxMembers  \* maxGroupMembers

ASSUME GroupsAssumption ==
    /\ Founders \subseteq People \ {Creator} /\ Creator \in People
    /\ Founders # {}
    /\ Keyed \subseteq People
    /\ MaxMembers \in Nat \ {0}

VARIABLES
    there,      \* whether the row of the chat exists
    role,       \* the roles of the active participants
    keyed,      \* people with a published key
    reqs        \* requests under way

groupvars == <<there, role, keyed, reqs>>

Members == DOMAIN role
IsAdmin(u) == u \in Members /\ role[u] \in {"admin", "creator"}
IsCreator(u) == u \in Members /\ role[u] = "creator"

\* What GetGroupParticipantKeys answers.
PublishedKey(u) == IF u \in keyed THEN PublicKey(u) ELSE NoKey
GroupKeys == [u \in Members |-> PublishedKey(u)]

WithRole(u, r) == [v \in Members \cup {u} |-> IF v = u THEN r ELSE role[v]]
Dropped(u) == [v \in Members \ {u} |-> role[v]]

\* moved: history, people whose membership changed since the checks.
Request(kind, by, of, step) ==
    [kind |-> kind, by |-> by, of |-> of, step |-> step, moved |-> {}]
Settled(S, who) == {[r EXCEPT !.moved = @ \cup who] : r \in S}

\* A fresh group, as createGroupInTx leaves it.
GroupsInit ==
    /\ there = TRUE
    /\ role = [u \in {Creator} \cup Founders |-> IF u = Creator THEN "creator" ELSE "member"]
    /\ keyed \in {S \in SUBSET People : Keyed \subseteq S}
    /\ reqs = {}

\* The checks of AddMembers, one id at a time, against a count read before the transaction.
CheckAdd(a, u) ==
    /\ IsAdmin(a)
    /\ Cardinality(Members) + 1 <= MaxMembers
    /\ reqs' = reqs \cup {Request("add", a, u, "write")}
    /\ UNCHANGED <<there, role, keyed>>

\* addOrRestoreMember: an active member is skipped; the chat is not looked at again.
WriteAdd(r) ==
    /\ r.kind = "add"
    /\ role' = IF r.of \in Members THEN role ELSE WithRole(r.of, "member")
    /\ reqs' = Settled(reqs \ {r}, {r.of} \ Members)
    /\ UNCHANGED <<there, keyed>>

\* RemoveMemberAPI and groupAction send their frame first, whoever asks.
AnnounceRemoval(a, u) ==
    /\ reqs' = reqs \cup {Request("remove", a, u, "check")}
    /\ UNCHANGED <<there, role, keyed>>
AnnounceLeave(u) ==
    /\ reqs' = reqs \cup {Request("leave", u, u, "check")}
    /\ UNCHANGED <<there, role, keyed>>
AnnounceDeletion(a) ==
    /\ reqs' = reqs \cup {Request("delete", a, a, "check")}
    /\ UNCHANGED <<there, role, keyed>>

\* Mutant: nobody looks at the target's role.
MayRemoveAnybody(r) == IsAdmin(r.by) /\ r.of \in Members

\* An admin removes members; the creator removes admins too; nobody removes the creator.
MayRemove(r) ==
    /\ IsAdmin(r.by) /\ r.of \in Members /\ ~IsCreator(r.of)
    /\ role[r.of] = "admin" => IsCreator(r.by)
MayLeave(r) == r.of \in Members /\ ~IsCreator(r.of)
MayDelete(r) == IsCreator(r.by)

CheckAnnounced(r) ==
    /\ r.step = "check"
    /\ \/ /\ \/ r.kind = "remove" /\ MayRemove(r)
             \/ r.kind = "leave" /\ MayLeave(r)
             \/ r.kind = "delete" /\ MayDelete(r)
          /\ reqs' = (reqs \ {r}) \cup {[r EXCEPT !.step = "write"]}
       \/ /\ \/ r.kind = "remove" /\ ~MayRemove(r)
             \/ r.kind = "leave" /\ ~MayLeave(r)
             \/ r.kind = "delete" /\ ~MayDelete(r)
          /\ reqs' = reqs \ {r}
    /\ UNCHANGED <<there, role, keyed>>

\* The transaction of RemoveMember and LeaveGroup; a row that is gone already is no error.
WriteRemoval(r) ==
    /\ r.kind \in {"remove", "leave"} /\ r.step = "write"
    /\ role' = Dropped(r.of)
    /\ reqs' = Settled(reqs \ {r}, {r.of} \cap Members)
    /\ UNCHANGED <<there, keyed>>

\* ChangeRole: the creator makes a member an admin or an admin a member.
CheckRole(a, u, new) ==
    /\ IsCreator(a) /\ u \in Members /\ ~IsCreator(u)
    /\ new \in {"admin", "member"} /\ role[u] # new
    /\ reqs' = reqs \cup {Request(new, a, u, "write")}
    /\ UNCHANGED <<there, role, keyed>>

\* UpdateRole touches active rows only.
WriteRole(r) ==
    /\ r.kind \in {"admin", "member"}
    /\ role' = IF r.of \in Members THEN WithRole(r.of, r.kind) ELSE role
    /\ reqs' = reqs \ {r}
    /\ UNCHANGED <<there, keyed>>

\* purgeGroupData.
Purge(r) ==
    /\ r.kind = "delete" /\ r.step = "write"
    /\ there' = FALSE
    /\ role' = [u \in {} |-> "member"]
    /\ reqs' = Settled(reqs \ {r}, Members)
    /\ UNCHANGED <<keyed>>

\* A statement fails, the transaction is rolled back, the caller gets an error.
RequestFails(r) ==
    /\ r.step = "write"
    /\ reqs' = reqs \ {r}
    /\ UNCHANGED <<there, role, keyed>>

\* Somebody sets encryption up; nobody is told.
Onboard(u) ==
    /\ u \notin keyed /\ keyed' = keyed \cup {u}
    /\ UNCHANGED <<there, role, reqs>>

GroupTypes ==
    /\ there \in BOOLEAN /\ keyed \subseteq People
    /\ Members \subseteq People
    /\ \A u \in Members : role[u] \in {"member", "admin", "creator"}
    /\ \A r \in reqs : r.by \in People /\ r.step \in {"check", "write", "store"}

Promised == INSTANCE Membership WITH there <- there, role <- role

\* The group is kept as Membership promises whatever requests overlap: nobody removes,
\* demotes or replaces the creator, and no late request brings a deleted group back, although
\* an addition that passed its checks before still adds its people after.
GroupIsKept == Promised!Kept
=============================================================================
