----------------------------- MODULE MCComposer -----------------------------
(* The user's window, the creator of the group, and the other user of the    *)
(* direct chat, who is not a member at first.                                *)
EXTENDS Composer

CONSTANTS ann, me, bob

MCPeople == {ann, me, bob}
MCFounders == {me}
MCKeyed == {ann, me}

Focus(on, moves, thoughts) == [on |-> on, moves |-> moves, thoughts |-> thoughts]
MCFocuses == {Focus({"members", "breaks"}, 2, 0), Focus({"members"}, 2, 1),
              Focus({"members", "files"}, 1, 0),
              Focus({"text"}, 2, 2), Focus({"text", "breaks"}, 3, 1),
              Focus({"text", "others"}, 2, 1), Focus({"files"}, 1, 1),
              Focus({"files", "breaks"}, 2, 0), Focus({"files", "others"}, 2, 0)}
=============================================================================
