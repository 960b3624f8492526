----------------------------- MODULE MCChatView -----------------------------
(* Two chats and a message that a peer sends to one of them.               *)
EXTENDS ChatView, TLC

CONSTANTS a, b, m1, m2

MCChats == {a, b}
MCMessages == {m1}
MCOwn == {}
MCSymmetry == Permutations(MCChats)
=============================================================================
