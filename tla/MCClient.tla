------------------------------ MODULE MCClient ------------------------------
(* One registered user and a newcomer; the session with the lock, the lock *)
(* alone, or the socket with the updates.                                  *)
EXTENDS Client

CONSTANTS ann, bob

MCUsers == {ann, bob}
MCNewcomers == {bob}
MCFocuses == {{"session", "lock"}, {"lock"}, {"socket", "updates"}}
=============================================================================
