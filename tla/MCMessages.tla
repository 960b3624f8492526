----------------------------- MODULE MCMessages -----------------------------
(* Requests on one chat; messages, files and requests are interchangeable. *)
EXTENDS Messages, TLC

MCSymmetry == Permutations(Messages) \cup Permutations(Files) \cup Permutations(Reqs)

=============================================================================
