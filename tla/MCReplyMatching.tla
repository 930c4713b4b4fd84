--------------------------- MODULE MCReplyMatching ---------------------------
(* ReplyMatching on a small instance.  The calls of Invoke are alike, and so
   are the calls of Close, so the runs without liveness properties use their
   symmetry. *)
EXTENDS ReplyMatching, TLC

Symmetry == Permutations(Calls) \cup Permutations(Closers)
=============================================================================
