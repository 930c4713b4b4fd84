-------------------------- MODULE MCClientLifecycle --------------------------
(* ClientLifecycle on a small instance: one Run, and a Start, a Close and a
   Dispatch from other goroutines. *)
EXTENDS ClientLifecycle
=============================================================================
