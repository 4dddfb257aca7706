-------------------------- MODULE MCClientLifecycle --------------------------
(***************************************************************************)
(* ClientLifecycle for TLC.  The object slots of one kind are              *)
(* interchangeable, and so are the processes that are still to be forked.  *)
(***************************************************************************)
EXTENDS ClientLifecycle, TLC

Symmetry == Permutations(Pid \ {Root}) \cup Permutations(Mgr)
              \cup Permutations(Cur) \cup Permutations(Sess)
=============================================================================
