----------------------------- MODULE MCNodeJobs -----------------------------
(* TLC instances of NodeJobs.  Passes, slots and jobs are interchangeable, *)
(* except that a job is paid or not.                                       *)
EXTENDS NodeJobs, TLC

Symmetry == Permutations(PassIds) \cup Permutations(Slots)
=============================================================================
