--------------------------- MODULE MCJobRuntime ---------------------------
(***************************************************************************)
(* Instances of JobRuntime for TLC: one job, whose two keys are two input  *)
(* hashes of one artifact, and runtimes of one provider.                   *)
(***************************************************************************)
EXTENDS JobRuntime, TLC

CONSTANTS r1, r2, p1, j1, k1, k2

MCJobOf == [k \in Key |-> j1]
MCProviderOf == [r \in Runtime |-> p1]
MCCeiling == [r \in Runtime |-> 1]

(* Two runtimes of one provider, and two keys of one job, are alike.       *)
RuntimesAndKeys == Permutations({r1, r2}) \cup Permutations({k1, k2})
=============================================================================
