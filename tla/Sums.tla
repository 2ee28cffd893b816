--------------------------------- MODULE Sums ---------------------------------
(***************************************************************************)
(* The sum of a function over a finite set, for the ledgers.               *)
(***************************************************************************)
EXTENDS FiniteSetsExt

SumOver(f, set) == MapThenSumSet(LAMBDA x : f[x], set)
=============================================================================
