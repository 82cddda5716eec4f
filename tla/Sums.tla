-------------------------------- MODULE Sums --------------------------------
(* The sum of a function over a finite set, written as a recursive         *)
(* function, so that it can be proved about.                               *)
EXTENDS Integers

\* sum(f[x] for x in S)
SumOver(f, S) ==
  LET sum[T \in SUBSET S] ==
        IF T = {} THEN 0
        ELSE LET x == CHOOSE y \in T : TRUE IN f[x] + sum[T \ {x}]
  IN sum[S]
=============================================================================
