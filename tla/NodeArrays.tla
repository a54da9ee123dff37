----------------------------- MODULE NodeArrays -----------------------------
(***************************************************************************)
(* The arrays of fixed length in which the nodes of both trees keep their  *)
(* keys, values, pivots, children and messages, and the algorithms of the  *)
(* standard library the trees apply to them.  Only the first n elements of *)
(* an array mean anything; what is behind them stays where it is.          *)
(* Indices start at 1.                                                     *)
(***************************************************************************)
EXTENDS Integers, FiniteSets

(* std::lower_bound(begin, begin + n, k): the first element not below k. *)
LowerBound(a, n, k) == 1 + Cardinality({i \in DOMAIN a : i <= n /\ a[i] < k})

Contains(a, n, k) ==
  LET i == LowerBound(a, n, k) IN i \in DOMAIN a /\ i <= n /\ a[i] = k

(* std::move_backward of [i, n] by one, then a[i] = x. *)
InsertAt(a, n, i, x) ==
  [j \in DOMAIN a |-> IF j < i \/ j > n + 1 THEN a[j]
                      ELSE IF j = i THEN x ELSE a[j - 1]]

(* std::move of [i + 1, n] by one to the left. *)
EraseAt(a, n, i) ==
  [j \in DOMAIN a |-> IF i <= j /\ j < n THEN a[j + 1] ELSE a[j]]

(* A new array of the same length that begins with the elements after i. *)
Tails(a, i, n, unset) ==
  [j \in DOMAIN a |-> IF i + j <= n THEN a[i + j] ELSE unset]
=============================================================================
