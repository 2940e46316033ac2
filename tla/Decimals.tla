------------------------------ MODULE Decimals ------------------------------
(* Numbers of at most ten digits as strings, which is how versions are compared. *)
EXTENDS Integers, FiniteSets

TenTo(k) == 10 ^ k

Width(n) == 1 + Cardinality({k \in 1 .. 9 : TenTo(k) <= n})
Digit(n, k) == (n \div TenTo(Width(n) - k)) % 10

\* Digit by digit, as far as they go.
StringLess(m, n) ==
  \E k \in 1 .. Width(n) :
    /\ \A j \in 1 .. k - 1 : j <= Width(m) /\ Digit(m, j) = Digit(n, j)
    /\ k > Width(m) \/ Digit(m, k) < Digit(n, k)

=============================================================================
