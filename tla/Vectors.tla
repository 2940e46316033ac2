------------------------------ MODULE Vectors ------------------------------
(***************************************************************************)
(* Two methods of Rust's vectors and iterators, by what they promise:      *)
(* unlike SortSeq and SelectSeq they are not recursive, so that one can    *)
(* prove about them.                                                       *)
(***************************************************************************)
EXTENDS SequencesExt

\* sort_by, which is stable: what it may make of s when Less is the order it is given.
\* Of an order that is one, that is a single sequence.
SortBy(s, Less(_, _)) ==
  LET places == {p \in Bijection(DOMAIN s, DOMAIN s) :
        \A i, j \in DOMAIN s : i < j =>
          \/ Less(s[p[i]], s[p[j]])
          \/ ~Less(s[p[j]], s[p[i]]) /\ p[i] < p[j]}
  IN  {[i \in DOMAIN s |-> s[p[i]]] : p \in places}

\* The place in s of the k-th of the places in I.
Place(I, k) == CHOOSE i \in I : Cardinality({j \in I : j <= i}) = k

\* filter: what stands in s at the places in I, in its order.
Filtered(s, I) == [k \in 1 .. Cardinality(I) |-> s[Place(I, k)]]

=============================================================================
