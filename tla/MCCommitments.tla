---------------------------- MODULE MCCommitments -----------------------------
(* Instance of Commitments: lists whose trees have one to seven leaves.    *)
EXTENDS Commitments

CONSTANT Nil

UpTo(n) == [i \in 1..n |-> i]

\* Growing batches, one in reverse order, one whose new object sorts first, one
\* with a gap, a repeated object, a nil object, an empty list.
MCListings == {UpTo(n) : n \in {1, 2, 3, 4, 6, 7}}
    \cup {<<5, 4, 3, 2, 1>>, <<4, 2, 3>>, <<2, 3, 4>>, <<1, 3, 5, 6>>, <<2, 3, 3>>, <<1, Nil>>, <<>>}

\* Both ends of the integer range, the sizes of the trees and their neighbours.
MCClaims == (-1..9) \cup {-16, 15}

==============================================================================
