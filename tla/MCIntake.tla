------------------------------ MODULE MCIntake ------------------------------
EXTENDS Intake, TLC

CONSTANTS X, Y,     \* an EVM and a Substrate chain
          A, B, C   \* two deposits on X and one on Y

HomeOf == [t \in {A, B, C} |-> IF t = C THEN Y ELSE X]

Hop(src, dst) == [src |-> src, dst |-> dst, address |-> "valid"]

\* A bridge, then a batch of a swap and a bridge; a batch of no steps; a
\* step with an address that is not hexadecimal.
Good == <<<<Hop(X, Y)>>, <<Hop(Y, Y), Hop(Y, X)>>>>
EmptyBatch == <<<<>>>>
BadAddress == <<<<[Hop(X, Y) EXCEPT !.address = "odd"]>>>>

GoodSolutions == {Good}
MixedSolutions == {Good, EmptyBatch, BadAddress}

SessionSymmetry == Permutations(Sessions)
=============================================================================
