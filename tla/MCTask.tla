------------------------------- MODULE MCTask -------------------------------
(***************************************************************************)
(* Instances of TaskEngine for TLC.                                        *)
(***************************************************************************)
EXTENDS TaskProperties, TLC

CONSTANTS X, Y,     \* two chains
          A, B      \* two tasks

Hop(src, dst) == [src |-> src, dst |-> dst]

\* Bridge from X to Y, then swap there.
BridgeSwap == [t \in {A, B} |-> <<Hop(X, Y), Hop(Y, Y)>>]

\* Swap on X, then bridge to Y.
SwapBridge == [t \in {A, B} |-> <<Hop(X, X), Hop(X, Y)>>]

\* To Y, back to X, and a swap on X: the third step uses the chain of the claim.
RoundTrip == [t \in {A, B} |-> <<Hop(X, Y), Hop(Y, X), Hop(X, X)>>]

SessionSymmetry == Permutations(Sessions)
=============================================================================
