----------------------------- MODULE MCExecutor -----------------------------
EXTENDS Executor

CONSTANTS k1, k2, store

\* The worker keys of one deployment.
OneStoreKeys == [k \in {store} |-> <<k1, k2>>]
OneImports == {<<k1, k2>>}
=============================================================================
