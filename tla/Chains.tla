------------------------------- MODULE Chains -------------------------------
(***************************************************************************)
(* The blockchains as one worker account sees them, and the handler        *)
(* contract deployed on a task's source chain.  Nothing of this module is  *)
(* under src/ except what reads it: get_nonce (chain.rs), has_confirmed    *)
(* (tx.rs) and get_balance (chain.rs).  The rest is the environment as     *)
(* those readers and the senders in step.rs, task.rs and gov.rs use it:    *)
(*                                                                         *)
(*  - an account's transactions are included in the order of their nonces, *)
(*    one per nonce; a transaction may sit in the pool or be evicted;      *)
(*  - an off-chain indexer follows each chain and may lag behind it;       *)
(*  - a bridge pays out on the destination chain some time later.          *)
(*                                                                         *)
(* Amounts: every step is taken to return as much as it spends; the fee a  *)
(* claim keeps is already deducted from Amount.  The funds of two tasks    *)
(* are kept apart.                                                         *)
(***************************************************************************)
EXTENDS Naturals, Sequences, FiniteSets

CONSTANTS
    Chains,     \* chains of the registry
    Evm,        \* those of type ChainType::Evm, the others are ChainType::Sub
    Tasks,      \* task ids deposited for the worker
    Route,      \* Route[t]: the merged steps of t, a sequence of [src, dst]
    Amount,     \* what a step of a correctly executed task spends
    NoTask,     \* no task: a governance transaction, an absent worker document
    Faults      \* environment faults that may occur

ASSUME ChainsAssumption ==
    /\ Evm \subseteq Chains
    /\ NoTask \notin Tasks
    /\ Amount \in Nat \ {0}
    /\ \A t \in Tasks : /\ Route[t] \in Seq([src : Chains, dst : Chains])
                        /\ Len(Route[t]) > 0

VARIABLES
    pool,       \* pool[c]: transactions of the worker waiting on chain c
    mined,      \* mined[c]: included transactions with their result; nonce n is at n + 1
    indexed,    \* indexed[c]: how many of them the indexer of c has seen
    bal,        \* bal[t][i]: what step i of t has delivered to its recipient and the next
                \* step has not spent; bal[t][0] is the claimed deposit
    transit     \* successful bridge transactions whose funds have not arrived yet

chainVars == <<pool, mined, indexed, bal, transit>>

Steps(t)  == 1..Len(Route[t])
Src(t, i) == Route[t][i].src
Dst(t, i) == Route[t][i].dst

\* The chain of the deposit is taken to be that of the first step.  The executor has it from
\* the deposit and the steps from the solution (to_task), and compares them nowhere.
Source(t) == Src(t, 1)
Bridge(t, i) == Src(t, i) # Dst(t, i)

\* "claim" is claimAndBatchCall on an EVM chain (it runs step 1 too) and
\* claim_task on a Substrate chain (step 0: no step runs with it); "step" is
\* batchCall or a Substrate call; the others are sent by gov.rs.
Tx ==
    {tx \in [kind : {"claim", "step", "drop", "approve"}, task : Tasks \cup {NoTask},
             step : Nat, spend : Nat, nonce : Nat] :
        tx.kind = "claim" => tx.step \in {0, 1}}

Receipt == [tx : Tx, ok : BOOLEAN]

ChainsTypeOK ==
    /\ pool \in [Chains -> SUBSET Tx]
    /\ \A c \in Chains : IsFiniteSet(pool[c])
    /\ mined \in [Chains -> Seq(Receipt)]
    /\ indexed \in [Chains -> Nat]
    /\ bal = [t \in Tasks |-> bal[t]]
    /\ \A t \in Tasks : bal[t] \in [0..Len(Route[t]) -> Nat]
    /\ transit \subseteq Tx

ChainsInit ==
    /\ pool = [c \in Chains |-> {}]
    /\ mined = [c \in Chains |-> <<>>]
    /\ indexed = [c \in Chains |-> 0]
    /\ bal = [t \in Tasks |-> [i \in 0..Len(Route[t]) |-> 0]]
    /\ transit = {}

-----------------------------------------------------------------------------
(***************************************************************************)
(* What the executor reads.                                                *)
(***************************************************************************)

PoolNonces(c) == {tx.nonce : tx \in pool[c]}

\* The nonce chain.rs reads.  eth_getTransactionCount without a block argument
\* counts included transactions only; get_next_nonce of a Substrate node also
\* counts the consecutive ones of its pool.
OnchainNonce(c) ==
    IF c \in Evm
    THEN Len(mined[c])
    ELSE Len(mined[c]) +
         Cardinality({n \in PoolNonces(c) :
                        n >= Len(mined[c]) /\ Len(mined[c])..n \subseteq PoolNonces(c)})

\* Slip: the result the indexer reports is not looked at.
Confirmed_AnyResult(c, n) == n < indexed[c]

\* has_confirmed: the indexer knows a transaction with this account and nonce,
\* and its result is a success.
Confirmed(c, n) ==
    /\ n < indexed[c]
    /\ mined[c][n + 1].ok

\* Step i of t was executed successfully by a transaction of its own.
Ran(t, i) ==
    \E n \in 1..Len(mined[Src(t, i)]) :
        LET m == mined[Src(t, i)][n]
        IN  m.ok /\ m.tx.task = t /\ m.tx.step = i /\ m.tx.kind \in {"claim", "step"}

\* The handler contract knows t is claimed.
ClaimedOnChain(t) ==
    \E n \in 1..Len(mined[Source(t)]) :
        LET m == mined[Source(t)][n]
        IN  m.ok /\ m.tx.task = t /\ m.tx.kind = "claim"

\* ... or that the worker dropped it.
DroppedOnChain(t) ==
    \E n \in 1..Len(mined[Source(t)]) :
        LET m == mined[Source(t)][n]
        IN  m.ok /\ m.tx.task = t /\ m.tx.kind = "drop"

\* t is in the worker's queue of active tasks (getNextActivedTask, ActivedTasks).
Active(t) == ~ClaimedOnChain(t) /\ ~DroppedOnChain(t)

-----------------------------------------------------------------------------
(***************************************************************************)
(* What the executor sends, and what the environment does with it.         *)
(***************************************************************************)

\* A node takes a transaction whose nonce is not used yet; it replaces the one
\* of the pool with the same nonce.
Accepts(c, tx) ==
    /\ tx.nonce >= Len(mined[c])
    /\ pool' = [pool EXCEPT ![c] = {p \in @ : p.nonce # tx.nonce} \cup {tx}]
    /\ UNCHANGED <<mined, indexed, bal, transit>>

\* A node refuses a nonce below the account's, and one already in its pool
\* ("already known", "replacement transaction underpriced").
Refuses(c, tx) ==
    /\ tx.nonce < Len(mined[c]) \/ tx.nonce \in PoolNonces(c)
    /\ UNCHANGED chainVars

\* The contracts let the transaction do its work.
Executable(tx) ==
    CASE tx.kind = "claim"   -> Active(tx.task) /\ tx.spend <= Amount
      [] tx.kind = "step"    -> bal[tx.task][tx.step - 1] >= tx.spend
      [] tx.kind = "drop"    -> Active(tx.task)
      [] tx.kind = "approve" -> TRUE

\* estimate_gas: an EVM node refuses what would fail now.  Nothing is estimated
\* on a Substrate chain.
Estimates(c, tx) == c \in Evm => Executable(tx)

\* A claim credits the deposit; a step takes from what its predecessor left and,
\* unless it is a bridge, pays out at once.
Credit(tx, i) ==
    (IF tx.kind = "claim" /\ i = 0 THEN Amount ELSE 0) +
    (IF i > 0 /\ i = tx.step /\ ~Bridge(tx.task, i) THEN tx.spend ELSE 0)

Debit(tx, i) == IF tx.step > 0 /\ i = tx.step - 1 THEN tx.spend ELSE 0

Effects(tx) ==
    /\ bal' = IF tx.kind \in {"claim", "step"}
              THEN [bal EXCEPT ![tx.task] =
                       [i \in DOMAIN @ |-> (@[i] + Credit(tx, i)) - Debit(tx, i)]]
              ELSE bal
    /\ transit' = IF tx.step > 0 /\ Bridge(tx.task, tx.step)
                  THEN transit \cup {tx} ELSE transit

\* A block of c includes the worker's next transaction; it may fail although
\* nothing in the model makes it.
Mine(c, tx) ==
    /\ tx \in pool[c]
    /\ tx.nonce = Len(mined[c])
    /\ pool' = [pool EXCEPT ![c] = @ \ {tx}]
    /\ \/ /\ Executable(tx)
          /\ mined' = [mined EXCEPT ![c] = Append(@, [tx |-> tx, ok |-> TRUE])]
          /\ Effects(tx)
       \/ /\ ~Executable(tx) \/ "revert" \in Faults
          /\ mined' = [mined EXCEPT ![c] = Append(@, [tx |-> tx, ok |-> FALSE])]
          /\ UNCHANGED <<bal, transit>>
    /\ UNCHANGED indexed

\* A node forgets a pending transaction.
Evict(c, tx) ==
    /\ "evict" \in Faults
    /\ tx \in pool[c]
    /\ pool' = [pool EXCEPT ![c] = @ \ {tx}]
    /\ UNCHANGED <<mined, indexed, bal, transit>>

\* The indexer of c catches up with one transaction.
Index(c) ==
    /\ indexed[c] < Len(mined[c])
    /\ indexed' = [indexed EXCEPT ![c] = @ + 1]
    /\ UNCHANGED <<pool, mined, bal, transit>>

\* Bridged funds arrive on the destination chain.
Arrive(tx) ==
    /\ tx \in transit
    /\ transit' = transit \ {tx}
    /\ bal' = [bal EXCEPT ![tx.task][tx.step] = @ + tx.spend]
    /\ UNCHANGED <<pool, mined, indexed>>
=============================================================================
