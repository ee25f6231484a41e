----------------------------- MODULE TaskProofs -----------------------------
(***************************************************************************)
(* Type correctness and two safety properties of the task execution, for    *)
(* any number of chains, tasks and concurrent queries and with every fault  *)
(* and every caller:                                                       *)
(*                                                                         *)
(*  - the worker document names a task the storage has (WorkerHasTask);    *)
(*  - unless retry is called, the worker has at most one transaction       *)
(*    included per claim and per step (AtMostOnce).                        *)
(*                                                                         *)
(* Neither is inductive; OnceInv of TaskProperties is: the nonces in the   *)
(* task document never change, every copy a query holds has them, and so   *)
(* does every transaction sent.  A chain includes one transaction per      *)
(* nonce.                                                                  *)
(***************************************************************************)
EXTENDS TaskProperties, TLAPS, Functions, FiniteSetTheorems, SequenceTheorems

USE ChainsAssumption, TaskEngineAssumption

\* The nonce a node reports is a number, not below what is included.
LEMMA OnchainNonceType ==
    ASSUME ChainsTypeOK, NEW c \in Chains
    PROVE  OnchainNonce(c) \in Nat /\ Len(mined[c]) <= OnchainNonce(c)
<1>1. Len(mined[c]) \in Nat
  <2>1. mined[c] \in Seq(Receipt)
    BY DEF ChainsTypeOK
  <2>2. QED
    BY <2>1, LenProperties
<1>2. IsFiniteSet(PoolNonces(c))
  <2> DEFINE nonce == [tx \in pool[c] |-> tx.nonce]
  <2>1. nonce \in Surjection(pool[c], PoolNonces(c))
    BY DEF PoolNonces, Surjection
  <2>2. IsFiniteSet(pool[c])
    BY DEF ChainsTypeOK
  <2>3. QED
    BY <2>1, <2>2, FS_Surjection
<1> DEFINE N == {n \in PoolNonces(c) :
                   n >= Len(mined[c]) /\ Len(mined[c])..n \subseteq PoolNonces(c)}
<1>3. Cardinality(N) \in Nat
  BY <1>2, FS_Subset, FS_CardinalityType
<1>4. QED
  BY <1>1, <1>3 DEF OnchainNonce

\* The route of a task: it has a first step, and every step leads from a chain
\* to a chain.
LEMMA RouteType ==
    ASSUME NEW t \in Tasks
    PROVE  /\ Len(Route[t]) \in Nat \ {0}
           /\ 1 \in Steps(t)
           /\ \A i \in Steps(t) : i \in Nat \ {0} /\ Src(t, i) \in Chains /\ Dst(t, i) \in Chains
           /\ Source(t) \in Chains
<1>1. Route[t] \in Seq([src : Chains, dst : Chains]) /\ Len(Route[t]) > 0
  OBVIOUS
<1>2. Len(Route[t]) \in Nat
  BY <1>1, LenProperties
<1>3. \A i \in 1..Len(Route[t]) : Route[t][i] \in [src : Chains, dst : Chains]
  BY <1>1, ElementOfSeq
<1>4. QED
  BY <1>1, <1>2, <1>3 DEF Steps, Src, Dst, Source

\* apply_nonce gives out numbers.
LEMMA NonceOfType ==
    ASSUME ChainsTypeOK, NEW t \in Tasks, NEW i \in Steps(t), NEW first \in Nat,
           NEW claiming \in BOOLEAN
    PROVE  NonceOf(t, i, first, claiming) \in Nat
<1> DEFINE J == {j \in first..(i - 1) : Src(t, j) = Src(t, i)}
<1>1. OnchainNonce(Src(t, i)) \in Nat
  BY OnchainNonceType, RouteType
<1>2. i \in Nat
  BY RouteType
<1>3. IsFiniteSet(first..(i - 1))
  BY <1>2, FS_Interval
<1>4. Cardinality(J) \in Nat
  BY <1>3, FS_Subset, FS_CardinalityType
<1>5. QED
  BY <1>1, <1>4 DEF NonceOf

LEMMA NewTaskType ==
    ASSUME ChainsTypeOK, NEW t \in Tasks
    PROVE  NewTask(t) \in Task(t)
<1>1. OnchainNonce(Source(t)) \in Nat
  BY OnchainNonceType, RouteType
<1>2. [i \in Steps(t) |-> NonceOf(t, i, 1, TRUE)] \in [Steps(t) -> Nat]
  BY NonceOfType
<1>3. 1 \in Steps(t) /\ 0 \in 0..Len(Route[t]) /\ 0 \in 0..MaxRetry
  BY RouteType
<1>4. QED
  BY <1>1, <1>2, <1>3 DEF NewTask, Task

-----------------------------------------------------------------------------
\* The places of a session.
Places == Holding \cup {"idle", "readTask", "init", "applyNonce", "insertTask", "insertWorker"}

\* The parts of TypeOK.
StorageTypeOK ==
    /\ taskDoc = [t \in Tasks |-> taskDoc[t]]
    /\ \A t \in Tasks : taskDoc[t] \in Task(t) \cup {NoDoc}
    /\ workerDoc \in Tasks \cup {NoTask}

SessionsTypeOK ==
    /\ pc \in [Sessions -> Places]
    /\ op \in [Sessions -> {"none", "fetch", "execute", "retry"}]
    /\ job \in [Sessions -> Tasks \cup {NoTask}]
    /\ rec = [s \in Sessions |-> rec[s]]
    /\ \A s \in Sessions :
          /\ pc[s] # "idle" => job[s] \in Tasks
          /\ pc[s] \in Holding \cup {"insertTask"} => rec[s] \in Task(job[s])
          /\ pc[s] = "settle" => rec[s].execute_index > 1

LEMMA TypeParts ==
    /\ TypeOK <=> ChainsTypeOK /\ paused \in BOOLEAN /\ StorageTypeOK /\ SessionsTypeOK
    /\ TypeOK' <=> ChainsTypeOK' /\ paused' \in BOOLEAN /\ StorageTypeOK' /\ SessionsTypeOK'
  BY DEF TypeOK, StorageTypeOK, SessionsTypeOK, Places

\* A session may go on to any place with a copy that has the type of its task.
LEMMA GotoType ==
    ASSUME SessionsTypeOK, NEW s \in Sessions, pc[s] # "idle", NEW p \in Places, NEW r,
           p \in Holding \cup {"insertTask"} => r \in Task(job[s]),
           p = "settle" => r.execute_index > 1,
           Goto(s, p, r)
    PROVE  SessionsTypeOK' /\ UNCHANGED paused
  BY DEF SessionsTypeOK, Goto

LEMMA ReturnType ==
    ASSUME SessionsTypeOK, NEW s \in Sessions, Return(s)
    PROVE  SessionsTypeOK' /\ UNCHANGED paused
  BY DEF SessionsTypeOK, Return, Holding, Places

LEMMA StartType ==
    ASSUME SessionsTypeOK, NEW s \in Sessions, NEW o \in {"fetch", "execute", "retry"},
           NEW t \in Tasks, NEW p \in Places, NEW r,
           p # "settle", p \in Holding \cup {"insertTask"} => r \in Task(t),
           Start(s, o, t, p, r)
    PROVE  SessionsTypeOK' /\ UNCHANGED <<chainVars, paused, storageVars>>
  BY DEF SessionsTypeOK, Start

\* What does not change keeps its type.
LEMMA UnchangedType ==
    /\ ChainsTypeOK /\ UNCHANGED chainVars => ChainsTypeOK'
    /\ StorageTypeOK /\ UNCHANGED storageVars => StorageTypeOK'
    /\ SessionsTypeOK /\ UNCHANGED sessionVars => SessionsTypeOK'
  BY DEF ChainsTypeOK, chainVars, StorageTypeOK, storageVars, SessionsTypeOK, sessionVars

-----------------------------------------------------------------------------
\* What the contracts execute and the bridges deliver leaves balances that are
\* natural numbers: nothing is spent that is not there.
LEMMA EffectsType ==
    ASSUME ChainsTypeOK, NEW tx \in Tx, Executable(tx), Effects(tx),
           NEW t \in Tasks
    PROVE  /\ bal'[t] \in [0..Len(Route[t]) -> Nat]
           /\ bal' = [u \in Tasks |-> bal'[u]]
           /\ transit' \subseteq Tx
<1>1. bal = [u \in Tasks |-> bal[u]] /\ bal[t] \in [0..Len(Route[t]) -> Nat]
  BY DEF ChainsTypeOK
<1>2. Len(Route[t]) \in Nat
  BY RouteType
<1>3. tx.step \in Nat /\ tx.spend \in Nat /\ (tx.kind = "claim" => tx.step \in {0, 1})
  BY DEF Tx
<1>4. ASSUME tx.kind \in {"claim", "step"}, tx.task = t, NEW i \in 0..Len(Route[t])
      PROVE  (bal[t][i] + Credit(tx, i)) - Debit(tx, i) \in Nat
  <2>1. bal[t][i] \in Nat /\ i \in Nat
    BY <1>1, <1>2
  <2>2. Amount \in Nat /\ Credit(tx, i) \in Nat /\ Debit(tx, i) \in Nat
    BY <1>3 DEF Credit, Debit
  <2>3. Debit(tx, i) <= bal[t][i] + Credit(tx, i)
    <3>1. CASE tx.step > 0 /\ i = tx.step - 1
      <4>1. CASE tx.kind = "claim"
        BY <1>3, <2>1, <2>2, <3>1, <4>1 DEF Executable, Credit, Debit
      <4>2. CASE tx.kind = "step"
        BY <1>3, <1>4, <2>1, <2>2, <3>1, <4>2 DEF Executable, Debit
      <4>3. QED
        BY <1>4, <4>1, <4>2
    <3>2. CASE ~(tx.step > 0 /\ i = tx.step - 1)
      BY <2>1, <2>2, <3>2 DEF Debit
    <3>3. QED
      BY <3>1, <3>2
  <2>4. QED
    BY <2>1, <2>2, <2>3
<1>5. bal'[t] \in [0..Len(Route[t]) -> Nat]
  <2>1. CASE tx.kind \in {"claim", "step"} /\ tx.task = t
    <3>1. bal'[t] = [i \in 0..Len(Route[t]) |-> (bal[t][i] + Credit(tx, i)) - Debit(tx, i)]
      BY <1>1, <2>1 DEF Effects
    <3>2. QED
      BY <1>4, <2>1, <3>1
  <2>2. CASE ~(tx.kind \in {"claim", "step"} /\ tx.task = t)
    BY <1>1, <2>2 DEF Effects
  <2>3. QED
    BY <2>1, <2>2
<1>6. bal' = [u \in Tasks |-> bal'[u]]
  BY <1>1 DEF Effects
<1>7. transit' \subseteq Tx
  BY DEF Effects, ChainsTypeOK
<1>8. QED
  BY <1>5, <1>6, <1>7

LEMMA MineType ==
    ASSUME ChainsTypeOK, NEW c \in Chains, NEW tx \in pool[c], Mine(c, tx)
    PROVE  ChainsTypeOK'
<1>1. tx \in Tx
  BY DEF ChainsTypeOK
<1>2. /\ pool' \in [Chains -> SUBSET Tx]
      /\ \A d \in Chains : IsFiniteSet(pool'[d])
  BY FS_RemoveElement DEF ChainsTypeOK, Mine
<1>3. mined' \in [Chains -> Seq(Receipt)]
  <2>1. \A ok \in BOOLEAN : [tx |-> tx, ok |-> ok] \in Receipt
    BY <1>1 DEF Receipt
  <2>2. mined[c] \in Seq(Receipt)
    BY DEF ChainsTypeOK
  <2>3. \A ok \in BOOLEAN : Append(mined[c], [tx |-> tx, ok |-> ok]) \in Seq(Receipt)
    BY <2>1, <2>2, AppendProperties
  <2>4. PICK ok \in BOOLEAN :
            mined' = [mined EXCEPT ![c] = Append(@, [tx |-> tx, ok |-> ok])]
    BY DEF Mine
  <2>5. QED
    BY <2>3, <2>4 DEF ChainsTypeOK
<1>4. indexed' \in [Chains -> Nat]
  BY DEF ChainsTypeOK, Mine
<1>5. /\ bal' = [t \in Tasks |-> bal'[t]]
      /\ \A t \in Tasks : bal'[t] \in [0..Len(Route[t]) -> Nat]
      /\ transit' \subseteq Tx
  <2>1. CASE Executable(tx) /\ Effects(tx)
    <3>1. transit' \subseteq Tx /\ bal' = [t \in Tasks |-> bal'[t]]
      BY <2>1 DEF Effects, ChainsTypeOK
    <3>2. QED
      BY <1>1, <2>1, <3>1, EffectsType
  <2>2. CASE UNCHANGED <<bal, transit>>
    BY <2>2 DEF ChainsTypeOK
  <2>3. QED
    BY <2>1, <2>2 DEF Mine
<1>6. QED
  BY <1>2, <1>3, <1>4, <1>5 DEF ChainsTypeOK

LEMMA ArriveType ==
    ASSUME ChainsTypeOK, NEW tx \in transit, Arrive(tx)
    PROVE  ChainsTypeOK'
<1>1. tx.step \in Nat /\ tx.spend \in Nat
  BY DEF ChainsTypeOK, Tx
<1>2. /\ bal = [t \in Tasks |-> bal[t]]
      /\ \A t \in Tasks : bal[t] \in [0..Len(Route[t]) -> Nat]
  BY DEF ChainsTypeOK
<1>3. bal' = [t \in Tasks |-> bal'[t]]
  BY <1>2 DEF Arrive
<1>4. ASSUME NEW t \in Tasks
      PROVE  bal'[t] \in [0..Len(Route[t]) -> Nat]
  <2>1. \A i \in 0..Len(Route[t]) : bal[t][i] + tx.spend \in Nat
    BY <1>1, <1>2
  <2> DEFINE paid == [bal[t] EXCEPT ![tx.step] = @ + tx.spend]
  <2>2. paid = [i \in 0..Len(Route[t]) |-> IF i = tx.step THEN bal[t][i] + tx.spend
                                                          ELSE bal[t][i]]
    BY <1>2
  <2>3. paid \in [0..Len(Route[t]) -> Nat]
    BY <1>2, <2>1, <2>2
  <2>4. bal'[t] = IF t = tx.task THEN paid ELSE bal[t]
    BY <1>2 DEF Arrive
  <2> HIDE DEF paid
  <2>5. QED
    BY <1>2, <2>3, <2>4
<1>5. QED
  BY <1>3, <1>4 DEF ChainsTypeOK, Arrive

\* Everything else that happens to the chains.
LEMMA AcceptsType ==
    ASSUME ChainsTypeOK, NEW c \in Chains, NEW tx \in Tx,
           Accepts(c, tx) \/ Refuses(c, tx)
    PROVE  ChainsTypeOK'
<1>1. CASE Accepts(c, tx)
  <2> DEFINE kept == {p \in pool[c] : p.nonce # tx.nonce}
  <2>1. IsFiniteSet(kept \cup {tx})
    BY FS_Subset, FS_AddElement DEF ChainsTypeOK
  <2>2. pool' = [pool EXCEPT ![c] = kept \cup {tx}]
    BY <1>1 DEF Accepts
  <2>3. kept \subseteq Tx
    BY DEF ChainsTypeOK
  <2> HIDE DEF kept
  <2>4. /\ pool' \in [Chains -> SUBSET Tx]
        /\ \A d \in Chains : IsFiniteSet(pool'[d])
    BY <2>1, <2>2, <2>3 DEF ChainsTypeOK
  <2>5. QED
    BY <1>1, <2>4 DEF ChainsTypeOK, Accepts
<1>2. CASE Refuses(c, tx)
  BY <1>2 DEF ChainsTypeOK, Refuses, chainVars
<1>3. QED
  BY <1>1, <1>2

LEMMA ChainStepType ==
    ASSUME ChainsTypeOK, ChainStep
    PROVE  ChainsTypeOK'
<1>1. ASSUME NEW c \in Chains, NEW tx \in pool[c], Evict(c, tx)
      PROVE  ChainsTypeOK'
  BY <1>1, FS_RemoveElement DEF ChainsTypeOK, Evict
<1>2. ASSUME NEW c \in Chains, Index(c)
      PROVE  ChainsTypeOK'
  BY <1>2 DEF ChainsTypeOK, Index
<1>3. QED
  BY <1>1, <1>2, MineType, ArriveType DEF ChainStep
-----------------------------------------------------------------------------
(***************************************************************************)
(* The steps of a query that holds a copy of a task document: each leaves  *)
(* it with a copy of the same type that has the same nonces, but for the   *)
(* first step's when it was merged with the claim; or the query returns.   *)
(***************************************************************************)

Moves(s) ==
    /\ Goto(s, pc'[s], rec'[s])
    /\ pc'[s] \in Holding \ {"reapply"}
    /\ rec'[s] \in Task(job[s])
    /\ SameNonces(job[s], rec'[s], rec[s])
    /\ pc'[s] = "settle" => rec'[s].execute_index > 1

\* What TypeOK says of such a query.
LEMMA CopyType ==
    ASSUME TypeOK, NEW s \in Sessions, pc[s] \in Holding
    PROVE  /\ job[s] \in Tasks
           /\ rec[s] \in Task(job[s])
           /\ SameNonces(job[s], rec[s], rec[s])
           /\ rec = [u \in Sessions |-> rec[u]]
           /\ pc = [u \in Sessions |-> pc[u]]
           /\ \A t \in Tasks : bal[t] \in [0..Len(Route[t]) -> Nat]
  BY DEF TypeOK, Holding, SameNonces, ChainsTypeOK

LEMMA GotoMoves ==
    ASSUME TypeOK, NEW s \in Sessions, pc[s] \in Holding, NEW p \in Holding \ {"reapply"},
           NEW r \in Task(job[s]), SameNonces(job[s], r, rec[s]), Goto(s, p, r),
           p = "settle" => r.execute_index > 1
    PROVE  Moves(s)
<1>1. rec'[s] = r /\ pc'[s] = p
  BY CopyType DEF Goto
<1>2. QED
  BY <1>1 DEF Moves

LEMMA FailMoves ==
    ASSUME TypeOK, NEW s \in Sessions, pc[s] \in Holding,
           NEW r \in Task(job[s]), SameNonces(job[s], r, rec[s]), Fail(s, r)
    PROVE  Moves(s) \/ Return(s)
<1>1. "save" \in Holding \ {"reapply"}
  BY DEF Holding
<1>2. QED
  BY <1>1, GotoMoves DEF Fail

\* The updates the actions make of a copy.
LEMMA UpdateType ==
    ASSUME NEW t \in Tasks, NEW r \in Task(t), NEW i \in Steps(t), NEW n \in Nat,
           NEW m \in Nat \cup {NoBalance}
    PROVE  /\ [r EXCEPT !.spend[i] = n] \in Task(t)
           /\ [r EXCEPT !.origin[i] = m] \in Task(t)
           /\ [r EXCEPT !.nonce[i] = n] \in Task(t)
           /\ SameNonces(t, [r EXCEPT !.spend[i] = n], r)
           /\ SameNonces(t, [r EXCEPT !.origin[i] = m], r)
<1>1. /\ r.spend \in [Steps(t) -> Nat]
      /\ r.nonce \in [Steps(t) -> Nat]
      /\ r.origin \in [Steps(t) -> Nat \cup {NoBalance}]
  BY DEF Task
<1>2. /\ [r.spend EXCEPT ![i] = n] \in [Steps(t) -> Nat]
      /\ [r.nonce EXCEPT ![i] = n] \in [Steps(t) -> Nat]
      /\ [r.origin EXCEPT ![i] = m] \in [Steps(t) -> Nat \cup {NoBalance}]
  BY <1>1
<1>3. /\ [r EXCEPT !.spend[i] = n] = [r EXCEPT !.spend = [r.spend EXCEPT ![i] = n]]
      /\ [r EXCEPT !.nonce[i] = n] = [r EXCEPT !.nonce = [r.nonce EXCEPT ![i] = n]]
      /\ [r EXCEPT !.origin[i] = m] = [r EXCEPT !.origin = [r.origin EXCEPT ![i] = m]]
  BY DEF Task
<1>4. /\ [r EXCEPT !.spend[i] = n] \in Task(t)
      /\ [r EXCEPT !.origin[i] = m] \in Task(t)
      /\ [r EXCEPT !.nonce[i] = n] \in Task(t)
  BY <1>2, <1>3 DEF Task
<1>5. /\ SameNonces(t, [r EXCEPT !.spend[i] = n], r)
      /\ SameNonces(t, [r EXCEPT !.origin[i] = m], r)
  BY DEF SameNonces, Task
<1>6. QED
  BY <1>4, <1>5

LEMMA ClaimedType ==
    ASSUME NEW t \in Tasks, NEW r \in Task(t)
    PROVE  Claimed(t, r) \in Task(t) /\ SameNonces(t, Claimed(t, r), r)
<1>1. 1 \in Steps(t) /\ Amount \in Nat
  BY RouteType
<1>2. r.claim_nonce \in Nat
  BY DEF Task
<1>3. CASE Source(t) \in Evm
  <2> DEFINE merged == [r EXCEPT !.nonce[1] = r.claim_nonce]
  <2>1. merged \in Task(t)
    BY <1>1, <1>2, UpdateType
  <2>2. \A j \in Unmerged(t) : j # 1
    BY <1>3, RouteType DEF Unmerged
  <2>3. SameNonces(t, merged, r)
    BY <2>2 DEF SameNonces, Task
  <2>4. Claimed(t, r) = merged
    BY <1>3 DEF Claimed
  <2> HIDE DEF merged
  <2>5. QED
    BY <2>1, <2>3, <2>4
<1>4. CASE Source(t) \notin Evm
  <2> DEFINE spent == [r EXCEPT !.spend[1] = Amount]
  <2>1. spent \in Task(t) /\ SameNonces(t, spent, r)
    BY <1>1, UpdateType
  <2>2. Claimed(t, r) = spent
    BY <1>4 DEF Claimed
  <2> HIDE DEF spent
  <2>3. QED
    BY <2>1, <2>2
<1>5. QED
  BY <1>3, <1>4

LEMMA ProgressType ==
    ASSUME NEW t \in Tasks, NEW r \in Task(t)
    PROVE  LET done  == [r EXCEPT !.status = "Completed", !.at = 0]
               next  == [r EXCEPT !.execute_index = @ + 1, !.retry_counter = 0]
               again == [r EXCEPT !.retry_counter = @ + 1]
               ready == [r EXCEPT !.status = "Executing", !.at = r.execute_index]
           IN  /\ done \in Task(t) /\ SameNonces(t, done, r)
               /\ ready \in Task(t) /\ SameNonces(t, ready, r)
               /\ r.execute_index # Len(Route[t])
                     => /\ next \in Task(t) /\ SameNonces(t, next, r)
                        /\ next.execute_index > 1
               /\ r.retry_counter < MaxRetry
                     => again \in Task(t) /\ SameNonces(t, again, r)
<1>1. Len(Route[t]) \in Nat \ {0}
  BY RouteType
<1> DEFINE L == Len(Route[t])
<1>2. r.execute_index \in 1..L /\ r.at \in 0..L /\ r.retry_counter \in 0..MaxRetry
  BY DEF Task, Steps
<1>3. 0 \in 0..L /\ 0 \in 0..MaxRetry /\ r.execute_index \in 0..L
  BY <1>1, <1>2
<1>4. /\ r.execute_index # L => r.execute_index + 1 \in 1..L
      /\ r.execute_index + 1 > 1
  BY <1>1, <1>2
<1>5. r.retry_counter < MaxRetry => r.retry_counter + 1 \in 0..MaxRetry
  BY <1>2
<1> HIDE DEF L
<1>6. [r EXCEPT !.status = "Completed", !.at = 0] \in Task(t)
  BY <1>3 DEF Task, L
<1>7. [r EXCEPT !.status = "Executing", !.at = r.execute_index] \in Task(t)
  BY <1>3 DEF Task, L
<1>8. r.execute_index # L
        => [r EXCEPT !.execute_index = @ + 1, !.retry_counter = 0] \in Task(t)
  BY <1>3, <1>4 DEF Task, L, Steps
<1>9. r.retry_counter < MaxRetry => [r EXCEPT !.retry_counter = @ + 1] \in Task(t)
  BY <1>5 DEF Task
<1>10. [r EXCEPT !.execute_index = @ + 1, !.retry_counter = 0].execute_index > 1
  BY <1>4 DEF Task
<1>11. QED
  BY <1>6, <1>7, <1>8, <1>9, <1>10 DEF SameNonces, Task, L

\* Every step of a query that holds a copy, but for those of retry.
CopyStep(s) ==
    \/ CheckClaimed(s) \/ Claim(s) \/ SendClaim(s) \/ CheckStep(s) \/ Settle(s)
    \/ CanRun(s) \/ Run(s) \/ SendStep(s) \/ Destroy(s) \/ DeleteWorker(s) \/ RpcError(s)

LEMMA CopyStepMoves ==
    ASSUME TypeOK, NEW s \in Sessions, CopyStep(s)
    PROVE  pc[s] \in Holding /\ (Moves(s) \/ Return(s))
<1>1. pc[s] \in Holding
  BY DEF CopyStep, CheckClaimed, Claim, SendClaim, CheckStep, Settle, CanRun, Run, SendStep,
         Destroy, DeleteWorker, RpcError, Holding
<1> DEFINE t == job[s]
           r == rec[s]
           i == r.execute_index
<1>2. t \in Tasks /\ r \in Task(t) /\ SameNonces(t, r, r)
  BY <1>1, CopyType
<1>3. i \in Steps(t) /\ 1 \in Steps(t) /\ Amount \in Nat
  BY <1>2, RouteType DEF Task
<1>4. \A j \in 0..Len(Route[t]) : bal[t][j] \in Nat
  BY <1>1, CopyType
<1>5. \A j \in Steps(t) : j \in Nat \ {0} /\ bal[t][j] \in Nat /\ bal[t][j - 1] \in Nat
  BY <1>2, <1>4, RouteType DEF Steps
<1> HIDE DEF t, r, i
<1>6. CASE CheckClaimed(s)
  BY <1>1, <1>2, <1>6, GotoMoves, FailMoves DEF CheckClaimed, Holding, t, r
<1>7. CASE Claim(s)
  <2> DEFINE spent  == [r EXCEPT !.spend[1] = Amount]
             synced == [spent EXCEPT !.origin[1] = bal[t][1]]
  <2>1. spent \in Task(t) /\ SameNonces(t, spent, r)
    BY <1>2, <1>3, UpdateType
  <2>2. synced \in Task(t) /\ SameNonces(t, synced, spent)
    BY <1>2, <1>3, <1>5, <2>1, UpdateType
  <2>3. SameNonces(t, synced, r)
    BY <2>1, <2>2 DEF SameNonces
  <2> HIDE DEF spent
  <2>4. \/ Goto(s, "sendClaim", r) \/ Goto(s, "sendClaim", synced)
        \/ Fail(s, synced) \/ Fail(s, spent)
    BY <1>7 DEF Claim, spent, t, r
  <2> HIDE DEF synced
  <2>5. QED
    BY <1>1, <1>2, <2>1, <2>2, <2>3, <2>4, GotoMoves, FailMoves DEF Holding, t, r
<1>8. CASE SendClaim(s)
  <2>1. Claimed(t, r) \in Task(t) /\ SameNonces(t, Claimed(t, r), r)
    BY <1>2, ClaimedType
  <2>2. Goto(s, "save", Claimed(t, r)) \/ Fail(s, r)
    BY <1>8 DEF SendClaim, t, r
  <2>3. QED
    BY <1>1, <1>2, <2>1, <2>2, GotoMoves, FailMoves DEF Holding, t, r
<1>9. CASE CheckStep(s)
  <2> DEFINE done == [r EXCEPT !.status = "Completed", !.at = 0]
             next == [r EXCEPT !.execute_index = @ + 1, !.retry_counter = 0]
             again == [r EXCEPT !.retry_counter = @ + 1]
  <2>1. done \in Task(t) /\ SameNonces(t, done, r)
    BY <1>2, ProgressType
  <2>2. r.execute_index # Len(Route[t])
          => next \in Task(t) /\ SameNonces(t, next, r) /\ next.execute_index > 1
    BY <1>2, ProgressType
  <2>3. r.retry_counter < MaxRetry => again \in Task(t) /\ SameNonces(t, again, r)
    BY <1>2, ProgressType
  <2>4. \/ Fail(s, r)
        \/ Goto(s, "destroy", done)
        \/ r.execute_index # Len(Route[t]) /\ Goto(s, "settle", next)
        \/ r.retry_counter < MaxRetry /\ Goto(s, "canRun", again)
    BY <1>9 DEF CheckStep, IsLast, t, r
  <2> HIDE DEF done, next, again
  <2>5. QED
    BY <1>1, <1>2, <2>1, <2>2, <2>3, <2>4, GotoMoves, FailMoves DEF Holding, t, r
<1>10. CASE Settle(s)
  <2> DEFINE now == bal[t][i - 1]
             before == r.origin[i - 1]
             amount == IF now > before THEN now - before ELSE 0
             settled == [r EXCEPT !.spend[i] = amount]
  <2>1. i > 1
    BY <1>1, <1>10 DEF TypeOK, Settle, r, i
  <2>2. i - 1 \in Steps(t)
    BY <1>2, <1>3, <2>1, RouteType DEF Steps
  <2>3. before \in Nat \cup {NoBalance}
    BY <1>2, <2>2 DEF Task
  <2>4. ASSUME before # NoBalance
        PROVE  settled \in Task(t) /\ SameNonces(t, settled, r)
    <3>1. amount \in Nat
      BY <1>3, <1>5, <2>3, <2>4
    <3>2. QED
      BY <1>2, <1>3, <3>1, UpdateType
  <2>5. Fail(s, r) \/ (before # NoBalance /\ Goto(s, "canRun", settled))
    BY <1>10 DEF Settle, t, r, i
  <2> HIDE DEF settled, before
  <2>6. QED
    BY <1>1, <1>2, <2>4, <2>5, GotoMoves, FailMoves DEF Holding, t, r
<1>11. CASE CanRun(s)
  <2> DEFINE ready == [r EXCEPT !.status = "Executing", !.at = i]
  <2>1. ready \in Task(t) /\ SameNonces(t, ready, r)
    BY <1>2, ProgressType DEF i
  <2>2. Goto(s, "run", ready) \/ Goto(s, "save", r)
    BY <1>11 DEF CanRun, r, i
  <2> HIDE DEF ready
  <2>3. QED
    BY <1>1, <1>2, <2>1, <2>2, GotoMoves DEF Holding, t, r
<1>12. CASE Run(s)
  <2> DEFINE synced == [r EXCEPT !.origin[i] = bal[t][i]]
  <2>1. synced \in Task(t) /\ SameNonces(t, synced, r)
    BY <1>2, <1>3, <1>5, UpdateType
  <2>2. Goto(s, "send", synced) \/ Fail(s, synced)
    BY <1>12 DEF Run, t, r, i
  <2> HIDE DEF synced
  <2>3. QED
    BY <1>1, <1>2, <2>1, <2>2, GotoMoves, FailMoves DEF Holding, t, r
<1>13. CASE SendStep(s)
  BY <1>1, <1>2, <1>13, GotoMoves, FailMoves DEF SendStep, Holding, t, r
<1>14. CASE Destroy(s) \/ DeleteWorker(s)
  BY <1>1, <1>2, <1>14, GotoMoves DEF Destroy, DeleteWorker, Holding, t, r
<1>15. CASE RpcError(s)
  BY <1>1, <1>2, <1>15, FailMoves DEF RpcError, t, r
<1>16. QED
  BY <1>1, <1>6, <1>7, <1>8, <1>9, <1>10, <1>11, <1>12, <1>13, <1>14, <1>15 DEF CopyStep

\* ... whatever it leaves the storage and the chains in.
LEMMA CopyStepSessions ==
    ASSUME TypeOK, NEW s \in Sessions, CopyStep(s)
    PROVE  SessionsTypeOK' /\ UNCHANGED paused
<1>1. SessionsTypeOK /\ pc[s] \in Holding /\ (Moves(s) \/ Return(s))
  BY CopyStepMoves, TypeParts
<1>2. CASE Return(s)
  BY <1>1, <1>2, ReturnType
<1>3. CASE Moves(s)
  <2>1. /\ Goto(s, pc'[s], rec'[s]) /\ pc'[s] \in Places /\ pc[s] # "idle"
        /\ rec'[s] \in Task(job[s]) /\ (pc'[s] = "settle" => rec'[s].execute_index > 1)
    BY <1>1, <1>3 DEF Moves, Places, Holding
  <2>2. QED
    BY <1>1, <2>1, GotoType
<1>4. QED
  BY <1>1, <1>2, <1>3

\* The transactions they send.
LEMMA TxType ==
    ASSUME NEW t \in Tasks, NEW r \in Task(t)
    PROVE  ClaimTx(t, r) \in Tx /\ StepTx(t, r) \in Tx
<1>1. /\ 1 \in Steps(t) /\ r.execute_index \in Steps(t)
      /\ \A i \in Steps(t) : i \in Nat
  BY RouteType DEF Task
<1>2. /\ r.claim_nonce \in Nat
      /\ \A i \in Steps(t) : r.spend[i] \in Nat /\ r.nonce[i] \in Nat
  BY DEF Task
<1>3. ClaimTx(t, r) \in Tx
  BY <1>1, <1>2 DEF ClaimTx, Tx
<1>4. StepTx(t, r) \in Tx
  BY <1>1, <1>2 DEF StepTx, Tx
<1>5. QED
  BY <1>3, <1>4

LEMMA CopyStepType ==
    ASSUME TypeOK, NEW s \in Sessions, CopyStep(s)
    PROVE  TypeOK'
<1>1. ChainsTypeOK /\ StorageTypeOK /\ paused \in BOOLEAN
  BY TypeParts
<1>2. SessionsTypeOK' /\ UNCHANGED paused
  BY CopyStepSessions
<1>3. job[s] \in Tasks /\ rec[s] \in Task(job[s]) /\ rec[s].execute_index \in Steps(job[s])
  BY CopyStepMoves, CopyType DEF Task
<1>4. StorageTypeOK'
  <2>1. UNCHANGED storageVars \/ (workerDoc' = NoTask /\ UNCHANGED taskDoc)
    BY DEF CopyStep, CheckClaimed, Claim, SendClaim, CheckStep, Settle, CanRun, Run, SendStep,
           Destroy, DeleteWorker, RpcError, storageVars
  <2>2. QED
    BY <1>1, <2>1, UnchangedType DEF StorageTypeOK
<1>5. ChainsTypeOK'
  <2>1. CASE SendClaim(s)
    BY <1>1, <1>3, <2>1, TxType, RouteType, AcceptsType DEF SendClaim
  <2>2. CASE SendStep(s)
    <3>1. Src(job[s], rec[s].execute_index) \in Chains
      BY <1>3, RouteType
    <3>2. QED
      BY <1>1, <1>3, <2>2, <3>1, TxType, AcceptsType DEF SendStep
  <2>3. CASE UNCHANGED chainVars
    BY <1>1, <2>3, UnchangedType
  <2>4. QED
    BY <2>1, <2>2, <2>3 DEF CopyStep, CheckClaimed, Claim, CheckStep, Settle, CanRun, Run,
                            Destroy, DeleteWorker, RpcError
<1>6. QED
  BY <1>1, <1>2, <1>4, <1>5, TypeParts
-----------------------------------------------------------------------------
(***************************************************************************)
(* The other steps of a query.                                             *)
(***************************************************************************)

FetchStep(s) ==
    \/ \E t \in Tasks : FetchTask(s, t)
    \/ InitTask(s) \/ ApplyNonce(s) \/ InsertTask(s) \/ InsertWorker(s)

LEMMA FetchStepType ==
    ASSUME TypeOK, NEW s \in Sessions, FetchStep(s)
    PROVE  TypeOK'
<1>1. ChainsTypeOK /\ StorageTypeOK /\ SessionsTypeOK /\ paused \in BOOLEAN
  BY TypeParts
<1>2. /\ {"init", "applyNonce", "insertTask", "insertWorker"} \subseteq Places
      /\ {"init", "applyNonce", "insertWorker"} \cap (Holding \cup {"insertTask"}) = {}
  BY DEF Places, Holding
<1>3. pc[s] # "idle" => job[s] \in Tasks
  BY <1>1 DEF SessionsTypeOK
<1>4. ASSUME NEW t \in Tasks, FetchTask(s, t)
      PROVE  TypeOK'
  <2>1. SessionsTypeOK' /\ UNCHANGED <<chainVars, paused, storageVars>>
    BY <1>1, <1>2, <1>4, StartType DEF FetchTask
  <2>2. QED
    BY <1>1, <2>1, UnchangedType, TypeParts
<1>5. CASE InitTask(s)
  <2>1. SessionsTypeOK' /\ UNCHANGED paused
    BY <1>1, <1>2, <1>5, GotoType, ReturnType DEF InitTask
  <2>2. UNCHANGED <<chainVars, storageVars>>
    BY <1>5 DEF InitTask
  <2>3. QED
    BY <1>1, <2>1, <2>2, UnchangedType, TypeParts
<1>6. CASE ApplyNonce(s)
  <2>1. NewTask(job[s]) \in Task(job[s])
    BY <1>1, <1>3, <1>6, NewTaskType DEF ApplyNonce
  <2>2. SessionsTypeOK' /\ UNCHANGED paused
    BY <1>1, <1>2, <1>6, <2>1, GotoType DEF ApplyNonce
  <2>3. UNCHANGED <<chainVars, storageVars>>
    BY <1>6 DEF ApplyNonce
  <2>4. QED
    BY <1>1, <2>2, <2>3, UnchangedType, TypeParts
<1>7. CASE InsertTask(s)
  <2>1. SessionsTypeOK' /\ UNCHANGED paused
    BY <1>1, <1>2, <1>7, GotoType, ReturnType DEF InsertTask
  <2>2. rec[s] \in Task(job[s])
    BY <1>1, <1>7 DEF SessionsTypeOK, InsertTask
  <2>3. StorageTypeOK'
    BY <1>1, <1>7, <2>2 DEF InsertTask, StorageTypeOK
  <2>4. UNCHANGED chainVars
    BY <1>7 DEF InsertTask
  <2>5. QED
    BY <1>1, <2>1, <2>3, <2>4, UnchangedType, TypeParts
<1>8. CASE InsertWorker(s)
  <2>1. SessionsTypeOK' /\ UNCHANGED paused
    BY <1>1, <1>8, ReturnType DEF InsertWorker
  <2>2. StorageTypeOK'
    BY <1>1, <1>3, <1>8 DEF InsertWorker, StorageTypeOK
  <2>3. UNCHANGED chainVars
    BY <1>8 DEF InsertWorker
  <2>4. QED
    BY <1>1, <2>1, <2>2, <2>3, UnchangedType, TypeParts
<1>9. QED
  BY <1>4, <1>5, <1>6, <1>7, <1>8 DEF FetchStep

\* reapply_nonce gives a copy new nonces of the right type.
LEMMA ReapplyType ==
    ASSUME ChainsTypeOK, NEW t \in Tasks, NEW r \in Task(t), NEW claiming \in BOOLEAN
    PROVE  [r EXCEPT !.retry_counter = 0,
                     !.claim_nonce = IF claiming THEN OnchainNonce(Source(t)) ELSE @,
                     !.nonce = [i \in Steps(t) |->
                                  IF i >= r.at THEN NonceOf(t, i, r.at, claiming)
                                  ELSE @[i]]] \in Task(t)
<1>1. OnchainNonce(Source(t)) \in Nat /\ r.claim_nonce \in Nat
  BY OnchainNonceType, RouteType DEF Task
<1>2. r.at \in Nat /\ r.nonce \in [Steps(t) -> Nat]
  BY RouteType DEF Task
<1>3. [i \in Steps(t) |-> IF i >= r.at THEN NonceOf(t, i, r.at, claiming) ELSE r.nonce[i]]
        \in [Steps(t) -> Nat]
  BY <1>2, NonceOfType
<1>4. 0 \in 0..MaxRetry
  OBVIOUS
<1>5. QED
  BY <1>1, <1>3, <1>4 DEF Task

ExecuteStep(s) ==
    \/ ExecuteTask(s) \/ ReadTask(s) \/ SaveTask(s) \/ Abort(s)
    \/ (\E t \in Tasks : RetryTask(s, t)) \/ ReapplyNonce(s)

LEMMA ExecuteStepType ==
    ASSUME TypeOK, NEW s \in Sessions, ExecuteStep(s)
    PROVE  TypeOK'
<1>1. ChainsTypeOK /\ StorageTypeOK /\ SessionsTypeOK /\ paused \in BOOLEAN
  BY TypeParts
<1>2. /\ {"readTask", "claimed", "reapply", "canRun"} \subseteq Places
      /\ "readTask" \notin Holding \cup {"insertTask"}
      /\ "reapply" \in Holding /\ "save" \in Holding
  BY DEF Places, Holding
<1>3. /\ pc[s] # "idle" => job[s] \in Tasks
      /\ pc[s] \in Holding => rec[s] \in Task(job[s])
  BY <1>1 DEF SessionsTypeOK
<1>4. CASE ExecuteTask(s)
  <2>1. workerDoc \in Tasks
    BY <1>1, <1>4 DEF ExecuteTask, StorageTypeOK
  <2>2. SessionsTypeOK' /\ UNCHANGED <<chainVars, paused, storageVars>>
    BY <1>1, <1>2, <1>4, <2>1, StartType DEF ExecuteTask
  <2>3. QED
    BY <1>1, <2>2, UnchangedType, TypeParts
<1>5. CASE ReadTask(s)
  <2>1. taskDoc[job[s]] # NoDoc => taskDoc[job[s]] \in Task(job[s])
    BY <1>1, <1>3, <1>5 DEF ReadTask, StorageTypeOK
  <2>2. SessionsTypeOK' /\ UNCHANGED paused
    BY <1>1, <1>2, <1>5, <2>1, GotoType, ReturnType DEF ReadTask
  <2>3. UNCHANGED <<chainVars, storageVars>>
    BY <1>5 DEF ReadTask
  <2>4. QED
    BY <1>1, <2>2, <2>3, UnchangedType, TypeParts
<1>6. CASE SaveTask(s)
  <2>1. SessionsTypeOK' /\ UNCHANGED paused
    BY <1>1, <1>6, ReturnType DEF SaveTask
  <2>2. rec[s] \in Task(job[s])
    BY <1>2, <1>3, <1>6 DEF SaveTask
  <2>3. StorageTypeOK'
    BY <1>1, <1>6, <2>2 DEF SaveTask, StorageTypeOK
  <2>4. UNCHANGED chainVars
    BY <1>6 DEF SaveTask
  <2>5. QED
    BY <1>1, <2>1, <2>3, <2>4, UnchangedType, TypeParts
<1>7. CASE Abort(s)
  <2>1. SessionsTypeOK' /\ UNCHANGED paused
    BY <1>1, <1>7, ReturnType DEF Abort
  <2>2. QED
    BY <1>1, <1>7, <2>1, UnchangedType, TypeParts DEF Abort
<1>8. ASSUME NEW t \in Tasks, RetryTask(s, t)
      PROVE  TypeOK'
  <2>1. taskDoc[t] \in Task(t)
    BY <1>1, <1>8 DEF RetryTask, StorageTypeOK
  <2>2. SessionsTypeOK' /\ UNCHANGED <<chainVars, paused, storageVars>>
    BY <1>1, <1>2, <1>8, <2>1, StartType DEF RetryTask
  <2>3. QED
    BY <1>1, <2>2, UnchangedType, TypeParts
<1>9. CASE ReapplyNonce(s)
  <2> DEFINE t == job[s]
             r == rec[s]
             claiming == OnchainNonce(Source(t)) <= r.claim_nonce
             reapplied == [r EXCEPT
                     !.retry_counter = 0,
                     !.claim_nonce = IF claiming THEN OnchainNonce(Source(t)) ELSE @,
                     !.nonce = [i \in Steps(t) |->
                                  IF i >= r.at THEN NonceOf(t, i, r.at, claiming)
                                  ELSE @[i]]]
  <2>1. t \in Tasks /\ r \in Task(t)
    BY <1>2, <1>3, <1>9 DEF ReapplyNonce
  <2>2. claiming \in BOOLEAN
    OBVIOUS
  <2> HIDE DEF claiming
  <2>3. reapplied \in Task(t)
    BY <1>1, <2>1, <2>2, ReapplyType
  <2>4. Return(s) \/ Goto(s, "canRun", reapplied)
    BY <1>9 DEF ReapplyNonce, claiming
  <2> HIDE DEF reapplied
  <2>5. SessionsTypeOK' /\ UNCHANGED paused
    BY <1>1, <1>2, <1>9, <2>3, <2>4, GotoType, ReturnType DEF ReapplyNonce
  <2>6. UNCHANGED <<chainVars, storageVars>>
    BY <1>9 DEF ReapplyNonce
  <2>7. QED
    BY <1>1, <2>5, <2>6, UnchangedType, TypeParts
<1>10. QED
  BY <1>4, <1>5, <1>6, <1>7, <1>8, <1>9 DEF ExecuteStep

LEMMA OwnerStepType ==
    ASSUME TypeOK, OwnerStep
    PROVE  TypeOK'
<1>1. ChainsTypeOK /\ StorageTypeOK /\ SessionsTypeOK /\ paused \in BOOLEAN
  BY TypeParts
<1>2. CASE PauseExecutor \/ ResumeExecutor
  BY <1>1, <1>2, UnchangedType, TypeParts DEF PauseExecutor, ResumeExecutor
<1>3. ASSUME NEW c \in Chains, NEW kind \in {"approve", "drop"}, NEW t \in Tasks \cup {NoTask},
             OwnerSends(c, kind, t)
      PROVE  TypeOK'
  <2>1. Len(mined[c]) \in Nat
    <3>1. mined[c] \in Seq(Receipt)
      BY <1>1 DEF ChainsTypeOK
    <3>2. QED
      BY <3>1, LenProperties
  <2>2. [kind |-> kind, task |-> t, step |-> 0, spend |-> 0, nonce |-> Len(mined[c])] \in Tx
    BY <2>1 DEF Tx
  <2>3. ChainsTypeOK'
    BY <1>1, <1>3, <2>2, AcceptsType DEF OwnerSends
  <2>4. QED
    BY <1>1, <1>3, <2>3, UnchangedType, TypeParts DEF OwnerSends
<1>4. ASSUME NEW t \in Tasks, WorkerDropTask(t)
      PROVE  TypeOK'
  BY <1>3, <1>4, RouteType DEF WorkerDropTask
<1>5. QED
  BY <1>2, <1>3, <1>4 DEF OwnerStep, WorkerApprove

\* Every step is one of these.
LEMMA NextParts ==
    Next => \/ \E s \in Sessions : FetchStep(s) \/ CopyStep(s) \/ ExecuteStep(s)
            \/ ChainStep
            \/ OwnerStep
  BY DEF Next, SessionStep, FetchStep, CopyStep, ExecuteStep

LEMMA InitType == Init => TypeOK
<1> SUFFICES ASSUME Init PROVE TypeOK
  OBVIOUS
<1>1. ChainsTypeOK
  <2>1. <<>> \in Seq(Receipt) /\ IsFiniteSet({})
    BY EmptySeq, FS_EmptySet
  <2>2. bal = [t \in Tasks |-> bal[t]]
    BY DEF Init, ChainsInit
  <2>3. \A t \in Tasks : bal[t] \in [0..Len(Route[t]) -> Nat]
    BY DEF Init, ChainsInit
  <2>4. QED
    BY <2>1, <2>2, <2>3 DEF Init, ChainsInit, ChainsTypeOK
<1>2. StorageTypeOK
  BY DEF Init, StorageTypeOK
<1>3. SessionsTypeOK
  BY DEF Init, SessionsTypeOK, Places, Holding
<1>4. QED
  BY <1>1, <1>2, <1>3, TypeParts DEF Init

LEMMA NextType == TypeOK /\ [Next]_vars => TypeOK'
<1> SUFFICES ASSUME TypeOK, [Next]_vars PROVE TypeOK'
  OBVIOUS
<1>1. ChainsTypeOK /\ StorageTypeOK /\ SessionsTypeOK /\ paused \in BOOLEAN
  BY TypeParts
<1>2. CASE UNCHANGED vars
  BY <1>1, <1>2, UnchangedType, TypeParts DEF vars
<1>3. CASE ChainStep
  <2>1. ChainsTypeOK'
    BY <1>1, <1>3, ChainStepType
  <2>2. UNCHANGED <<paused, storageVars, sessionVars>>
    BY <1>3 DEF ChainStep
  <2>3. QED
    BY <1>1, <2>1, <2>2, UnchangedType, TypeParts
<1>4. QED
  BY <1>2, <1>3, NextParts, FetchStepType, CopyStepType, ExecuteStepType, OwnerStepType

-----------------------------------------------------------------------------
\* Whatever the number of chains, tasks and queries, and with every fault and every
\* caller: the documents and the queries' copies always are tasks of the right
\* shape, balances never go negative, no step is settled that has none before it.
THEOREM TaskTypeCorrect == Spec => []TypeOK
<1>1. Init => TypeOK
  BY InitType
<1>2. TypeOK /\ [Next]_vars => TypeOK'
  BY NextType
<1>3. QED
  BY <1>1, <1>2, PTL DEF Spec

-----------------------------------------------------------------------------
(***************************************************************************)
(* One document for each task, one transaction for each claim and step.    *)
(***************************************************************************)
\* What any step of query s leaves alone in the others.
Others(s) ==
    \A u \in Sessions \ {s} : pc'[u] = pc[u] /\ job'[u] = job[u] /\ rec'[u] = rec[u]

DocsKept == \A t \in Tasks : taskDoc[t] # NoDoc => taskDoc'[t] # NoDoc

QueryStep(s) == FetchStep(s) \/ CopyStep(s) \/ ExecuteStep(s)

LEMMA GotoOthers ==
    ASSUME TypeOK, NEW s \in Sessions, NEW p, NEW r, Goto(s, p, r)
    PROVE  Others(s) /\ pc'[s] = p /\ job'[s] = job[s] /\ rec'[s] = r
  BY DEF TypeOK, Goto, Others

LEMMA ReturnOthers ==
    ASSUME TypeOK, NEW s \in Sessions, Return(s)
    PROVE  Others(s) /\ pc'[s] = "idle"
  BY DEF TypeOK, Return, Others

LEMMA StartOthers ==
    ASSUME TypeOK, NEW s \in Sessions, NEW o, NEW t, NEW p, NEW r, Start(s, o, t, p, r)
    PROVE  /\ Others(s) /\ pc'[s] = p /\ job'[s] = t /\ rec'[s] = r
           /\ UNCHANGED <<chainVars, storageVars>>
  BY DEF TypeOK, Start, Others

LEMMA MovesOthers ==
    ASSUME TypeOK, NEW s \in Sessions, CopyStep(s)
    PROVE  /\ Others(s)
           /\ \/ pc'[s] = "idle"
              \/ /\ pc'[s] \in Holding \ {"reapply"} /\ job'[s] = job[s]
                 /\ SameNonces(job[s], rec'[s], rec[s])
<1>1. CASE Return(s)
  BY <1>1, ReturnOthers
<1>2. CASE Moves(s)
  BY <1>2, GotoOthers DEF Moves
<1>3. QED
  BY <1>1, <1>2, CopyStepMoves

-----------------------------------------------------------------------------
(***************************************************************************)
(* The documents a query knows.                                            *)
(***************************************************************************)

\* A step of query s keeps KnownTasks when no document disappears and what the
\* query and the worker know afterwards exists.
LEMMA QueryKnown ==
    ASSUME TypeOK, KnownTasks, NEW s \in Sessions, Others(s), DocsKept,
           pc'[s] \in Holding \cup {"insertWorker"} => taskDoc'[job'[s]] # NoDoc,
           workerDoc' \in {workerDoc, NoTask} \/ taskDoc'[workerDoc'] # NoDoc
    PROVE  KnownTasks'
<1>1. WorkerHasTask'
  BY DEF TypeOK, KnownTasks, WorkerHasTask, DocsKept
<1>2. ASSUME NEW u \in Sessions, pc'[u] \in Holding \cup {"insertWorker"}
      PROVE  taskDoc'[job'[u]] # NoDoc
  <2>1. CASE u = s
    BY <1>2, <2>1
  <2>2. CASE u # s
    <3>1. pc[u] # "idle" /\ job[u] \in Tasks /\ taskDoc[job[u]] # NoDoc /\ job'[u] = job[u]
      BY <1>2, <2>2 DEF Others, KnownTasks, TypeOK, Holding
    <3>2. QED
      BY <3>1 DEF DocsKept
  <2>3. QED
    BY <2>1, <2>2
<1>3. QED
  BY <1>1, <1>2 DEF KnownTasks

\* A query that holds a copy goes on with it.
LEMMA CopyStepKnown ==
    ASSUME TypeOK, KnownTasks, NEW s \in Sessions, CopyStep(s)
    PROVE  KnownTasks'
<1>1. UNCHANGED taskDoc /\ workerDoc' \in {workerDoc, NoTask}
  BY DEF CopyStep, CheckClaimed, Claim, SendClaim, CheckStep, Settle, CanRun, Run, SendStep,
         Destroy, DeleteWorker, RpcError, storageVars
<1>2. pc'[s] \in Holding \cup {"insertWorker"} => job'[s] = job[s]
  BY MovesOthers DEF Holding
<1>3. taskDoc[job[s]] # NoDoc
  BY CopyStepMoves DEF KnownTasks
<1>4. QED
  BY <1>1, <1>2, <1>3, MovesOthers, QueryKnown DEF DocsKept

LEMMA FetchStepKnown ==
    ASSUME TypeOK, KnownTasks, NEW s \in Sessions, FetchStep(s)
    PROVE  KnownTasks'
<1>1. "init" \notin Holding /\ "applyNonce" \notin Holding /\ "insertTask" \notin Holding
      /\ "idle" \notin Holding
  BY DEF Holding
<1>2. ASSUME NEW t \in Tasks, FetchTask(s, t)
      PROVE  KnownTasks'
  BY <1>1, <1>2, StartOthers, QueryKnown DEF FetchTask, DocsKept, storageVars
<1>3. CASE InitTask(s)
  BY <1>1, <1>3, GotoOthers, ReturnOthers, QueryKnown DEF InitTask, DocsKept, storageVars
<1>4. CASE ApplyNonce(s)
  BY <1>1, <1>4, GotoOthers, QueryKnown DEF ApplyNonce, DocsKept, storageVars
<1>5. CASE InsertTask(s)
  <2>1. job[s] \in Tasks /\ rec[s] \in Task(job[s])
    BY <1>5 DEF InsertTask, TypeOK
  <2>2. DocsKept
    BY <1>5, <2>1 DEF InsertTask, DocsKept, TypeOK
  <2>3. Others(s) /\ (pc'[s] = "idle" \/ (job'[s] = job[s] /\ taskDoc'[job[s]] = rec[s]))
    BY <1>5, <2>1, GotoOthers, ReturnOthers DEF InsertTask, TypeOK
  <2>4. QED
    BY <1>1, <1>5, <2>1, <2>2, <2>3, QueryKnown DEF InsertTask
<1>6. CASE InsertWorker(s)
  <2>1. taskDoc[job[s]] # NoDoc
    BY <1>6 DEF InsertWorker, KnownTasks
  <2>2. QED
    BY <1>1, <1>6, <2>1, ReturnOthers, QueryKnown DEF InsertWorker, DocsKept
<1>7. QED
  BY <1>2, <1>3, <1>4, <1>5, <1>6 DEF FetchStep

LEMMA ExecuteStepKnown ==
    ASSUME TypeOK, KnownTasks, NEW s \in Sessions, ExecuteStep(s)
    PROVE  KnownTasks'
<1>1. "readTask" \notin Holding /\ "idle" \notin Holding /\ "save" \in Holding
      /\ "reapply" \in Holding
  BY DEF Holding
<1>2. CASE ExecuteTask(s)
  BY <1>1, <1>2, StartOthers, QueryKnown DEF ExecuteTask, DocsKept, storageVars
<1>3. CASE ReadTask(s)
  BY <1>1, <1>3, GotoOthers, ReturnOthers, QueryKnown DEF ReadTask, DocsKept, storageVars
<1>4. CASE SaveTask(s)
  <2>1. job[s] \in Tasks /\ rec[s] \in Task(job[s])
    BY <1>1, <1>4 DEF SaveTask, TypeOK
  <2>2. DocsKept
    BY <1>4, <2>1 DEF SaveTask, DocsKept, TypeOK
  <2>3. QED
    BY <1>1, <1>4, <2>2, ReturnOthers, QueryKnown DEF SaveTask
<1>5. CASE Abort(s)
  BY <1>1, <1>5, ReturnOthers, QueryKnown DEF Abort, DocsKept, storageVars
<1>6. ASSUME NEW t \in Tasks, RetryTask(s, t)
      PROVE  KnownTasks'
  BY <1>6, StartOthers, QueryKnown DEF RetryTask, DocsKept, storageVars
<1>7. CASE ReapplyNonce(s)
  <2>1. taskDoc[job[s]] # NoDoc
    BY <1>1, <1>7 DEF ReapplyNonce, KnownTasks
  <2>2. Others(s) /\ (pc'[s] = "idle" \/ job'[s] = job[s])
    BY <1>7, GotoOthers, ReturnOthers DEF ReapplyNonce
  <2>3. QED
    BY <1>1, <1>7, <2>1, <2>2, QueryKnown DEF ReapplyNonce, DocsKept, storageVars
<1>8. QED
  BY <1>2, <1>3, <1>4, <1>5, <1>6, <1>7 DEF ExecuteStep

LEMMA NextKnown == TypeOK /\ KnownTasks /\ [Next]_vars => KnownTasks'
<1> SUFFICES ASSUME TypeOK, KnownTasks, [Next]_vars PROVE KnownTasks'
  OBVIOUS
<1>1. CASE UNCHANGED <<storageVars, sessionVars>>
  BY <1>1 DEF KnownTasks, WorkerHasTask, storageVars, sessionVars
<1>2. CASE ChainStep \/ OwnerStep \/ UNCHANGED vars
  BY <1>1, <1>2 DEF ChainStep, OwnerStep, PauseExecutor, ResumeExecutor, WorkerApprove,
                    WorkerDropTask, OwnerSends, vars
<1>3. QED
  BY <1>2, NextParts, FetchStepKnown, CopyStepKnown, ExecuteStepKnown

\* Whatever happens, the task the worker document names has a document (init inserts
\* the task before the worker, and no query deletes a task document).
THEOREM WorkerAlwaysHasTask == Spec => []WorkerHasTask
<1>1. Init => KnownTasks
  BY DEF Init, KnownTasks, WorkerHasTask, Holding
<1>2. KnownTasks => WorkerHasTask
  BY DEF KnownTasks
<1>3. QED
  BY <1>1, <1>2, NextKnown, TaskTypeCorrect, PTL DEF Spec

-----------------------------------------------------------------------------
(***************************************************************************)
(* The nonces of the documents, the copies and the transactions.           *)
(***************************************************************************)

\* No document gets other nonces.
PlanKept ==
    \A t \in Tasks : taskDoc[t] # NoDoc =>
        taskDoc'[t] # NoDoc /\ SameNonces(t, taskDoc'[t], taskDoc[t])

LEMMA SameNoncesTransitive ==
    ASSUME NEW t, NEW p, NEW q, NEW r, SameNonces(t, p, q), SameNonces(t, q, r)
    PROVE  SameNonces(t, p, r)
  BY DEF SameNonces

LEMMA UnchangedPlanKept ==
    ASSUME UNCHANGED taskDoc
    PROVE  PlanKept
  BY DEF PlanKept, SameNonces

\* The steps that do not come from retry.
LEMMA QueryPlanKept ==
    ASSUME TypeOK, OnceInv, NEW s \in Sessions, QueryStep(s)
    PROVE  PlanKept
<1>1. CASE InsertTask(s)
  BY <1>1 DEF InsertTask, PlanKept, TypeOK, SameNonces
<1>2. CASE SaveTask(s)
  <2>1. pc[s] \in Holding
    BY <1>2 DEF SaveTask, Holding
  <2>2. job[s] \in Tasks /\ rec[s] \in Task(job[s]) /\ SameNonces(job[s], rec[s], taskDoc[job[s]])
    BY <2>1 DEF TypeOK, OnceInv, NoncesAgree, Holding
  <2>3. taskDoc' = [taskDoc EXCEPT ![job[s]] = rec[s]]
    BY <1>2 DEF SaveTask
  <2>4. rec[s] # NoDoc
    BY <2>2
  <2>5. QED
    BY <2>2, <2>3, <2>4 DEF PlanKept, TypeOK, SameNonces
<1>3. CASE UNCHANGED taskDoc
  BY <1>3, UnchangedPlanKept
<1>4. QED
  BY <1>1, <1>2, <1>3
  DEF QueryStep, FetchStep, CopyStep, ExecuteStep, FetchTask, InitTask, ApplyNonce,
      InsertWorker, CheckClaimed, Claim, SendClaim, CheckStep, Settle, CanRun, Run, SendStep,
      Destroy, DeleteWorker, RpcError, ExecuteTask, ReadTask, Abort, RetryTask, ReapplyNonce,
      Start, storageVars

\* A copy that exists after a step of s is one of before, or a document's.
LEMMA QueryAgree ==
    ASSUME NoRetry, TypeOK, OnceInv, NEW s \in Sessions, QueryStep(s)
    PROVE  /\ NoncesAgree'
           /\ \A u \in Sessions : pc'[u] # "reapply"
<1>1. Others(s) /\ (pc'[s] \in Holding =>
          /\ pc'[s] # "reapply"
          /\ job'[s] = job[s]
          /\ UNCHANGED taskDoc
          /\ SameNonces(job[s], rec'[s], taskDoc[job[s]]))
      /\ pc'[s] # "reapply"
  <2>1. CASE CopyStep(s)
    <3>1. pc[s] \in Holding /\ SameNonces(job[s], rec[s], taskDoc[job[s]])
      BY <2>1, CopyStepMoves DEF OnceInv, NoncesAgree
    <3>2. UNCHANGED taskDoc
      BY <2>1 DEF CopyStep, CheckClaimed, Claim, SendClaim, CheckStep, Settle, CanRun, Run,
                  SendStep, Destroy, DeleteWorker, RpcError, storageVars
    <3>3. "idle" \notin Holding
      BY DEF Holding
    <3>4. QED
      BY <2>1, <3>1, <3>2, <3>3, MovesOthers, SameNoncesTransitive
  <2>2. CASE FetchStep(s)
    <3>1. {"idle", "init", "applyNonce", "insertTask", "insertWorker"} \cap Holding = {}
      BY DEF Holding
    <3>2. Others(s) /\ pc'[s] \in {"idle", "init", "applyNonce", "insertTask", "insertWorker"}
      BY <2>2, GotoOthers, ReturnOthers, StartOthers
      DEF FetchStep, FetchTask, InitTask, ApplyNonce, InsertTask, InsertWorker
    <3>3. QED
      BY <3>1, <3>2
  <2>3. CASE ExecuteTask(s) \/ SaveTask(s) \/ Abort(s)
    <3>1. "idle" \notin Holding /\ "readTask" \notin Holding
      BY DEF Holding
    <3>2. Others(s) /\ pc'[s] \in {"idle", "readTask"}
      BY <2>3, ReturnOthers, StartOthers DEF ExecuteTask, SaveTask, Abort
    <3>3. QED
      BY <3>1, <3>2
  <2>4. CASE ReadTask(s)
    <3>1. "idle" \notin Holding /\ UNCHANGED taskDoc
      BY <2>4 DEF Holding, ReadTask, storageVars
    <3>2. QED
      BY <2>4, <3>1, GotoOthers, ReturnOthers DEF ReadTask, SameNonces
  <2>5. ~ReapplyNonce(s) /\ \A t \in Tasks : ~RetryTask(s, t)
    BY DEF OnceInv, ReapplyNonce, NoRetry, RetryTask
  <2>6. QED
    BY <2>1, <2>2, <2>3, <2>4, <2>5 DEF QueryStep, ExecuteStep
<1>2. ASSUME NEW u \in Sessions
      PROVE  /\ pc'[u] # "reapply"
             /\ pc'[u] \in Holding => SameNonces(job'[u], rec'[u], taskDoc'[job'[u]])
  <2>1. CASE u = s
    BY <1>1, <2>1
  <2>2. CASE u # s
    <3>1. pc'[u] = pc[u] /\ job'[u] = job[u] /\ rec'[u] = rec[u]
      BY <1>1, <2>2 DEF Others
    <3>2. pc[u] # "reapply"
      BY DEF OnceInv
    <3>3. ASSUME pc[u] \in Holding
          PROVE  SameNonces(job[u], rec[u], taskDoc'[job[u]])
      <4>1. job[u] \in Tasks
        BY <3>3 DEF TypeOK, Holding
      <4>2. taskDoc[job[u]] # NoDoc /\ SameNonces(job[u], rec[u], taskDoc[job[u]])
        BY <3>3 DEF OnceInv, KnownTasks, NoncesAgree
      <4>3. SameNonces(job[u], taskDoc'[job[u]], taskDoc[job[u]])
        BY <4>1, <4>2, QueryPlanKept DEF PlanKept
      <4>4. QED
        BY <4>2, <4>3 DEF SameNonces
    <3>4. QED
      BY <3>1, <3>2, <3>3
  <2>3. QED
    BY <2>1, <2>2
<1>3. QED
  BY <1>2 DEF NoncesAgree

\* A transaction that is planned stays so.
LEMMA PlannedKept ==
    ASSUME PlanKept, NEW tx, Planned(tx)
    PROVE  Planned(tx)'
  BY DEF PlanKept, Planned, SameNonces

\* What the chains may do to a plan: take a planned transaction ...
LEMMA AcceptsPlanned ==
    ASSUME ChainsTypeOK, NoncesPlanned, PlanKept, NEW c \in Chains, NEW tx, Planned(tx),
           Accepts(c, tx) \/ Refuses(c, tx) \/ UNCHANGED chainVars
    PROVE  NoncesPlanned'
<1>1. Planned(tx)'
  BY PlannedKept
<1>2. mined' = mined
  BY DEF Accepts, Refuses, chainVars
<1>3. \A d \in Chains : \A p \in pool'[d] : p \in pool[d] \/ p = tx
  BY DEF Accepts, Refuses, chainVars, ChainsTypeOK
<1>4. QED
  BY <1>1, <1>2, <1>3, PlannedKept DEF NoncesPlanned

LEMMA UnchangedPlanned ==
    ASSUME NoncesPlanned, PlanKept, UNCHANGED chainVars
    PROVE  NoncesPlanned'
  BY PlannedKept DEF NoncesPlanned, chainVars

\* ... and include it at its nonce.
LEMMA ChainStepPlanned ==
    ASSUME ChainsTypeOK, NoncesPlanned, ChainStep
    PROVE  NoncesPlanned'
<1>1. PlanKept
  BY UnchangedPlanKept DEF ChainStep, storageVars
<1>2. ASSUME NEW c \in Chains, NEW tx \in pool[c], Mine(c, tx)
      PROVE  NoncesPlanned'
  <2>1. PICK ok \in BOOLEAN : mined' = [mined EXCEPT ![c] = Append(@, [tx |-> tx, ok |-> ok])]
    BY <1>2 DEF Mine
  <2> DEFINE new == [tx |-> tx, ok |-> ok]
             L == Len(mined[c])
  <2>2. mined[c] \in Seq(Receipt) /\ new \in Receipt
    BY DEF ChainsTypeOK, Receipt
  <2>3. /\ L \in Nat
        /\ Len(Append(mined[c], new)) = L + 1
        /\ \A n \in 1..L : Append(mined[c], new)[n] = mined[c][n]
        /\ Append(mined[c], new)[L + 1] = new
    BY <2>2, LenProperties, AppendProperties
  <2>4. tx.nonce = L /\ Planned(tx)
    BY <1>2 DEF Mine, NoncesPlanned
  <2>5. mined'[c] = Append(mined[c], new)
    BY <2>1 DEF ChainsTypeOK
  <2>6. \A d \in Chains : d # c => mined'[d] = mined[d]
    BY <2>1 DEF ChainsTypeOK
  <2>7. \A d \in Chains : \A p \in pool'[d] : p \in pool[d]
    BY <1>2 DEF Mine, ChainsTypeOK
  <2>8. new.tx = tx
    OBVIOUS
  <2> HIDE DEF new, L
  <2>9. ASSUME NEW n \in 1..(L + 1)
        PROVE  Planned(mined'[c][n].tx) /\ mined'[c][n].tx.nonce = n - 1
    <3>1. CASE n = L + 1
      <4>1. mined'[c][n].tx = tx
        BY <2>3, <2>5, <2>8, <3>1
      <4>2. n - 1 = L
        BY <2>3, <3>1
      <4>3. QED
        BY <2>4, <4>1, <4>2
    <3>2. CASE n # L + 1
      <4>1. n \in 1..L
        BY <2>3, <3>2
      <4>2. mined'[c][n] = mined[c][n]
        BY <2>3, <2>5, <4>1
      <4>3. QED
        BY <4>1, <4>2 DEF NoncesPlanned, L
    <3>3. QED
      BY <3>1, <3>2
  <2>10. ASSUME NEW d \in Chains, NEW n \in 1..Len(mined'[d])
         PROVE  Planned(mined'[d][n].tx) /\ mined'[d][n].tx.nonce = n - 1
    <3>1. CASE d = c
      <4>1. Len(mined'[c]) = L + 1
        BY <2>3, <2>5
      <4>2. n \in 1..(L + 1)
        BY <3>1, <4>1
      <4>3. QED
        BY <2>9, <3>1, <4>2
    <3>2. CASE d # c
      BY <2>6, <3>2 DEF NoncesPlanned
    <3>3. QED
      BY <3>1, <3>2
  <2>11. \A d \in Chains : \A p \in pool'[d] : Planned(p)
    BY <2>7 DEF NoncesPlanned
  <2>12. QED
    BY <1>1, <2>10, <2>11, PlannedKept DEF NoncesPlanned
<1>3. ASSUME mined' = mined, \A d \in Chains : \A p \in pool'[d] : p \in pool[d]
      PROVE  NoncesPlanned'
  BY <1>1, <1>3, PlannedKept DEF NoncesPlanned
<1>4. ASSUME NEW c \in Chains, NEW tx \in pool[c], Evict(c, tx)
      PROVE  NoncesPlanned'
  BY <1>3, <1>4 DEF Evict, ChainsTypeOK
<1>5. QED
  BY <1>2, <1>3, <1>4 DEF ChainStep, Index, Arrive

\* A query only sends what is planned.
LEMMA QueryPlanned ==
    ASSUME NoRetry, TypeOK, OnceInv, NEW s \in Sessions, QueryStep(s)
    PROVE  NoncesPlanned'
<1>1. ChainsTypeOK /\ NoncesPlanned /\ PlanKept
  BY TypeParts, QueryPlanKept DEF OnceInv
<1>2. ASSUME pc[s] \in Holding
      PROVE  Planned(ClaimTx(job[s], rec[s])) /\ Planned(StepTx(job[s], rec[s]))
  <2>1. /\ job[s] \in Tasks
        /\ taskDoc[job[s]] # NoDoc
        /\ SameNonces(job[s], rec[s], taskDoc[job[s]])
    BY <1>2, CopyType DEF OnceInv, KnownTasks, NoncesAgree
  <2>2. QED
    BY <2>1 DEF Planned, ClaimTx, StepTx, SameNonces
<1>3. CASE SendClaim(s)
  <2>1. pc[s] \in Holding /\ job[s] \in Tasks
    BY <1>3, CopyType DEF SendClaim, Holding
  <2>2. \/ Accepts(Source(job[s]), ClaimTx(job[s], rec[s]))
        \/ Refuses(Source(job[s]), ClaimTx(job[s], rec[s]))
    BY <1>3 DEF SendClaim
  <2>3. QED
    BY <1>1, <1>2, <2>1, <2>2, RouteType, AcceptsPlanned
<1>4. CASE SendStep(s)
  <2>1. pc[s] \in Holding /\ job[s] \in Tasks /\ rec[s].execute_index \in Steps(job[s])
    BY <1>4, CopyType DEF SendStep, Holding, Task
  <2>2. Src(job[s], rec[s].execute_index) \in Chains
    BY <2>1, RouteType
  <2>3. \/ Accepts(Src(job[s], rec[s].execute_index), StepTx(job[s], rec[s]))
        \/ Refuses(Src(job[s], rec[s].execute_index), StepTx(job[s], rec[s]))
    BY <1>4 DEF SendStep
  <2>4. QED
    BY <1>1, <1>2, <2>1, <2>2, <2>3, AcceptsPlanned
<1>5. CASE UNCHANGED chainVars
  BY <1>1, <1>5, UnchangedPlanned
<1>6. QED
  BY <1>3, <1>4, <1>5
  DEF QueryStep, FetchStep, CopyStep, ExecuteStep, FetchTask, InitTask, ApplyNonce, InsertTask,
      InsertWorker, CheckClaimed, Claim, CheckStep, Settle, CanRun, Run, Destroy, DeleteWorker,
      RpcError, ExecuteTask, ReadTask, SaveTask, Abort, RetryTask, ReapplyNonce, Start

LEMMA OwnerPlanned ==
    ASSUME TypeOK, OnceInv, OwnerStep
    PROVE  NoncesPlanned'
<1>1. ChainsTypeOK /\ NoncesPlanned
  BY TypeParts DEF OnceInv
<1>2. PlanKept
  BY UnchangedPlanKept DEF OwnerStep, PauseExecutor, ResumeExecutor, WorkerApprove,
                           WorkerDropTask, OwnerSends, storageVars
<1>3. ASSUME NEW c \in Chains, NEW kind \in {"approve", "drop"}, NEW t, OwnerSends(c, kind, t)
      PROVE  NoncesPlanned'
  <2> DEFINE tx == [kind |-> kind, task |-> t, step |-> 0, spend |-> 0, nonce |-> Len(mined[c])]
  <2>1. Planned(tx)
    BY DEF Planned
  <2>2. Accepts(c, tx) \/ Refuses(c, tx)
    BY <1>3 DEF OwnerSends
  <2> HIDE DEF tx
  <2>3. QED
    BY <1>1, <1>2, <2>1, <2>2, AcceptsPlanned
<1>4. ASSUME NEW t \in Tasks, WorkerDropTask(t)
      PROVE  NoncesPlanned'
  BY <1>3, <1>4, RouteType DEF WorkerDropTask
<1>5. CASE PauseExecutor \/ ResumeExecutor
  BY <1>1, <1>2, <1>5, UnchangedPlanned DEF PauseExecutor, ResumeExecutor
<1>6. QED
  BY <1>3, <1>4, <1>5 DEF OwnerStep, WorkerApprove

LEMMA InitOnce == Init => OnceInv
  BY DEF Init, ChainsInit, OnceInv, KnownTasks, WorkerHasTask, NoncesAgree, NoncesPlanned,
         Holding

LEMMA NextOnce == NoRetry /\ TypeOK /\ OnceInv /\ [Next]_vars => OnceInv'
<1> SUFFICES ASSUME NoRetry, TypeOK, OnceInv, [Next]_vars PROVE OnceInv'
  OBVIOUS
<1>1. KnownTasks'
  BY NextKnown DEF OnceInv
<1>2. CASE \E s \in Sessions : QueryStep(s)
  BY <1>1, <1>2, QueryAgree, QueryPlanned DEF OnceInv
<1>3. CASE ChainStep \/ OwnerStep \/ UNCHANGED vars
  <2>1. UNCHANGED <<storageVars, sessionVars>>
    BY <1>3 DEF ChainStep, OwnerStep, PauseExecutor, ResumeExecutor, WorkerApprove,
                WorkerDropTask, OwnerSends, vars
  <2>2. NoncesAgree' /\ \A s \in Sessions : pc'[s] # "reapply"
    BY <2>1 DEF OnceInv, NoncesAgree, storageVars, sessionVars
  <2>3. NoncesPlanned'
    <3>1. CASE ChainStep
      BY <3>1, TypeParts, ChainStepPlanned DEF OnceInv
    <3>2. CASE OwnerStep
      BY <3>2, OwnerPlanned
    <3>3. CASE UNCHANGED vars
      BY <3>3, UnchangedPlanKept, UnchangedPlanned DEF vars, storageVars, OnceInv
    <3>4. QED
      BY <1>3, <3>1, <3>2, <3>3
  <2>4. QED
    BY <1>1, <2>2, <2>3 DEF OnceInv
<1>4. QED
  BY <1>2, <1>3, NextParts DEF QueryStep

\* Two transactions of one chain that have the same planned nonce are the same.
LEMMA OnceIsAtMostOnce == TypeOK /\ OnceInv => AtMostOnce
<1> SUFFICES ASSUME TypeOK, OnceInv, NEW t \in Tasks
             PROVE  /\ \A i \in Unmerged(t) : \A m, n \in 1..Len(mined[Src(t, i)]) :
                         IsStep(mined[Src(t, i)][m], t, i) /\ IsStep(mined[Src(t, i)][n], t, i)
                            => m = n
                    /\ \A m, n \in 1..Len(mined[Source(t)]) :
                         IsClaim(mined[Source(t)][m], t) /\ IsClaim(mined[Source(t)][n], t)
                            => m = n
  BY DEF AtMostOnce
<1>1. \A c \in Chains : \A n \in 1..Len(mined[c]) :
         Planned(mined[c][n].tx) /\ mined[c][n].tx.nonce = n - 1
  BY DEF OnceInv, NoncesPlanned
<1>2. ASSUME NEW i \in Unmerged(t), NEW m \in 1..Len(mined[Src(t, i)]),
             NEW n \in 1..Len(mined[Src(t, i)]),
             IsStep(mined[Src(t, i)][m], t, i), IsStep(mined[Src(t, i)][n], t, i)
      PROVE  m = n
  <2>1. Src(t, i) \in Chains
    BY RouteType DEF Unmerged
  <2>2. m - 1 = taskDoc[t].nonce[i] /\ n - 1 = taskDoc[t].nonce[i]
    BY <1>1, <1>2, <2>1 DEF IsStep, Planned
  <2>3. m - 1 = n - 1 /\ m \in Int /\ n \in Int
    BY <2>2
  <2>4. QED
    BY <2>3
<1>3. ASSUME NEW m \in 1..Len(mined[Source(t)]), NEW n \in 1..Len(mined[Source(t)]),
             IsClaim(mined[Source(t)][m], t), IsClaim(mined[Source(t)][n], t)
      PROVE  m = n
  <2>1. m - 1 = taskDoc[t].claim_nonce /\ n - 1 = taskDoc[t].claim_nonce
    BY <1>1, <1>3, RouteType DEF IsClaim, Planned
  <2>2. m - 1 = n - 1 /\ m \in Int /\ n \in Int
    BY <2>1
  <2>3. QED
    BY <2>2
<1>4. QED
  BY <1>2, <1>3

-----------------------------------------------------------------------------
\* Unless retry is called, the worker has at most one transaction included per claim
\* and per step, whatever queries overlap, fail or write over each other's documents
\* (init applies the nonces once, execute re-sends with those).
THEOREM SentAtMostOnce == NoRetry => (Spec => []AtMostOnce)
<1> SUFFICES ASSUME NoRetry PROVE Spec => []AtMostOnce
  OBVIOUS
<1>1. Init => OnceInv
  BY InitOnce
<1>2. TypeOK /\ OnceInv /\ [Next]_vars => OnceInv'
  BY NextOnce
<1>3. TypeOK /\ OnceInv => AtMostOnce
  BY OnceIsAtMostOnce
<1>4. QED
  BY <1>1, <1>2, <1>3, TaskTypeCorrect, PTL DEF Spec
=============================================================================
