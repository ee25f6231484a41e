--------------------------- MODULE TaskOrderProofs ---------------------------
(***************************************************************************)
(* What the executor takes for a fact was a fact, for any number of        *)
(* chains, tasks and concurrent queries and with every fault:              *)
(*                                                                         *)
(*  - no step is on a chain before the one it depends on was executed      *)
(*    (InOrder);                                                           *)
(*  - what has_claimed and has_finished accept was claimed and executed    *)
(*    (ClaimedMeansClaimed, FinishedMeansRan);                             *)
(*  - a completed task was executed to its end (CompletedMeansRan);        *)
(*                                                                         *)
(* while nobody calls retry, as long as no transaction of somebody else    *)
(* takes a nonce of the task's plan (OwnNonces).  ApartKeepsNonces gives a *)
(* reason why none does: every task has its chains to itself (Apart).      *)
(* There the nonces also follow each other without a gap (NoNonceGap).     *)
(*                                                                         *)
(* The evidence the executor has is a nonce: the plan gives each one once  *)
(* (NoncesInOrder), so a receipt that has it can only be that of the step  *)
(* it was planned for.                                                     *)
(*                                                                         *)
(* retry plans again and so breaks this argument; the facts stay facts     *)
(* where every task, and every step of it, has its chains to itself (Apart *)
(* and OwnChains), by another one: only the claim ever has the nonce of    *)
(* the claim, and nothing but the step is sent on its chain.               *)
(***************************************************************************)
EXTENDS TaskProofs

USE ChainsAssumption, TaskEngineAssumption

-----------------------------------------------------------------------------
(***************************************************************************)
(* Receipts stay.                                                          *)
(***************************************************************************)

Grown ==
    \A c \in Chains :
        /\ Len(mined[c]) <= Len(mined'[c])
        /\ \A n \in 1..Len(mined[c]) : mined'[c][n] = mined[c][n]

LEMMA MinedLength ==
    ASSUME ChainsTypeOK, NEW c \in Chains
    PROVE  Len(mined[c]) \in Nat /\ \A n \in 1..Len(mined[c]) : mined[c][n] \in Receipt
<1>1. mined[c] \in Seq(Receipt)
  BY DEF ChainsTypeOK
<1>2. QED
  BY <1>1, LenProperties, ElementOfSeq

\* Including a transaction adds its receipt at the end.
LEMMA MineAppends ==
    ASSUME ChainsTypeOK, NEW c \in Chains, NEW tx \in pool[c], Mine(c, tx)
    PROVE  /\ Len(mined'[c]) = Len(mined[c]) + 1
           /\ \A n \in 1..Len(mined[c]) : mined'[c][n] = mined[c][n]
           /\ mined'[c][Len(mined[c]) + 1].tx = tx
           /\ \A d \in Chains : d # c => mined'[d] = mined[d]
           /\ \A d \in Chains : pool'[d] \subseteq pool[d]
<1>1. PICK ok \in BOOLEAN : mined' = [mined EXCEPT ![c] = Append(@, [tx |-> tx, ok |-> ok])]
  BY DEF Mine
<1> DEFINE new == [tx |-> tx, ok |-> ok]
<1>2. mined[c] \in Seq(Receipt) /\ new \in Receipt
  BY DEF ChainsTypeOK, Receipt
<1>3. mined'[c] = Append(mined[c], new) /\ \A d \in Chains : d # c => mined'[d] = mined[d]
  BY <1>1 DEF ChainsTypeOK
<1>4. new.tx = tx
  OBVIOUS
<1>5. \A d \in Chains : pool'[d] \subseteq pool[d]
  BY DEF Mine, ChainsTypeOK
<1> HIDE DEF new
<1>6. QED
  BY <1>2, <1>3, <1>4, <1>5, LenProperties, AppendProperties

LEMMA UnchangedGrown ==
    ASSUME ChainsTypeOK, UNCHANGED mined
    PROVE  Grown
  BY MinedLength DEF Grown

LEMMA NextGrown ==
    ASSUME TypeOK, [Next]_vars
    PROVE  Grown
<1>1. ChainsTypeOK
  BY TypeParts
<1>2. ASSUME NEW c \in Chains, NEW tx \in pool[c], Mine(c, tx)
      PROVE  Grown
  <2>1. \A d \in Chains : Len(mined[d]) \in Nat
    BY <1>1, MinedLength
  <2>2. QED
    BY <1>1, <1>2, <2>1, MineAppends DEF Grown
<1>3. CASE UNCHANGED mined
  BY <1>1, <1>3, UnchangedGrown
<1>4. CASE ChainStep
  BY <1>2, <1>3, <1>4 DEF ChainStep, Evict, Index, Arrive
<1>5. ASSUME NEW s \in Sessions, QueryStep(s)
      PROVE  Grown
  <2>1. CASE SendClaim(s) \/ SendStep(s)
    BY <1>3, <2>1 DEF SendClaim, SendStep, Accepts, Refuses, chainVars
  <2>2. CASE UNCHANGED chainVars
    BY <1>3, <2>2 DEF chainVars
  <2>3. QED
    BY <1>5, <2>1, <2>2
    DEF QueryStep, FetchStep, CopyStep, ExecuteStep, FetchTask, InitTask, ApplyNonce, InsertTask,
        InsertWorker, CheckClaimed, Claim, CheckStep, Settle, CanRun, Run, Destroy, DeleteWorker,
        RpcError, ExecuteTask, ReadTask, SaveTask, Abort, RetryTask, ReapplyNonce, Start
<1>6. CASE OwnerStep \/ UNCHANGED vars
  BY <1>3, <1>6
  DEF OwnerStep, PauseExecutor, ResumeExecutor, WorkerApprove, WorkerDropTask, OwnerSends,
      Accepts, Refuses, chainVars, vars
<1>7. QED
  BY <1>4, <1>5, <1>6, NextParts DEF QueryStep

\* What was executed or claimed stays so.
LEMMA RanStays ==
    ASSUME ChainsTypeOK, Grown, NEW t \in Tasks
    PROVE  /\ \A i \in Steps(t) : Ran(t, i) => Ran(t, i)'
           /\ ClaimedOnChain(t) => ClaimedOnChain(t)'
<1>1. ASSUME NEW c \in Chains, NEW n \in 1..Len(mined[c])
      PROVE  n \in 1..Len(mined'[c]) /\ mined'[c][n] = mined[c][n]
  <2>1. Len(mined[c]) \in Nat /\ Len(mined[c]) <= Len(mined'[c]) /\ mined'[c][n] = mined[c][n]
    BY MinedLength DEF Grown
  <2>2. QED
    BY <2>1
<1>2. ASSUME NEW i \in Steps(t), Ran(t, i)
      PROVE  Ran(t, i)'
  <2> DEFINE c == Src(t, i)
  <2>1. c \in Chains
    BY RouteType
  <2>2. PICK n \in 1..Len(mined[c]) :
            /\ mined[c][n].ok /\ mined[c][n].tx.task = t /\ mined[c][n].tx.step = i
            /\ mined[c][n].tx.kind \in {"claim", "step"}
    BY <1>2 DEF Ran
  <2>3. n \in 1..Len(mined'[c]) /\ mined'[c][n] = mined[c][n]
    BY <1>1, <2>1
  <2>4. QED
    BY <2>2, <2>3 DEF Ran
<1>3. ASSUME ClaimedOnChain(t)
      PROVE  ClaimedOnChain(t)'
  <2> DEFINE c == Source(t)
  <2>1. c \in Chains
    BY RouteType
  <2>2. PICK n \in 1..Len(mined[c]) :
            mined[c][n].ok /\ mined[c][n].tx.task = t /\ mined[c][n].tx.kind = "claim"
    BY <1>3 DEF ClaimedOnChain
  <2>3. n \in 1..Len(mined'[c]) /\ mined'[c][n] = mined[c][n]
    BY <1>1, <2>1
  <2>4. QED
    BY <2>2, <2>3 DEF ClaimedOnChain
<1>4. QED
  BY <1>2, <1>3

LEMMA JustifiedStays ==
    ASSUME ChainsTypeOK, Grown, NEW t \in Tasks, NEW r \in Task(t), Justified(t, r)
    PROVE  /\ \A j \in 1..(r.execute_index - 1) : Ran(t, j)'
           /\ r.status = "Completed" => \A j \in Steps(t) : Ran(t, j)'
<1>1. \A j \in 1..(r.execute_index - 1) : j \in Steps(t)
  BY RouteType DEF Task, Steps
<1>2. QED
  BY <1>1, RanStays DEF Justified

-----------------------------------------------------------------------------
(***************************************************************************)
(* apply_nonce counts up.                                                  *)
(***************************************************************************)

\* The steps of t on the chain of step i that apply_nonce has counted when it comes
\* to i.
Counted(t, i) == {j \in 1..(i - 1) : Src(t, j) = Src(t, i)}

LEMMA CountedGrows ==
    ASSUME NEW t \in Tasks, NEW i \in Steps(t), NEW j \in Steps(t),
           i < j, Src(t, i) = Src(t, j)
    PROVE  /\ Cardinality(Counted(t, i)) \in Nat
           /\ Cardinality(Counted(t, j)) \in Nat
           /\ Cardinality(Counted(t, i)) + 1 <= Cardinality(Counted(t, j))
<1>1. i \in Nat \ {0} /\ j \in Nat \ {0}
  BY RouteType
<1>2. IsFiniteSet(Counted(t, i)) /\ IsFiniteSet(Counted(t, j))
  <2>1. IsFiniteSet(1..(i - 1)) /\ IsFiniteSet(1..(j - 1))
    BY <1>1, FS_Interval
  <2>2. QED
    BY <2>1, FS_Subset DEF Counted
<1>3. i \notin Counted(t, i) /\ Counted(t, i) \cup {i} \subseteq Counted(t, j)
  BY <1>1 DEF Counted
<1>4. /\ IsFiniteSet(Counted(t, i) \cup {i})
      /\ Cardinality(Counted(t, i) \cup {i}) = Cardinality(Counted(t, i)) + 1
  BY <1>2, <1>3, FS_AddElement
<1>5. Cardinality(Counted(t, i) \cup {i}) <= Cardinality(Counted(t, j))
  BY <1>2, <1>3, FS_Subset
<1>6. QED
  BY <1>2, <1>4, <1>5, FS_CardinalityType

\* The nonces of a new task are in order.
LEMMA NewTaskInOrder ==
    ASSUME ChainsTypeOK, NEW t \in Tasks
    PROVE  NoncesInOrder(t, NewTask(t)) /\ Justified(t, NewTask(t))
<1> DEFINE r == NewTask(t)
           merged == IF Source(t) \in Evm THEN 1 ELSE 0
<1>1. /\ r.claim_nonce = OnchainNonce(Source(t))
      /\ \A i \in Steps(t) : r.nonce[i] = OnchainNonce(Src(t, i)) + Cardinality(Counted(t, i))
                                          + (IF Src(t, i) = Source(t) THEN 1 ELSE 0)
      /\ r.execute_index = 1 /\ r.status = "Initialized"
  BY DEF NewTask, NonceOf, Counted
<1>2. \A i \in Steps(t) : OnchainNonce(Src(t, i)) \in Nat
  BY RouteType, OnchainNonceType
<1>3. 1 \in Steps(t) /\ Src(t, 1) = Source(t) /\ \A i \in Steps(t) : i \in Nat \ {0}
  BY RouteType DEF Source
<1>4. Counted(t, 1) = {} /\ Cardinality(Counted(t, 1)) = 0
  BY FS_EmptySet DEF Counted
<1>5. \A i \in Unmerged(t) : i \in Steps(t) /\ (i > 1 \/ merged = 0)
  BY <1>3 DEF Unmerged
<1> HIDE DEF r
<1>6. ASSUME NEW i \in Steps(t), NEW j \in Steps(t), i < j, Src(t, i) = Src(t, j)
      PROVE  r.nonce[i] < r.nonce[j]
  <2>1. /\ Cardinality(Counted(t, i)) \in Nat /\ Cardinality(Counted(t, j)) \in Nat
        /\ Cardinality(Counted(t, i)) + 1 <= Cardinality(Counted(t, j))
    BY <1>6, CountedGrows
  <2>2. QED
    BY <1>1, <1>2, <1>6, <2>1
<1>7. r.nonce[1] = r.claim_nonce + 1 /\ r.claim_nonce \in Nat
  BY <1>1, <1>2, <1>3, <1>4
<1>8. ASSUME NEW i \in Unmerged(t), Src(t, i) = Source(t)
      PROVE  r.nonce[i] > r.claim_nonce + merged
  <2>1. CASE i = 1
    BY <1>5, <1>7, <2>1
  <2>2. CASE i > 1
    <3>1. Cardinality(Counted(t, i)) \in Nat /\ 0 + 1 <= Cardinality(Counted(t, i))
      BY <1>3, <1>4, <1>5, <1>8, <2>2, CountedGrows
    <3>2. r.nonce[i] = r.claim_nonce + Cardinality(Counted(t, i)) + 1
      BY <1>1, <1>5, <1>8
    <3>3. QED
      BY <1>7, <3>1, <3>2
  <2>3. QED
    BY <1>3, <1>5, <2>1, <2>2
<1>9. NoncesInOrder(t, r)
  BY <1>5, <1>6, <1>7, <1>8 DEF NoncesInOrder
<1>10. Justified(t, r)
  BY <1>1 DEF Justified
<1>11. QED
  BY <1>9, <1>10 DEF r

-----------------------------------------------------------------------------
(***************************************************************************)
(* A receipt with a nonce of the plan is that of the step it was planned   *)
(* for.                                                                    *)
(***************************************************************************)

\* What is on a chain at a nonce planned for t: its claim, a step that the claim did
\* not run, or an attempt of the first step next to the claim that ran it.
LEMMA ReceiptOfPlan ==
    ASSUME TypeOK, OnceInv, OrderInv, OwnNonces,
           NEW t \in Tasks, taskDoc[t] # NoDoc, NEW c \in Chains, NEW n \in Nat,
           n \in PlannedOn(t, c), n < Len(mined[c]), NEW tx, tx = mined[c][n + 1].tx
    PROVE  /\ tx.task = t
           /\ \/ /\ tx.kind = "claim" /\ n = taskDoc[t].claim_nonce /\ c = Source(t)
                 /\ tx.step = IF c \in Evm THEN 1 ELSE 0
              \/ /\ tx.kind = "step" /\ tx.step \in Unmerged(t) /\ c = Src(t, tx.step)
                 /\ n = taskDoc[t].nonce[tx.step]
              \/ /\ tx.kind = "step" /\ tx.step = 1 /\ c = Source(t) /\ c \in Evm
                 /\ n = taskDoc[t].claim_nonce + 1
<1>1. ChainsTypeOK
  BY TypeParts
<1>2. n + 1 \in 1..Len(mined[c]) /\ (n + 1) - 1 = n
  BY <1>1, MinedLength
<1>3. tx.task = t /\ tx.kind \in {"claim", "step"}
  BY <1>2 DEF OwnNonces
<1>4. Planned(tx) /\ tx.nonce = n
  BY <1>2 DEF OnceInv, NoncesPlanned
<1>5. InTurn(c, tx)
  BY <1>2 DEF OrderInv, SentInTurn, Sent
<1>6. CASE tx.kind = "claim"
  BY <1>3, <1>4, <1>5, <1>6 DEF Planned, InTurn
<1>7. CASE tx.kind = "step" /\ tx.step \in Unmerged(t)
  BY <1>3, <1>4, <1>5, <1>7 DEF Planned, InTurn
<1>8. CASE tx.kind = "step" /\ tx.step \notin Unmerged(t)
  <2>1. tx.step \in Steps(t) /\ c = Src(t, tx.step) /\ n = taskDoc[t].claim_nonce + 1
    BY <1>3, <1>4, <1>5, <1>8 DEF InTurn
  <2>2. tx.step = 1 /\ Source(t) \in Evm
    <3>1. tx.step \in Nat \ {0}
      BY <2>1, RouteType
    <3>2. ~(tx.step > 1) /\ Source(t) \in Evm
      BY <1>8, <2>1 DEF Unmerged
    <3>3. QED
      BY <3>1, <3>2
  <2>3. QED
    BY <1>3, <1>8, <2>1, <2>2 DEF Source
<1>9. QED
  BY <1>3, <1>6, <1>7, <1>8

\* So what is confirmed at the nonces of a query's copy is the claim, ...
LEMMA ConfirmedClaim ==
    ASSUME TypeOK, OnceInv, OrderInv, OwnNonces,
           NEW s \in Sessions, pc[s] \in Holding, Confirmed(Source(job[s]), rec[s].claim_nonce)
    PROVE  ClaimedOnChain(job[s])
<1> DEFINE t == job[s]
           c == Source(t)
           n == rec[s].claim_nonce
           d == taskDoc[t]
<1>1. t \in Tasks /\ rec[s] \in Task(t) /\ d # NoDoc /\ d \in Task(t) /\ c \in Chains
  BY CopyType, RouteType DEF OnceInv, KnownTasks, TypeOK
<1>2. n = d.claim_nonce /\ n \in Nat
  BY <1>1 DEF OnceInv, NoncesAgree, SameNonces, Task
<1>3. ChainsTypeOK /\ indexed[c] \in Nat /\ indexed[c] <= Len(mined[c])
  BY <1>1, TypeParts DEF ChainsTypeOK, OrderInv
<1>4. n < Len(mined[c]) /\ n + 1 \in 1..Len(mined[c]) /\ mined[c][n + 1].ok
  BY <1>1, <1>2, <1>3, MinedLength DEF Confirmed
<1>5. n \in PlannedOn(t, c)
  BY <1>1, <1>2 DEF PlannedOn
<1>6. NoncesInOrder(t, d) /\ \A i \in Unmerged(t) : d.nonce[i] \in Nat
  BY <1>1 DEF OrderInv, DocsJustified, Task, Unmerged
<1> HIDE DEF t, n, d
<1>7. mined[c][n + 1].tx.task = t /\ mined[c][n + 1].tx.kind = "claim"
  BY <1>1, <1>2, <1>4, <1>5, <1>6, ReceiptOfPlan DEF NoncesInOrder, d
<1>8. QED
  BY <1>4, <1>7 DEF ClaimedOnChain, t

\* ... and the step.
LEMMA ConfirmedStep ==
    ASSUME TypeOK, OnceInv, OrderInv, OwnNonces,
           NEW s \in Sessions, pc[s] \in Holding, NEW i \in Steps(job[s]),
           Confirmed(Src(job[s], i), rec[s].nonce[i])
    PROVE  Ran(job[s], i)
<1> DEFINE t == job[s]
           c == Src(t, i)
           r == rec[s]
           n == r.nonce[i]
           d == taskDoc[t]
           tx == mined[c][n + 1].tx
<1>1. t \in Tasks /\ r \in Task(t) /\ d # NoDoc /\ d \in Task(t) /\ c \in Chains
  BY CopyType, RouteType DEF OnceInv, KnownTasks, TypeOK
<1>2. SameNonces(t, r, d) /\ n \in Nat /\ d.claim_nonce \in Nat
  BY <1>1 DEF OnceInv, NoncesAgree, Task
<1>3. ChainsTypeOK /\ indexed[c] \in Nat /\ indexed[c] <= Len(mined[c])
  BY <1>1, TypeParts DEF ChainsTypeOK, OrderInv
<1>4. n < Len(mined[c]) /\ n + 1 \in 1..Len(mined[c]) /\ mined[c][n + 1].ok
  BY <1>1, <1>2, <1>3, MinedLength DEF Confirmed
<1>5. NoncesInOrder(t, d) /\ NoncesInOrder(t, r) /\ \A j \in Unmerged(t) : d.nonce[j] \in Nat
  BY <1>1 DEF OrderInv, DocsJustified, CopiesJustified, Task, Unmerged
<1>6. i \in Nat /\ \A j \in Unmerged(t) : j \in Steps(t) /\ j \in Nat
  BY <1>1, RouteType DEF Unmerged
<1>7. CASE i \in Unmerged(t)
  <2>1. n = d.nonce[i] /\ n \in PlannedOn(t, c)
    BY <1>2, <1>6, <1>7 DEF SameNonces, PlannedOn
  <2>2. c = Source(t) => n > d.claim_nonce + (IF c \in Evm THEN 1 ELSE 0)
    BY <1>5, <1>7, <2>1 DEF NoncesInOrder
  <2>3. ASSUME NEW j \in Unmerged(t), Src(t, j) = c, n = d.nonce[j]
        PROVE  j = i
    <3>1. ~(d.nonce[i] < d.nonce[j]) /\ ~(d.nonce[j] < d.nonce[i])
      BY <1>2, <2>1, <2>3
    <3>2. ~(i < j) /\ ~(j < i)
      BY <1>5, <1>7, <2>3, <3>1 DEF NoncesInOrder
    <3>3. QED
      BY <1>6, <3>2
  <2> HIDE DEF t, n, d, r, c
  <2>4. tx.task = t /\ tx.kind = "step" /\ tx.step = i
    BY <1>1, <1>2, <1>4, <2>1, <2>2, <2>3, ReceiptOfPlan DEF d
  <2>5. QED
    BY <1>4, <2>4 DEF Ran, c, t
<1>8. CASE i \notin Unmerged(t)
  <2>1. i = 1 /\ c = Source(t) /\ c \in Evm
    BY <1>1, <1>8, RouteType DEF Unmerged, Source
  <2>2. n \in d.claim_nonce..(d.claim_nonce + 1)
    BY <1>2, <1>5, <2>1 DEF NoncesInOrder, SameNonces
  <2>3. n \in PlannedOn(t, c)
    BY <2>1, <2>2 DEF PlannedOn
  <2>4. \A j \in Unmerged(t) : Src(t, j) = c => d.nonce[j] > d.claim_nonce + 1
    BY <1>5, <2>1 DEF NoncesInOrder
  <2> HIDE DEF t, n, d, r, c
  <2>5. tx.task = t /\ tx.kind \in {"claim", "step"} /\ tx.step = 1
    BY <1>1, <1>2, <1>4, <2>1, <2>2, <2>3, <2>4, ReceiptOfPlan DEF d
  <2>6. QED
    BY <1>4, <2>1, <2>5 DEF Ran, c, t
<1>9. QED
  BY <1>7, <1>8

-----------------------------------------------------------------------------
(***************************************************************************)
(* The steps of a query that holds a copy.                                 *)
(***************************************************************************)

\* Copy q may follow copy r without evidence: it has the same nonces, but for the merge
\* of the first step, and does not say that more was executed.
Keeps(t, q, r) ==
    /\ Source(t) \in Evm => q.nonce[1] \in {r.nonce[1], r.claim_nonce}
    /\ q.execute_index = r.execute_index
    /\ q.status \in {r.status, "Executing"}

\* The query goes on, with the evidence that it needs.
Follows(s) ==
    LET t == job[s]
        r == rec[s]
        q == rec'[s]
    IN  /\ Source(t) \in Evm => q.nonce[1] \in {r.nonce[1], r.claim_nonce}
        /\ \/ Keeps(t, q, r)
           \/ /\ pc[s] = "check" /\ Finished(t, r) /\ ~MissingOriginReserve(t, r)
              /\ \/ q.execute_index = r.execute_index + 1 /\ q.status = r.status
                 \/ q.execute_index = r.execute_index /\ IsLast(t, r)
        /\ pc'[s] \in PastClaim =>
              \/ pc[s] \in PastClaim
              \/ pc[s] = "claimed" /\ Confirmed(Source(t), r.claim_nonce)

LEMMA GotoFollows ==
    ASSUME TypeOK, NEW s \in Sessions, pc[s] \in Holding, NEW p, NEW q, Goto(s, p, q),
           Keeps(job[s], q, rec[s]),
           p \in PastClaim => \/ pc[s] \in PastClaim
                              \/ /\ pc[s] = "claimed"
                                 /\ Confirmed(Source(job[s]), rec[s].claim_nonce)
    PROVE  Follows(s)
<1>1. pc'[s] = p /\ rec'[s] = q
  BY CopyType DEF Goto
<1>2. QED
  BY <1>1 DEF Follows, Keeps

LEMMA FailFollows ==
    ASSUME TypeOK, NEW s \in Sessions, pc[s] \in Holding, NEW q, Fail(s, q),
           Keeps(job[s], q, rec[s])
    PROVE  Follows(s) \/ Return(s)
<1>1. "save" \notin PastClaim
  BY DEF PastClaim
<1>2. QED
  BY <1>1, GotoFollows DEF Fail

LEMMA CopyStepFollows ==
    ASSUME TypeOK, NEW s \in Sessions, CopyStep(s)
    PROVE  Follows(s) \/ Return(s)
<1> DEFINE t == job[s]
           r == rec[s]
           i == r.execute_index
<1>1. pc[s] \in Holding /\ t \in Tasks /\ r \in Task(t) /\ Keeps(t, r, r)
  BY CopyStepMoves, CopyType DEF Keeps
<1>2. \A a, b : /\ Keeps(t, [r EXCEPT !.spend[a] = b], r)
                /\ Keeps(t, [r EXCEPT !.origin[a] = b], r)
                /\ Keeps(t, [r EXCEPT !.retry_counter = b], r)
                /\ Keeps(t, [r EXCEPT !.status = "Executing", !.at = b], r)
  BY <1>1 DEF Keeps, Task
<1> HIDE DEF t, r, i
<1>3. CASE CheckClaimed(s)
  BY <1>1, <1>3, GotoFollows, FailFollows DEF CheckClaimed, PastClaim, t, r
<1>4. CASE Claim(s)
  <2> DEFINE spent  == [r EXCEPT !.spend[1] = Amount]
             synced == [spent EXCEPT !.origin[1] = bal[t][1]]
  <2>1. Keeps(t, spent, r)
    BY <1>2
  <2>2. Keeps(t, synced, r)
    BY <1>1 DEF Keeps, Task
  <2> HIDE DEF spent
  <2>3. \/ Goto(s, "sendClaim", r) \/ Goto(s, "sendClaim", synced)
        \/ Fail(s, synced) \/ Fail(s, spent)
    BY <1>4 DEF Claim, spent, t, r
  <2> HIDE DEF synced
  <2>4. QED
    BY <1>1, <2>1, <2>2, <2>3, GotoFollows, FailFollows DEF PastClaim, t, r
<1>5. CASE SendClaim(s)
  <2>1. Keeps(t, Claimed(t, r), r)
    BY <1>1, RouteType DEF Keeps, Claimed, Task
  <2>2. Goto(s, "save", Claimed(t, r)) \/ Fail(s, r)
    BY <1>5 DEF SendClaim, t, r
  <2>3. QED
    BY <1>1, <2>1, <2>2, GotoFollows, FailFollows DEF PastClaim, t, r
<1>6. CASE CheckStep(s)
  <2> DEFINE done == [r EXCEPT !.status = "Completed", !.at = 0]
             next == [r EXCEPT !.execute_index = @ + 1, !.retry_counter = 0]
             again == [r EXCEPT !.retry_counter = @ + 1]
  <2>1. \/ Fail(s, r)
        \/ /\ Finished(t, r) /\ ~MissingOriginReserve(t, r)
           /\ \/ IsLast(t, r) /\ Goto(s, "destroy", done)
              \/ Goto(s, "settle", next)
        \/ Goto(s, "canRun", again)
    BY <1>6 DEF CheckStep, t, r
  <2>2. pc[s] = "check"
    BY <1>6 DEF CheckStep
  <2>3. Keeps(t, again, r)
    BY <1>2
  <2>4. done.execute_index = r.execute_index /\ done.nonce = r.nonce
    BY <1>1 DEF Task
  <2>5. /\ next.execute_index = r.execute_index + 1 /\ next.nonce = r.nonce
        /\ next.status = r.status
    BY <1>1 DEF Task
  <2> HIDE DEF done, next, again
  <2>6. CASE /\ Finished(t, r) /\ ~MissingOriginReserve(t, r)
             /\ IsLast(t, r) /\ Goto(s, "destroy", done)
    <3>1. rec'[s] = done
      BY <1>1, <2>6, CopyType DEF Goto
    <3>2. QED
      BY <2>2, <2>4, <2>6, <3>1 DEF Follows, PastClaim, t, r
  <2>7. CASE /\ Finished(t, r) /\ ~MissingOriginReserve(t, r)
             /\ Goto(s, "settle", next)
    <3>1. rec'[s] = next
      BY <1>1, <2>7, CopyType DEF Goto
    <3>2. QED
      BY <2>2, <2>5, <2>7, <3>1 DEF Follows, PastClaim, t, r
  <2>8. QED
    BY <1>1, <2>1, <2>2, <2>3, <2>6, <2>7, GotoFollows, FailFollows DEF PastClaim, t, r
<1>7. CASE Settle(s)
  <2>1. Fail(s, r) \/ \E n : Goto(s, "canRun", [r EXCEPT !.spend[i] = n])
    BY <1>7 DEF Settle, r, i
  <2>2. pc[s] = "settle"
    BY <1>7 DEF Settle
  <2>3. QED
    BY <1>1, <1>2, <2>1, <2>2, GotoFollows, FailFollows DEF PastClaim, t, r
<1>8. CASE CanRun(s)
  BY <1>1, <1>2, <1>8, GotoFollows DEF CanRun, PastClaim, t, r
<1>9. CASE Run(s)
  <2> DEFINE synced == [r EXCEPT !.origin[i] = bal[t][i]]
  <2>1. Goto(s, "send", synced) \/ Fail(s, synced)
    BY <1>9 DEF Run, t, r, i
  <2>2. Keeps(t, synced, r) /\ pc[s] = "run"
    BY <1>2, <1>9 DEF Run
  <2> HIDE DEF synced
  <2>3. QED
    BY <1>1, <2>1, <2>2, GotoFollows, FailFollows DEF PastClaim, t, r
<1>10. CASE SendStep(s)
  BY <1>1, <1>10, GotoFollows, FailFollows DEF SendStep, PastClaim, t, r
<1>11. CASE Destroy(s) \/ DeleteWorker(s)
  BY <1>1, <1>11, GotoFollows DEF Destroy, DeleteWorker, PastClaim, t, r
<1>12. CASE RpcError(s)
  BY <1>1, <1>12, FailFollows DEF RpcError, t, r
<1>13. QED
  BY <1>3, <1>4, <1>5, <1>6, <1>7, <1>8, <1>9, <1>10, <1>11, <1>12 DEF CopyStep

\* A copy that follows keeps the nonces in order, ...
LEMMA CarriesInOrder ==
    ASSUME NEW t \in Tasks, NEW r \in Task(t), NEW q \in Task(t), SameNonces(t, q, r),
           NoncesInOrder(t, r), Source(t) \in Evm => q.nonce[1] \in {r.nonce[1], r.claim_nonce}
    PROVE  NoncesInOrder(t, q)
<1>1. r.claim_nonce \in Nat /\ q.claim_nonce = r.claim_nonce
  BY DEF Task, SameNonces
<1>2. \A i \in Unmerged(t) : q.nonce[i] = r.nonce[i]
  BY DEF SameNonces
<1>3. QED
  BY <1>1, <1>2 DEF NoncesInOrder

\* ... says nothing that is not so, and is past the claim only when that is included.
LEMMA FollowsJustified ==
    ASSUME TypeOK, OnceInv, OrderInv, OwnNonces, Grown, NEW s \in Sessions,
           pc[s] \in Holding, Follows(s), NEW t, t = job[s], NEW q, q = rec'[s]
    PROVE  /\ \A j \in 1..(q.execute_index - 1) : Ran(t, j)'
           /\ q.status = "Completed" => \A j \in Steps(t) : Ran(t, j)'
           /\ pc'[s] \in PastClaim => ClaimedOnChain(t)'
<1> DEFINE r == rec[s]
           L == Len(Route[t])
<1>0. PICK k : k = r.execute_index
  OBVIOUS
<1>1. ChainsTypeOK /\ t \in Tasks /\ r \in Task(t) /\ L \in Nat /\ k \in 1..L
  BY <1>0, CopyType, TypeParts, RouteType DEF Task, Steps
<1>2. Justified(t, r) /\ (pc[s] \in PastClaim => ClaimedOnChain(t))
  BY DEF OrderInv, CopiesJustified
<1>3. /\ \A j \in 1..(k - 1) : Ran(t, j)'
      /\ r.status = "Completed" => \A j \in Steps(t) : Ran(t, j)'
  BY <1>0, <1>1, <1>2, JustifiedStays
<1>4. pc'[s] \in PastClaim => ClaimedOnChain(t)'
  BY <1>1, <1>2, ConfirmedClaim, RanStays DEF Follows
<1>5. CASE Keeps(t, q, r)
  BY <1>0, <1>3, <1>4, <1>5 DEF Keeps
<1>6. CASE /\ Finished(t, r)
           /\ \/ q.execute_index = k + 1 /\ q.status = r.status
              \/ q.execute_index = k /\ IsLast(t, r)
  <2>1. Ran(t, k)'
    BY <1>0, <1>1, <1>6, ConfirmedStep, RanStays DEF Finished, Steps
  <2>2. \A j \in 1..k : Ran(t, j)'
    BY <1>1, <1>3, <2>1
  <2>3. IsLast(t, r) => \A j \in Steps(t) : Ran(t, j)'
    BY <1>0, <2>2 DEF IsLast, Steps
  <2>4. \A j \in 1..(q.execute_index - 1) : j \in 1..k
    BY <1>1, <1>6
  <2>5. QED
    BY <1>3, <1>4, <1>6, <2>2, <2>3, <2>4
<1>7. QED
  BY <1>0, <1>5, <1>6 DEF Follows

-----------------------------------------------------------------------------
(***************************************************************************)
(* A step of a query keeps the documents and the copies justified.         *)
(***************************************************************************)

\* A record that was justified still is when it is the one of the next state.
LEMMA JustifiedCarried ==
    ASSUME ChainsTypeOK, Grown, NEW t \in Tasks, NEW r \in Task(t),
           NoncesInOrder(t, r), Justified(t, r), NEW u, NEW q, u = t, q = r
    PROVE  /\ NoncesInOrder(u, q)
           /\ \A j \in 1..(q.execute_index - 1) : Ran(u, j)'
           /\ q.status = "Completed" => \A j \in Steps(u) : Ran(u, j)'
  BY JustifiedStays

\* The copy of the query that makes the step.
LEMMA OwnCopyJustified ==
    ASSUME NoRetry, TypeOK, OnceInv, OrderInv, OwnNonces, Grown,
           NEW s \in Sessions, QueryStep(s), NEW u, u = job'[s], NEW q, q = rec'[s]
    PROVE  /\ pc'[s] \in Holding \cup {"insertTask"} =>
                /\ NoncesInOrder(u, q)
                /\ \A j \in 1..(q.execute_index - 1) : Ran(u, j)'
                /\ q.status = "Completed" => \A j \in Steps(u) : Ran(u, j)'
           /\ pc'[s] \in PastClaim => ClaimedOnChain(u)'
<1>1. ChainsTypeOK /\ {"idle", "init", "applyNonce", "insertWorker", "readTask", "insertTask"}
                        \cap (Holding \cup PastClaim) = {}
      /\ "claimed" \notin PastClaim
  BY TypeParts DEF Holding, PastClaim
<1>2. CASE CopyStep(s)
  <2>1. pc[s] \in Holding /\ (Moves(s) \/ Return(s)) /\ (Follows(s) \/ Return(s))
    BY <1>2, CopyStepMoves, CopyStepFollows
  <2>2. CASE Return(s)
    BY <1>1, <2>2, ReturnOthers
  <2>3. CASE Moves(s) /\ Follows(s)
    <3>1. u = job[s] /\ u \in Tasks /\ rec[s] \in Task(u)
      BY <2>1, <2>3, CopyType DEF Moves, Goto
    <3>2. q \in Task(u) /\ SameNonces(u, q, rec[s])
      BY <2>3, <3>1 DEF Moves
    <3>3. NoncesInOrder(u, rec[s])
      BY <2>1, <3>1 DEF OrderInv, CopiesJustified
    <3>4. NoncesInOrder(u, q)
      BY <2>3, <3>1, <3>2, <3>3, CarriesInOrder DEF Follows
    <3>5. QED
      BY <2>1, <2>3, <3>1, <3>4, FollowsJustified
  <2>4. QED
    BY <2>1, <2>2, <2>3
<1>3. CASE ApplyNonce(s)
  <2>1. u = job[s] /\ q = NewTask(u) /\ u \in Tasks /\ pc'[s] = "insertTask"
    BY <1>3, GotoOthers DEF ApplyNonce, TypeOK
  <2>2. NoncesInOrder(u, q)
    BY <1>1, <2>1, NewTaskInOrder
  <2>3. q.execute_index = 1 /\ q.status = "Initialized"
    BY <2>1 DEF NewTask
  <2>4. QED
    BY <1>1, <2>1, <2>2, <2>3
<1>4. CASE ReadTask(s)
  <2>1. CASE taskDoc[job[s]] # NoDoc /\ Goto(s, "claimed", taskDoc[job[s]])
    <3>1. pc'[s] = "claimed" /\ u = job[s] /\ q = taskDoc[u] /\ u \in Tasks /\ q \in Task(u)
      BY <1>4, <2>1, GotoOthers DEF ReadTask, TypeOK
    <3>2. NoncesInOrder(u, q) /\ Justified(u, q)
      BY <2>1, <3>1 DEF OrderInv, DocsJustified
    <3>3. QED
      BY <1>1, <3>1, <3>2, JustifiedCarried
  <2>2. CASE Return(s)
    BY <1>1, <2>2, ReturnOthers
  <2>3. QED
    BY <1>4, <2>1, <2>2 DEF ReadTask
<1>5. CASE pc'[s] \in {"idle", "init", "applyNonce", "insertWorker", "readTask"}
  BY <1>1, <1>5
<1>6. FetchStep(s) /\ ~ApplyNonce(s)
         => pc'[s] \in {"idle", "init", "applyNonce", "insertWorker", "readTask"}
  BY GotoOthers, ReturnOthers, StartOthers
  DEF FetchStep, FetchTask, InitTask, InsertTask, InsertWorker
<1>7. ExecuteTask(s) \/ SaveTask(s) \/ Abort(s)
         => pc'[s] \in {"idle", "init", "applyNonce", "insertWorker", "readTask"}
  BY ReturnOthers, StartOthers DEF ExecuteTask, SaveTask, Abort
<1>8. ~ReapplyNonce(s) /\ \A t \in Tasks : ~RetryTask(s, t)
  BY DEF OnceInv, ReapplyNonce, NoRetry, RetryTask
<1>9. QED
  BY <1>2, <1>3, <1>4, <1>5, <1>6, <1>7, <1>8 DEF QueryStep, ExecuteStep

\* A query's step leaves the other queries as they are.
LEMMA QueryOthers ==
    ASSUME TypeOK, NEW s \in Sessions, QueryStep(s)
    PROVE  Others(s)
<1>1. CASE CopyStep(s)
  BY <1>1, MovesOthers
<1>2. CASE FetchStep(s)
  BY <1>2, GotoOthers, ReturnOthers, StartOthers
  DEF FetchStep, FetchTask, InitTask, ApplyNonce, InsertTask, InsertWorker
<1>3. CASE ExecuteStep(s)
  BY <1>3, GotoOthers, ReturnOthers, StartOthers
  DEF ExecuteStep, ExecuteTask, ReadTask, SaveTask, Abort, RetryTask, ReapplyNonce
<1>4. QED
  BY <1>1, <1>2, <1>3 DEF QueryStep

\* How a query comes by its copy.
LEMMA OwnCopy ==
    ASSUME TypeOK, NEW s \in Sessions, QueryStep(s)
    PROVE  \/ pc'[s] \notin Holding \cup {"insertTask"}
           \/ CopyStep(s) /\ pc[s] \in Holding /\ Moves(s)
           \/ pc'[s] = "insertTask" /\ job'[s] = job[s] /\ rec'[s] = NewTask(job[s])
           \/ /\ pc'[s] \in {"claimed", "reapply"} /\ job'[s] \in Tasks
              /\ taskDoc[job'[s]] # NoDoc /\ rec'[s] = taskDoc[job'[s]]
           \/ /\ pc[s] = "reapply" /\ pc'[s] = "canRun" /\ job'[s] = job[s]
              /\ rec'[s].spend = rec[s].spend /\ rec'[s].origin = rec[s].origin
              /\ rec'[s].status = rec[s].status /\ rec'[s].execute_index = rec[s].execute_index
<1>1. {"idle", "init", "applyNonce", "insertWorker", "readTask"}
        \cap (Holding \cup {"insertTask"}) = {}
  BY DEF Holding
<1>2. CASE CopyStep(s)
  BY <1>1, <1>2, CopyStepMoves, ReturnOthers
<1>3. CASE ApplyNonce(s)
  BY <1>3, GotoOthers DEF ApplyNonce
<1>4. CASE ReadTask(s)
  <2>1. CASE taskDoc[job[s]] # NoDoc /\ Goto(s, "claimed", taskDoc[job[s]])
    BY <1>4, <2>1, GotoOthers DEF ReadTask, TypeOK
  <2>2. CASE Return(s)
    BY <1>1, <2>2, ReturnOthers
  <2>3. QED
    BY <1>4, <2>1, <2>2 DEF ReadTask
<1>5. ASSUME NEW t \in Tasks, RetryTask(s, t)
      PROVE  /\ pc'[s] = "reapply" /\ job'[s] \in Tasks
             /\ taskDoc[job'[s]] # NoDoc /\ rec'[s] = taskDoc[job'[s]]
  BY <1>5, StartOthers DEF RetryTask
<1>6. CASE ReapplyNonce(s)
  <2>1. CASE Return(s)
    BY <1>1, <2>1, ReturnOthers
  <2>2. ASSUME NEW a, NEW b, NEW c,
               Goto(s, "canRun", [rec[s] EXCEPT !.retry_counter = a, !.claim_nonce = b,
                                                !.nonce = c])
        PROVE  /\ pc[s] = "reapply" /\ pc'[s] = "canRun" /\ job'[s] = job[s]
               /\ rec'[s].spend = rec[s].spend /\ rec'[s].origin = rec[s].origin
               /\ rec'[s].status = rec[s].status /\ rec'[s].execute_index = rec[s].execute_index
    <3>1. pc[s] = "reapply" /\ rec[s] \in Task(job[s])
      BY <1>6, CopyType DEF ReapplyNonce, Holding
    <3>2. /\ pc'[s] = "canRun" /\ job'[s] = job[s]
          /\ rec'[s] = [rec[s] EXCEPT !.retry_counter = a, !.claim_nonce = b, !.nonce = c]
      BY <2>2, GotoOthers
    <3>3. QED
      BY <3>1, <3>2 DEF Task
  <2>3. CASE ~Return(s)
    BY <1>6, <2>2, <2>3 DEF ReapplyNonce
  <2>4. QED
    BY <2>1, <2>3
<1>7. FetchStep(s) /\ ~ApplyNonce(s)
         => pc'[s] \in {"idle", "init", "applyNonce", "insertWorker", "readTask"}
  BY GotoOthers, ReturnOthers, StartOthers
  DEF FetchStep, FetchTask, InitTask, InsertTask, InsertWorker
<1>8. ExecuteTask(s) \/ SaveTask(s) \/ Abort(s)
         => pc'[s] \in {"idle", "init", "applyNonce", "insertWorker", "readTask"}
  BY ReturnOthers, StartOthers DEF ExecuteTask, SaveTask, Abort
<1>9. CASE pc'[s] \in {"idle", "init", "applyNonce", "insertWorker", "readTask"}
  BY <1>1, <1>9
<1>10. QED
  BY <1>2, <1>3, <1>4, <1>5, <1>6, <1>7, <1>8, <1>9 DEF QueryStep, ExecuteStep

\* What a query does to the documents: it writes its copy, or nothing.
LEMMA QueryDocs ==
    ASSUME TypeOK, NEW s \in Sessions, QueryStep(s)
    PROVE  \/ UNCHANGED taskDoc
           \/ /\ pc[s] \in {"insertTask", "save"} /\ job[s] \in Tasks
              /\ taskDoc' = [taskDoc EXCEPT ![job[s]] = rec[s]]
              /\ taskDoc'[job[s]] = rec[s]
              /\ \A t \in Tasks \ {job[s]} : taskDoc'[t] = taskDoc[t]
              /\ UNCHANGED chainVars
<1>1. \/ UNCHANGED taskDoc
      \/ /\ pc[s] \in {"insertTask", "save"}
         /\ taskDoc' = [taskDoc EXCEPT ![job[s]] = rec[s]]
         /\ UNCHANGED chainVars
  BY DEF QueryStep, FetchStep, CopyStep, ExecuteStep, FetchTask, InitTask, ApplyNonce, InsertTask,
      InsertWorker, CheckClaimed, Claim, SendClaim, CheckStep, Settle, CanRun, Run, SendStep,
      Destroy, DeleteWorker, RpcError, ExecuteTask, ReadTask, SaveTask, Abort, RetryTask,
      ReapplyNonce, Start, storageVars
<1>2. QED
  BY <1>1 DEF TypeOK

LEMMA QueryCopiesJustified ==
    ASSUME NoRetry, TypeOK, OnceInv, OrderInv, OwnNonces, Grown, NEW s \in Sessions, QueryStep(s)
    PROVE  CopiesJustified'
<1>1. Others(s) /\ ChainsTypeOK
  BY QueryOthers, TypeParts
<1>2. ASSUME NEW v \in Sessions, NEW u, u = job'[v], NEW q, q = rec'[v]
      PROVE  /\ pc'[v] \in Holding \cup {"insertTask"} =>
                  /\ NoncesInOrder(u, q)
                  /\ \A j \in 1..(q.execute_index - 1) : Ran(u, j)'
                  /\ q.status = "Completed" => \A j \in Steps(u) : Ran(u, j)'
             /\ pc'[v] \in PastClaim => ClaimedOnChain(u)'
  <2>1. CASE v = s
    BY <1>2, <2>1, OwnCopyJustified
  <2>2. CASE v # s /\ pc[v] \in Holding \cup {"insertTask"}
    <3>1. pc'[v] = pc[v] /\ u = job[v] /\ q = rec[v]
      BY <1>1, <1>2, <2>2 DEF Others
    <3>2. u \in Tasks /\ q \in Task(u)
      BY <2>2, <3>1 DEF TypeOK, Holding
    <3>3. /\ NoncesInOrder(u, q) /\ Justified(u, q)
          /\ pc'[v] \in PastClaim => ClaimedOnChain(u)
      BY <2>2, <3>1 DEF OrderInv, CopiesJustified
    <3>4. QED
      BY <1>1, <3>2, <3>3, JustifiedCarried, RanStays
  <2>3. CASE v # s /\ pc[v] \notin Holding \cup {"insertTask"}
    BY <1>1, <2>3 DEF Others, Holding, PastClaim
  <2>4. QED
    BY <2>1, <2>2, <2>3
<1>3. QED
  BY <1>2 DEF CopiesJustified, Justified

LEMMA QueryDocsJustified ==
    ASSUME NoRetry, TypeOK, OnceInv, OrderInv, Grown, NEW s \in Sessions, QueryStep(s)
    PROVE  DocsJustified'
<1>1. ChainsTypeOK
  BY TypeParts
<1>2. ASSUME NEW t \in Tasks, NEW q, q = taskDoc'[t], q # NoDoc
      PROVE  /\ NoncesInOrder(t, q)
             /\ \A j \in 1..(q.execute_index - 1) : Ran(t, j)'
             /\ q.status = "Completed" => \A j \in Steps(t) : Ran(t, j)'
  <2>1. CASE q = taskDoc[t]
    <3>1. q \in Task(t) /\ NoncesInOrder(t, q) /\ Justified(t, q)
      BY <1>2, <2>1 DEF TypeOK, OrderInv, DocsJustified
    <3>2. QED
      BY <1>1, <3>1, JustifiedCarried
  <2>2. CASE /\ pc[s] \in {"insertTask", "save"}
             /\ taskDoc' = [taskDoc EXCEPT ![job[s]] = rec[s]]
    <3>1. /\ job[s] \in Tasks /\ rec[s] \in Task(job[s])
          /\ NoncesInOrder(job[s], rec[s]) /\ Justified(job[s], rec[s])
      BY <2>2 DEF TypeOK, Holding, OrderInv, CopiesJustified
    <3>2. q = taskDoc[t] \/ (t = job[s] /\ q = rec[s])
      BY <1>2, <2>2, <3>1 DEF TypeOK
    <3>3. QED
      BY <1>1, <2>1, <3>1, <3>2, JustifiedCarried
  <2>3. CASE UNCHANGED taskDoc
    BY <1>2, <2>1, <2>3
  <2>4. QED
    BY <2>2, <2>3
    DEF QueryStep, FetchStep, CopyStep, ExecuteStep, FetchTask, InitTask, ApplyNonce,
        InsertTask, InsertWorker, CheckClaimed, Claim, SendClaim, CheckStep, Settle, CanRun, Run,
        SendStep, Destroy, DeleteWorker, RpcError, ExecuteTask, ReadTask, SaveTask, Abort,
        RetryTask, ReapplyNonce, Start, storageVars
<1>3. QED
  BY <1>2 DEF DocsJustified, Justified

-----------------------------------------------------------------------------
(***************************************************************************)
(* What is sent is in turn, and stays so.                                  *)
(***************************************************************************)

\* A transaction in turn stays so while no document gets other nonces.
LEMMA InTurnKept ==
    ASSUME ChainsTypeOK, Grown, PlanKept, NEW c \in Chains, NEW tx, Planned(tx), InTurn(c, tx)
    PROVE  InTurn(c, tx)'
<1>1. CASE tx.kind = "claim"
  BY <1>1 DEF InTurn
<1>2. CASE tx.kind = "step"
  <2>1. /\ tx.task \in Tasks /\ taskDoc[tx.task] # NoDoc
        /\ taskDoc'[tx.task].claim_nonce = taskDoc[tx.task].claim_nonce
    BY <1>2 DEF Planned, PlanKept, SameNonces
  <2>2. tx.step \in Steps(tx.task) /\ tx.step \in Nat \ {0}
    BY <1>2, <2>1, RouteType DEF InTurn
  <2>3. tx.step # 1 => tx.step - 1 \in Steps(tx.task)
    BY <2>1, <2>2, RouteType DEF Steps
  <2>4. IF tx.step = 1 THEN ClaimedOnChain(tx.task)' ELSE Ran(tx.task, tx.step - 1)'
    BY <1>2, <2>1, <2>3, RanStays DEF InTurn
  <2>5. QED
    BY <1>2, <2>1, <2>4 DEF InTurn
<1>3. QED
  BY <1>1, <1>2 DEF InTurn

\* So nothing needs to be looked at but what is new on a chain.
LEMMA NewInTurn ==
    ASSUME ChainsTypeOK, NoncesPlanned, SentInTurn, Grown, PlanKept,
           \A c \in Chains : \A tx \in Sent(c)' : tx \in Sent(c) \/ InTurn(c, tx)'
    PROVE  SentInTurn'
<1>1. ASSUME NEW c \in Chains, NEW tx \in Sent(c)
      PROVE  InTurn(c, tx)'
  <2>1. Planned(tx) /\ InTurn(c, tx)
    BY <1>1 DEF NoncesPlanned, SentInTurn, Sent
  <2>2. QED
    BY <2>1, InTurnKept
<1>2. QED
  BY <1>1 DEF SentInTurn

LEMMA SameMinedSent ==
    ASSUME NEW c \in Chains, NEW T, mined' = mined, pool'[c] \subseteq pool[c] \cup T
    PROVE  Sent(c)' \subseteq Sent(c) \cup T
  BY DEF Sent

\* A chain only includes what is in its pool.
LEMMA ChainStepSent ==
    ASSUME ChainsTypeOK, ChainStep, NEW c \in Chains
    PROVE  Sent(c)' \subseteq Sent(c)
<1>1. ASSUME NEW d \in Chains, NEW tx \in pool[d], Mine(d, tx)
      PROVE  Sent(c)' \subseteq Sent(c)
  <2>1. pool'[c] \subseteq pool[c]
    BY <1>1, MineAppends
  <2>2. ASSUME NEW n \in 1..Len(mined'[c])
        PROVE  mined'[c][n].tx \in Sent(c)
    <3>1. CASE c # d
      <4>1. mined'[c] = mined[c]
        BY <1>1, <3>1, MineAppends
      <4>2. QED
        BY <2>2, <4>1 DEF Sent
    <3>2. CASE c = d
      <4>1. /\ Len(mined[c]) \in Nat
            /\ Len(mined'[c]) = Len(mined[c]) + 1
            /\ \A m \in 1..Len(mined[c]) : mined'[c][m] = mined[c][m]
            /\ mined'[c][Len(mined[c]) + 1].tx = tx
        BY <1>1, <3>2, MineAppends, MinedLength
      <4>2. n \in 1..Len(mined[c]) \/ n = Len(mined[c]) + 1
        BY <4>1
      <4>3. QED
        BY <1>1, <3>2, <4>1, <4>2 DEF Sent
    <3>3. QED
      BY <3>1, <3>2
  <2>3. QED
    BY <2>1, <2>2 DEF Sent
<1>2. CASE mined' = mined /\ pool'[c] \subseteq pool[c]
  BY <1>2, SameMinedSent
<1>3. ASSUME NEW d \in Chains, NEW tx \in pool[d], Evict(d, tx)
      PROVE  mined' = mined /\ pool'[c] \subseteq pool[c]
  BY <1>3 DEF Evict, ChainsTypeOK
<1>4. QED
  BY <1>1, <1>2, <1>3 DEF ChainStep, Index, Arrive

\* A node has one more transaction after a submission, or none.
LEMMA AcceptsSent ==
    ASSUME ChainsTypeOK, NEW c \in Chains, NEW tx,
           Accepts(c, tx) \/ Refuses(c, tx) \/ UNCHANGED chainVars, NEW d \in Chains
    PROVE  /\ mined' = mined
           /\ Sent(d)' \subseteq Sent(d) \/ (d = c /\ Accepts(c, tx) /\ Sent(c)' \subseteq Sent(c) \cup {tx})
<1>1. CASE Accepts(c, tx)
  <2>1. mined' = mined /\ (d # c => pool'[d] \subseteq pool[d]) /\ pool'[c] \subseteq pool[c] \cup {tx}
    BY <1>1 DEF Accepts, ChainsTypeOK
  <2>2. QED
    BY <1>1, <2>1 DEF Sent
<1>2. CASE UNCHANGED chainVars
  BY <1>2 DEF chainVars, Sent
<1>3. QED
  BY <1>1, <1>2 DEF Refuses

\* A claimed task's claim nonce is used up.
LEMMA ClaimNonceUsed ==
    ASSUME TypeOK, OnceInv, NEW t \in Tasks, ClaimedOnChain(t)
    PROVE  taskDoc[t] # NoDoc /\ taskDoc[t].claim_nonce < Len(mined[Source(t)])
<1> DEFINE c == Source(t)
<1>1. ChainsTypeOK /\ c \in Chains /\ Len(mined[c]) \in Nat
  BY TypeParts, RouteType, MinedLength
<1>2. PICK n \in 1..Len(mined[c]) : mined[c][n].tx.task = t /\ mined[c][n].tx.kind = "claim"
  BY DEF ClaimedOnChain
<1>3. Planned(mined[c][n].tx) /\ mined[c][n].tx.nonce = n - 1
  BY <1>1 DEF OnceInv, NoncesPlanned
<1>4. taskDoc[t] # NoDoc /\ taskDoc[t].claim_nonce = n - 1
  BY <1>2, <1>3 DEF Planned
<1>5. QED
  BY <1>1, <1>4

LEMMA SendStepInTurn ==
    ASSUME TypeOK, OnceInv, OrderInv, Grown, NEW s \in Sessions, SendStep(s),
           NEW t, t = job[s], NEW r, r = rec[s], NEW tx, tx = StepTx(t, r),
           NEW c, c = Src(t, r.execute_index), Accepts(c, tx)
    PROVE  c \in Chains /\ InTurn(c, tx)'
<1>1. PICK i : i = r.execute_index
  OBVIOUS
<1>2. pc[s] = "send" /\ UNCHANGED storageVars
  BY DEF SendStep
<1>3. /\ t \in Tasks /\ r \in Task(t) /\ i \in Steps(t) /\ i \in Nat \ {0}
      /\ Source(t) \in Chains /\ c \in Chains
  BY <1>1, <1>2, CopyType, RouteType DEF Holding, Task
<1>4. tx.kind = "step" /\ tx.task = t /\ tx.step = i /\ tx.nonce = r.nonce[i]
  BY <1>1 DEF StepTx
<1>5. NoncesInOrder(t, r) /\ Justified(t, r) /\ ClaimedOnChain(t)
  BY <1>2 DEF OrderInv, CopiesJustified, Holding, PastClaim
<1>6. ChainsTypeOK /\ Len(mined[Source(t)]) \in Nat
  BY <1>3, TypeParts, MinedLength
<1>7. ClaimedOnChain(t)' /\ (i # 1 => Ran(t, i - 1)')
  <2>1. i # 1 => i - 1 \in 1..(i - 1) /\ i - 1 \in Steps(t)
    BY <1>3, RouteType DEF Steps
  <2>2. QED
    BY <1>1, <1>3, <1>5, <1>6, <2>1, RanStays DEF Justified
<1>8. ASSUME i \notin Unmerged(t)
      PROVE  r.nonce[i] = taskDoc[t].claim_nonce + 1
  <2>1. i = 1 /\ Source(t) \in Evm /\ c = Source(t)
    BY <1>1, <1>3, <1>8 DEF Unmerged, Source
  <2>2. r.nonce[1] \in r.claim_nonce..(r.claim_nonce + 1)
    BY <1>5, <2>1 DEF NoncesInOrder
  <2>3. r.claim_nonce = taskDoc[t].claim_nonce /\ r.claim_nonce \in Nat
    BY <1>2, <1>3 DEF OnceInv, NoncesAgree, SameNonces, Holding, Task
  <2>4. taskDoc[t].claim_nonce < Len(mined[Source(t)])
    BY <1>3, <1>5, ClaimNonceUsed
  <2>5. r.nonce[i] >= Len(mined[Source(t)])
    BY <1>4, <2>1 DEF Accepts
  <2>6. QED
    BY <1>6, <2>1, <2>2, <2>3, <2>4, <2>5
<1>9. InTurn(c, tx)'
  BY <1>1, <1>2, <1>3, <1>4, <1>7, <1>8 DEF InTurn, storageVars
<1>10. QED
  BY <1>3, <1>9

\* A query only sends what is in turn.
LEMMA QueryInTurn ==
    ASSUME NoRetry, TypeOK, OnceInv, OrderInv, Grown, NEW s \in Sessions, QueryStep(s)
    PROVE  SentInTurn'
<1>1. ChainsTypeOK /\ NoncesPlanned /\ SentInTurn /\ PlanKept
  BY TypeParts, QueryPlanKept DEF OnceInv, OrderInv
<1>2. CASE SendClaim(s)
  <2>1. PICK t : t = job[s]
    OBVIOUS
  <2>2. PICK tx : tx = ClaimTx(t, rec[s])
    OBVIOUS
  <2>3. t \in Tasks /\ Source(t) \in Chains
    BY <1>2, <2>1, CopyType, RouteType DEF SendClaim, Holding
  <2>4. InTurn(Source(t), tx)'
    BY <2>2 DEF InTurn, ClaimTx
  <2>5. Accepts(Source(t), tx) \/ Refuses(Source(t), tx)
    BY <1>2, <2>1, <2>2 DEF SendClaim
  <2>6. QED
    BY <1>1, <2>3, <2>4, <2>5, AcceptsSent, NewInTurn
<1>3. CASE SendStep(s)
  <2>1. PICK t, r : t = job[s] /\ r = rec[s]
    OBVIOUS
  <2>2. PICK tx, c : tx = StepTx(t, r) /\ c = Src(t, r.execute_index)
    OBVIOUS
  <2>3. Accepts(c, tx) \/ Refuses(c, tx)
    BY <1>3, <2>1, <2>2 DEF SendStep
  <2>4. CASE Accepts(c, tx)
    <3>1. c \in Chains /\ InTurn(c, tx)'
      BY <1>3, <2>1, <2>2, <2>4, SendStepInTurn
    <3>2. QED
      BY <1>1, <2>3, <3>1, AcceptsSent, NewInTurn
  <2>5. CASE Refuses(c, tx)
    <3>1. mined' = mined /\ pool' = pool
      BY <2>5 DEF Refuses, chainVars
    <3>2. QED
      BY <1>1, <3>1, NewInTurn DEF Sent
  <2>6. QED
    BY <2>3, <2>4, <2>5
<1>4. CASE UNCHANGED chainVars
  BY <1>1, <1>4, NewInTurn DEF chainVars, Sent
<1>5. QED
  BY <1>2, <1>3, <1>4
  DEF QueryStep, FetchStep, CopyStep, ExecuteStep, FetchTask, InitTask, ApplyNonce, InsertTask,
      InsertWorker, CheckClaimed, Claim, CheckStep, Settle, CanRun, Run, Destroy, DeleteWorker,
      RpcError, ExecuteTask, ReadTask, SaveTask, Abort, RetryTask, ReapplyNonce, Start

LEMMA OwnerInTurn ==
    ASSUME TypeOK, OnceInv, OrderInv, Grown, OwnerStep
    PROVE  SentInTurn'
<1>1. ChainsTypeOK /\ NoncesPlanned /\ SentInTurn
  BY TypeParts DEF OnceInv, OrderInv
<1>2. PlanKept
  BY UnchangedPlanKept DEF OwnerStep, PauseExecutor, ResumeExecutor, WorkerApprove,
                           WorkerDropTask, OwnerSends, storageVars
<1>3. ASSUME NEW c \in Chains, NEW kind \in {"approve", "drop"}, NEW t, OwnerSends(c, kind, t)
      PROVE  SentInTurn'
  <2>1. PICK tx : tx = [kind |-> kind, task |-> t, step |-> 0, spend |-> 0,
                        nonce |-> Len(mined[c])]
    OBVIOUS
  <2>2. InTurn(c, tx)' /\ (Accepts(c, tx) \/ Refuses(c, tx))
    BY <1>3, <2>1 DEF InTurn, OwnerSends
  <2>3. QED
    BY <1>1, <1>2, <2>2, AcceptsSent, NewInTurn
<1>4. ASSUME NEW t \in Tasks, WorkerDropTask(t)
      PROVE  SentInTurn'
  BY <1>3, <1>4, RouteType DEF WorkerDropTask
<1>5. CASE PauseExecutor \/ ResumeExecutor
  BY <1>1, <1>2, <1>5, NewInTurn DEF PauseExecutor, ResumeExecutor, chainVars, Sent
<1>6. QED
  BY <1>3, <1>4, <1>5 DEF OwnerStep, WorkerApprove

-----------------------------------------------------------------------------
(***************************************************************************)
(* The theorems.                                                           *)
(***************************************************************************)

LEMMA InitOrder == Init => OrderInv
<1> SUFFICES ASSUME Init PROVE OrderInv
  OBVIOUS
<1>1. \A c \in Chains : mined[c] = <<>> /\ pool[c] = {} /\ indexed[c] = 0
  BY DEF Init, ChainsInit
<1>2. \A c \in Chains : Len(mined[c]) = 0
  BY <1>1
<1>3. SentInTurn
  BY <1>1, <1>2 DEF SentInTurn, Sent
<1>4. QED
  BY <1>1, <1>2, <1>3
  DEF Init, OrderInv, DocsJustified, CopiesJustified, Holding, PastClaim

\* The indexer does not see what is not included.
LEMMA IndexedIncluded ==
    ASSUME TypeOK, [Next]_vars, \A c \in Chains : indexed[c] <= Len(mined[c])
    PROVE  \A c \in Chains : indexed'[c] <= Len(mined'[c])
<1>1. ChainsTypeOK /\ Grown
  BY TypeParts, NextGrown
<1>2. ChainsTypeOK'
  BY NextType, TypeParts
<1>3. ASSUME NEW c \in Chains
      PROVE  indexed[c] \in Nat /\ Len(mined[c]) \in Nat /\ Len(mined'[c]) \in Nat
             /\ Len(mined[c]) <= Len(mined'[c])
  BY <1>1, <1>2, MinedLength DEF ChainsTypeOK, Grown
<1>4. CASE UNCHANGED indexed
  BY <1>3, <1>4
<1>5. ASSUME NEW d \in Chains, Index(d)
      PROVE  \A c \in Chains : indexed'[c] <= Len(mined'[c])
  BY <1>1, <1>3, <1>5 DEF Index, ChainsTypeOK
<1>6. CASE ChainStep
  BY <1>4, <1>5, <1>6 DEF ChainStep, Mine, Evict, Arrive
<1>7. CASE OwnerStep \/ UNCHANGED vars
  BY <1>4, <1>7
  DEF OwnerStep, PauseExecutor, ResumeExecutor, WorkerApprove, WorkerDropTask, OwnerSends,
      Accepts, Refuses, chainVars, vars
<1>8. ASSUME NEW s \in Sessions, QueryStep(s)
      PROVE  UNCHANGED indexed
  <2>1. CASE SendClaim(s) \/ SendStep(s)
    BY <2>1 DEF SendClaim, SendStep, Accepts, Refuses, chainVars
  <2>2. CASE UNCHANGED chainVars
    BY <2>2 DEF chainVars
  <2>3. QED
    BY <1>8, <2>1, <2>2
    DEF QueryStep, FetchStep, CopyStep, ExecuteStep, FetchTask, InitTask, ApplyNonce, InsertTask,
        InsertWorker, CheckClaimed, Claim, CheckStep, Settle, CanRun, Run, Destroy, DeleteWorker,
        RpcError, ExecuteTask, ReadTask, SaveTask, Abort, RetryTask, ReapplyNonce, Start
<1>9. QED
  BY <1>4, <1>6, <1>7, <1>8, NextParts DEF QueryStep

LEMMA NextOrder ==
    NoRetry /\ TypeOK /\ OnceInv /\ OrderInv /\ OwnNonces /\ [Next]_vars => OrderInv'
<1> SUFFICES ASSUME NoRetry, TypeOK, OnceInv, OrderInv, OwnNonces, [Next]_vars PROVE OrderInv'
  OBVIOUS
<1>1. Grown /\ ChainsTypeOK /\ NoncesPlanned /\ SentInTurn
  BY NextGrown, TypeParts DEF OnceInv, OrderInv
<1>2. \A c \in Chains : indexed'[c] <= Len(mined'[c])
  BY IndexedIncluded DEF OrderInv
<1>3. CASE \E s \in Sessions : QueryStep(s)
  BY <1>1, <1>2, <1>3, QueryCopiesJustified, QueryDocsJustified, QueryInTurn DEF OrderInv
<1>4. CASE ChainStep \/ OwnerStep \/ UNCHANGED vars
  <2>1. UNCHANGED <<storageVars, sessionVars>>
    BY <1>4 DEF ChainStep, OwnerStep, PauseExecutor, ResumeExecutor, WorkerApprove,
                WorkerDropTask, OwnerSends, vars
  <2>2. ASSUME NEW s \in Sessions, NEW t, t = job'[s], NEW r, r = rec'[s]
        PROVE  /\ pc'[s] \in Holding \cup {"insertTask"} =>
                    /\ NoncesInOrder(t, r)
                    /\ \A j \in 1..(r.execute_index - 1) : Ran(t, j)'
                    /\ r.status = "Completed" => \A j \in Steps(t) : Ran(t, j)'
               /\ pc'[s] \in PastClaim => ClaimedOnChain(t)'
    <3>1. pc'[s] = pc[s] /\ t = job[s] /\ r = rec[s]
      BY <2>1, <2>2 DEF sessionVars
    <3>2. CASE pc[s] \in Holding \cup {"insertTask"}
      <4>1. t \in Tasks /\ r \in Task(t)
        BY <3>1, <3>2 DEF TypeOK, Holding
      <4>2. /\ NoncesInOrder(t, r) /\ Justified(t, r)
            /\ pc[s] \in PastClaim => ClaimedOnChain(t)
        BY <3>1, <3>2 DEF OrderInv, CopiesJustified
      <4>3. QED
        BY <1>1, <3>1, <4>1, <4>2, JustifiedCarried, RanStays
    <3>3. CASE pc[s] \notin Holding \cup {"insertTask"}
      BY <3>1, <3>3 DEF Holding, PastClaim
    <3>4. QED
      BY <3>2, <3>3
  <2>3. CopiesJustified'
    BY <2>2 DEF CopiesJustified, Justified
  <2>4. ASSUME NEW t \in Tasks, NEW r, r = taskDoc'[t], r # NoDoc
        PROVE  /\ NoncesInOrder(t, r)
               /\ \A j \in 1..(r.execute_index - 1) : Ran(t, j)'
               /\ r.status = "Completed" => \A j \in Steps(t) : Ran(t, j)'
    <3>1. r = taskDoc[t] /\ r \in Task(t) /\ NoncesInOrder(t, r) /\ Justified(t, r)
      BY <2>1, <2>4 DEF storageVars, TypeOK, OrderInv, DocsJustified
    <3>2. QED
      BY <1>1, <3>1, JustifiedCarried
  <2>5. DocsJustified'
    BY <2>4 DEF DocsJustified, Justified
  <2>6. SentInTurn'
    <3>1. PlanKept
      BY <2>1, UnchangedPlanKept DEF storageVars
    <3>2. CASE ChainStep
      BY <1>1, <3>1, <3>2, ChainStepSent, NewInTurn
    <3>3. CASE UNCHANGED vars
      BY <1>1, <3>1, <3>3, NewInTurn DEF vars, chainVars, Sent
    <3>4. QED
      BY <1>1, <1>4, <3>2, <3>3, OwnerInTurn
  <2>7. QED
    BY <1>2, <2>3, <2>5, <2>6 DEF OrderInv
<1>5. QED
  BY <1>3, <1>4, NextParts DEF QueryStep

\* Unless retry is called, and as long as no included transaction of governance or of
\* another task has a nonce of its plan: no step of a task is on a chain before the step
\* it depends on was executed successfully, the first not before the claim (has_claimed
\* and has_finished accept nothing else as evidence), however queries overlap and fail.
THEOREM StepsInOrder == NoRetry => (Spec /\ []OwnNonces => []InOrder)
<1> SUFFICES ASSUME NoRetry PROVE Spec /\ []OwnNonces => []InOrder
  OBVIOUS
<1>1. Init => OnceInv /\ OrderInv
  BY InitOnce, InitOrder
<1>2. TypeOK /\ OnceInv /\ OrderInv /\ OwnNonces /\ [Next]_vars => OnceInv' /\ OrderInv'
  BY NextOnce, NextOrder
<1>3. OrderInv => InOrder
  <2> SUFFICES ASSUME OrderInv, NEW t \in Tasks, NEW i \in Steps(t),
                      NEW n \in 1..Len(mined[Src(t, i)]), IsStep(mined[Src(t, i)][n], t, i)
               PROVE  IF i = 1 THEN ClaimedOnChain(t) ELSE Ran(t, i - 1)
    BY DEF InOrder
  <2>1. InTurn(Src(t, i), mined[Src(t, i)][n].tx)
    BY RouteType DEF OrderInv, SentInTurn, Sent
  <2>2. QED
    BY <2>1 DEF InTurn, IsStep
<1>4. QED
  BY <1>1, <1>2, <1>3, TaskTypeCorrect, PTL DEF Spec

\* Under the same conditions a task that is declared Completed was executed to its last
\* step, whichever copy the declaration was saved from (task.rs:38).
THEOREM CompletedWasExecuted == NoRetry => (Spec /\ []OwnNonces => []CompletedMeansRan)
<1> SUFFICES ASSUME NoRetry PROVE Spec /\ []OwnNonces => []CompletedMeansRan
  OBVIOUS
<1>1. Init => OnceInv /\ OrderInv
  BY InitOnce, InitOrder
<1>2. TypeOK /\ OnceInv /\ OrderInv /\ OwnNonces /\ [Next]_vars => OnceInv' /\ OrderInv'
  BY NextOnce, NextOrder
<1>3. OrderInv => CompletedMeansRan
  BY DEF OrderInv, DocsJustified, Justified, CompletedMeansRan
<1>4. QED
  BY <1>1, <1>2, <1>3, TaskTypeCorrect, PTL DEF Spec

\* The step of Next that takes a query past "claimed" or "check".
LEMMA CheckingStep ==
    ASSUME TypeOK, [Next]_vars, NEW s \in Sessions,
           pc[s] \in {"claimed", "check"}, pc'[s] # pc[s]
    PROVE  \/ Return(s) /\ Abort(s)
           \/ CopyStep(s)
<1>1. QueryStep(s)
  <2>1. PICK u \in Sessions : QueryStep(u)
    <3>1. ~(ChainStep \/ OwnerStep \/ UNCHANGED vars)
      BY DEF ChainStep, OwnerStep, PauseExecutor, ResumeExecutor, WorkerApprove,
             WorkerDropTask, OwnerSends, vars, sessionVars
    <3>2. QED
      BY <3>1, NextParts DEF QueryStep
  <2>2. u = s
    BY <2>1, QueryOthers DEF Others
  <2>3. QED
    BY <2>1, <2>2
<1>2. QED
  BY <1>1 DEF QueryStep, FetchStep, ExecuteStep, FetchTask, InitTask, ApplyNonce, InsertTask,
              InsertWorker, ExecuteTask, ReadTask, SaveTask, Abort, RetryTask, ReapplyNonce, Start

\* Only has_finished takes a query from "check" to the next step or to the end.
LEMMA FinishingStep ==
    ASSUME TypeOK, [Next]_vars, NEW s \in Sessions,
           pc[s] = "check", pc'[s] \in {"settle", "destroy"}
    PROVE  Finished(job[s], rec[s])
<1>1. CopyStep(s)
  BY CheckingStep, ReturnOthers
<1>2. CheckStep(s) \/ RpcError(s)
  BY <1>1 DEF CopyStep, CheckClaimed, Claim, SendClaim, Settle, CanRun, Run, SendStep,
              Destroy, DeleteWorker
<1>3. \A q : Fail(s, q) => pc'[s] \in {"idle", "save"}
  BY GotoOthers, ReturnOthers DEF Fail
<1>4. CheckStep(s) /\ \A q : ~Fail(s, q)
  BY <1>2, <1>3 DEF RpcError
<1>5. \A q : ~Goto(s, "canRun", q)
  BY GotoOthers
<1>6. QED
  BY <1>4, <1>5 DEF CheckStep

\* Only has_claimed takes one from "claimed" to "check".
LEMMA ClaimingStep ==
    ASSUME TypeOK, [Next]_vars, NEW s \in Sessions, pc[s] = "claimed", pc'[s] = "check"
    PROVE  Confirmed(Source(job[s]), rec[s].claim_nonce) /\ pc[s] \in Holding
<1>1. CopyStep(s)
  BY CheckingStep, ReturnOthers
<1>2. Follows(s)
  BY <1>1, CopyStepFollows, ReturnOthers
<1>3. QED
  BY <1>2 DEF Follows, PastClaim, Holding

\* Under the same conditions has_finished only accepts a step that was executed
\* successfully ("Only when the transaction was successfully executed, it can return
\* `true`", traits.rs:24).
THEOREM FinishedWasExecuted == NoRetry => (Spec /\ []OwnNonces => FinishedMeansRan)
<1> SUFFICES ASSUME NoRetry PROVE Spec /\ []OwnNonces => FinishedMeansRan
  OBVIOUS
<1>1. Init => OnceInv /\ OrderInv
  BY InitOnce, InitOrder
<1>2. TypeOK /\ OnceInv /\ OrderInv /\ OwnNonces /\ [Next]_vars => OnceInv' /\ OrderInv'
  BY NextOnce, NextOrder
<1>3. TypeOK /\ OnceInv /\ OrderInv /\ OwnNonces /\ [Next]_vars
        => [\A s \in Sessions :
              pc[s] = "check" /\ pc'[s] \in {"settle", "destroy"}
              => Ran(job[s], rec[s].execute_index)]_vars
  <2> SUFFICES ASSUME TypeOK, OnceInv, OrderInv, OwnNonces, [Next]_vars, NEW s \in Sessions,
                      pc[s] = "check", pc'[s] \in {"settle", "destroy"}
               PROVE  Ran(job[s], rec[s].execute_index)
    OBVIOUS
  <2>1. Finished(job[s], rec[s])
    BY FinishingStep
  <2>2. rec[s].execute_index \in Steps(job[s]) /\ pc[s] \in Holding
    BY CopyType DEF Holding, Task
  <2>3. QED
    BY <2>1, <2>2, ConfirmedStep DEF Finished
<1>4. QED
  BY <1>1, <1>2, <1>3, TaskTypeCorrect, PTL DEF Spec, FinishedMeansRan

\* Under the same conditions has_claimed only accepts a task whose claim was executed
\* (what lib.rs:242 pauses the executor for).
THEOREM ClaimedWasClaimed == NoRetry => (Spec /\ []OwnNonces => ClaimedMeansClaimed)
<1> SUFFICES ASSUME NoRetry PROVE Spec /\ []OwnNonces => ClaimedMeansClaimed
  OBVIOUS
<1>1. Init => OnceInv /\ OrderInv
  BY InitOnce, InitOrder
<1>2. TypeOK /\ OnceInv /\ OrderInv /\ OwnNonces /\ [Next]_vars => OnceInv' /\ OrderInv'
  BY NextOnce, NextOrder
<1>3. TypeOK /\ OnceInv /\ OrderInv /\ OwnNonces /\ [Next]_vars
        => [\A s \in Sessions :
              pc[s] = "claimed" /\ pc'[s] = "check" => ClaimedOnChain(job[s])]_vars
  <2> SUFFICES ASSUME TypeOK, OnceInv, OrderInv, OwnNonces, [Next]_vars, NEW s \in Sessions,
                      pc[s] = "claimed", pc'[s] = "check"
               PROVE  ClaimedOnChain(job[s])
    OBVIOUS
  <2>1. Confirmed(Source(job[s]), rec[s].claim_nonce) /\ pc[s] \in Holding
    BY ClaimingStep
  <2>2. QED
    BY <2>1, ConfirmedClaim
<1>4. QED
  BY <1>1, <1>2, <1>3, TaskTypeCorrect, PTL DEF Spec, ClaimedMeansClaimed

-----------------------------------------------------------------------------
(***************************************************************************)
(* Tasks that keep to their own chains cannot take each other's nonces.    *)
(***************************************************************************)

\* Everything sent is for a task.
OnlyTasks == \A c \in Chains : \A tx \in Sent(c) : tx.kind \in {"claim", "step"}

LEMMA NextOnlyTasks ==
    ASSUME "owner" \notin Callers, TypeOK, OnlyTasks, [Next]_vars
    PROVE  OnlyTasks'
<1>1. ChainsTypeOK
  BY TypeParts
<1>2. CASE UNCHANGED chainVars
  BY <1>2 DEF OnlyTasks, Sent, chainVars
<1>3. ASSUME NEW c \in Chains, NEW tx, tx.kind \in {"claim", "step"},
             Accepts(c, tx) \/ Refuses(c, tx)
      PROVE  OnlyTasks'
  BY <1>1, <1>3, AcceptsSent DEF OnlyTasks
<1>4. ASSUME NEW s \in Sessions, SendClaim(s)
      PROVE  OnlyTasks'
  <2>1. job[s] \in Tasks /\ Source(job[s]) \in Chains
    BY <1>4, CopyType, RouteType DEF SendClaim, Holding
  <2>2. ClaimTx(job[s], rec[s]).kind = "claim"
    BY DEF ClaimTx
  <2>3. QED
    BY <1>3, <1>4, <2>1, <2>2 DEF SendClaim
<1>5. ASSUME NEW s \in Sessions, SendStep(s)
      PROVE  OnlyTasks'
  <2>1. Src(job[s], rec[s].execute_index) \in Chains
    BY <1>5, CopyType, RouteType DEF SendStep, Holding, Task
  <2>2. StepTx(job[s], rec[s]).kind = "step"
    BY DEF StepTx
  <2>3. QED
    BY <1>3, <1>5, <2>1, <2>2 DEF SendStep
<1>6. CASE ChainStep
  BY <1>1, <1>6, ChainStepSent DEF OnlyTasks
<1>7. CASE OwnerStep
  BY <1>2, <1>7 DEF OwnerStep, PauseExecutor, ResumeExecutor, WorkerApprove, WorkerDropTask,
                    OwnerSends
<1>8. ASSUME NEW s \in Sessions, QueryStep(s)
      PROVE  OnlyTasks'
  BY <1>2, <1>4, <1>5, <1>8
  DEF QueryStep, FetchStep, CopyStep, ExecuteStep, FetchTask, InitTask, ApplyNonce, InsertTask,
      InsertWorker, CheckClaimed, Claim, CheckStep, Settle, CanRun, Run, Destroy, DeleteWorker,
      RpcError, ExecuteTask, ReadTask, SaveTask, Abort, RetryTask, ReapplyNonce, Start
<1>9. CASE UNCHANGED vars
  BY <1>2, <1>9 DEF vars
<1>10. QED
  BY <1>6, <1>7, <1>8, <1>9, NextParts DEF QueryStep

LEMMA ApartOwns == Apart /\ TypeOK /\ OnceInv /\ OrderInv /\ OnlyTasks => OwnNonces
<1> SUFFICES ASSUME Apart, TypeOK, OnceInv, OrderInv, OnlyTasks,
                    NEW t \in Tasks, NEW c \in Chains, NEW n \in 1..Len(mined[c]),
                    taskDoc[t] # NoDoc, (n - 1) \in PlannedOn(t, c)
             PROVE  mined[c][n].tx.task = t /\ mined[c][n].tx.kind \in {"claim", "step"}
  BY DEF OwnNonces
<1>1. PICK tx : tx = mined[c][n].tx
  OBVIOUS
<1>2. tx.kind \in {"claim", "step"} /\ Planned(tx) /\ InTurn(c, tx)
  BY <1>1 DEF OnlyTasks, OnceInv, OrderInv, NoncesPlanned, SentInTurn, Sent
<1>3. PICK i \in Steps(t) : c = Src(t, i)
  BY RouteType DEF PlannedOn, Unmerged, Source
<1>4. tx.task \in Tasks /\ \E j \in Steps(tx.task) : c = Src(tx.task, j)
  BY <1>2, RouteType DEF Planned, InTurn, Source
<1>5. QED
  BY <1>1, <1>2, <1>3, <1>4 DEF Apart

\* Where no two tasks share a chain, the owner sends nothing and nobody retries, no nonce
\* of a plan is ever taken by somebody else (the hypothesis of the theorems above).
THEOREM ApartKeepsNonces == NoRetry /\ Apart => (Spec => []OwnNonces)
<1> SUFFICES ASSUME NoRetry, Apart PROVE Spec => []OwnNonces
  OBVIOUS
<1>1. Init => OnceInv /\ OrderInv /\ OnlyTasks
  <2>1. Init => OnlyTasks
    BY DEF Init, ChainsInit, OnlyTasks, Sent
  <2>2. QED
    BY <2>1, InitOnce, InitOrder
<1>2. TypeOK /\ OnceInv /\ OrderInv /\ OnlyTasks => OwnNonces
  BY ApartOwns
<1>3. /\ TypeOK /\ OnceInv /\ OrderInv /\ OnlyTasks /\ OwnNonces /\ [Next]_vars
      => OnceInv' /\ OrderInv' /\ OnlyTasks'
  BY NextOnce, NextOrder, NextOnlyTasks DEF Apart
<1>4. QED
  BY <1>1, <1>2, <1>3, TaskTypeCorrect, PTL DEF Spec

\* So there everything the executor takes for done was done, whatever fails or overlaps:
\* steps are sent in turn, claims and steps are only accepted when they were executed, and
\* a completed task was executed to its end.
THEOREM EvidenceIsSound ==
    NoRetry /\ Apart
    => (Spec => []InOrder /\ []CompletedMeansRan /\ FinishedMeansRan /\ ClaimedMeansClaimed)
<1> SUFFICES ASSUME NoRetry, Apart
             PROVE  Spec => []InOrder /\ []CompletedMeansRan /\ FinishedMeansRan
                            /\ ClaimedMeansClaimed
  OBVIOUS
<1>1. Spec => []OwnNonces
  BY ApartKeepsNonces
<1>2. Spec /\ []OwnNonces => []InOrder
  BY StepsInOrder
<1>3. Spec /\ []OwnNonces => []CompletedMeansRan
  BY CompletedWasExecuted
<1>4. Spec /\ []OwnNonces => FinishedMeansRan
  BY FinishedWasExecuted
<1>5. Spec /\ []OwnNonces => ClaimedMeansClaimed
  BY ClaimedWasClaimed
<1>6. QED
  BY <1>1, <1>2, <1>3, <1>4, <1>5

-----------------------------------------------------------------------------
(***************************************************************************)
(* When retry is called: the nonce of the claim.                           *)
(***************************************************************************)

\* What a confirmation is about.
LEMMA ConfirmedReceipt ==
    ASSUME TypeOK, ClaimInv, NEW c \in Chains, NEW n \in Nat, Confirmed(c, n),
           NEW m, m = mined[c][n + 1]
    PROVE  /\ n + 1 \in 1..Len(mined[c]) /\ n < Len(mined[c])
           /\ m.ok /\ m.tx.nonce = n /\ SentFor(c, m.tx)
<1>1. Len(mined[c]) \in Nat /\ indexed[c] \in Nat /\ indexed[c] <= Len(mined[c])
  BY TypeParts, MinedLength DEF ChainsTypeOK, ClaimInv
<1>2. n < Len(mined[c]) /\ n + 1 \in 1..Len(mined[c]) /\ (n + 1) - 1 = n
  BY <1>1 DEF Confirmed
<1>3. mined[c][n + 1].tx \in Sent(c)
  BY <1>2 DEF Sent
<1>4. SentFor(c, m.tx)
  BY <1>3 DEF ClaimInv
<1>5. m.tx.nonce = n
  BY <1>2 DEF ClaimInv
<1>6. QED
  BY <1>2, <1>4, <1>5 DEF Confirmed

\* Where no two tasks share a chain, what is on one of t's is for t.
LEMMA SentForOwn ==
    ASSUME Apart, NEW c \in Chains, NEW tx, SentFor(c, tx),
           NEW t \in Tasks, NEW i \in Steps(t), c = Src(t, i)
    PROVE  tx.task = t
<1>1. tx.task \in Tasks /\ \E j \in Steps(tx.task) : c = Src(tx.task, j)
  BY RouteType DEF SentFor, Source
<1>2. QED
  BY <1>1 DEF Apart

\* So has_claimed recognises the claim.
LEMMA ConfirmedIncluded ==
    ASSUME Apart, TypeOK, ClaimInv, NEW s \in Sessions, pc[s] \in Holding,
           Confirmed(Source(job[s]), rec[s].claim_nonce)
    PROVE  ClaimIncluded(job[s], rec[s])
<1>1. PICK t, r, c, n : t = job[s] /\ r = rec[s] /\ c = Source(t) /\ n = r.claim_nonce
  OBVIOUS
<1>2. t \in Tasks /\ r \in Task(t) /\ c \in Chains /\ n \in Nat /\ 1 \in Steps(t) /\ c = Src(t, 1)
  BY <1>1, CopyType, RouteType DEF Task, Source
<1>3. n = taskDoc[t].claim_nonce
  BY <1>1 DEF ClaimInv, BegunCopy
<1>4. PICK m : m = mined[c][n + 1]
  OBVIOUS
<1>5. /\ n + 1 \in 1..Len(mined[c]) /\ n < Len(mined[c])
      /\ m.ok /\ m.tx.nonce = n /\ SentFor(c, m.tx)
  BY <1>1, <1>2, <1>4, ConfirmedReceipt
<1>6. m.tx.task = t
  BY <1>2, <1>5, SentForOwn
<1>7. m.tx.kind = "claim"
  BY <1>1, <1>3, <1>5, <1>6 DEF SentFor
<1>8. ClaimedOnChain(t)
  BY <1>1, <1>4, <1>5, <1>6, <1>7 DEF ClaimedOnChain
<1>9. QED
  BY <1>1, <1>5, <1>8 DEF ClaimIncluded

\* No document gets another claim nonce.
ClaimNonceKept ==
    \A t \in Tasks : taskDoc[t] # NoDoc =>
        taskDoc'[t] # NoDoc /\ taskDoc'[t].claim_nonce = taskDoc[t].claim_nonce

LEMMA UnchangedClaimNonce ==
    ASSUME UNCHANGED taskDoc
    PROVE  ClaimNonceKept
  BY DEF ClaimNonceKept

LEMMA QueryClaimNonce ==
    ASSUME TypeOK, ClaimInv, NEW s \in Sessions, QueryStep(s)
    PROVE  ClaimNonceKept
<1>1. CASE InsertTask(s)
  BY <1>1 DEF InsertTask, ClaimNonceKept, TypeOK
<1>2. CASE SaveTask(s)
  <2>1. pc[s] \in Holding /\ taskDoc' = [taskDoc EXCEPT ![job[s]] = rec[s]]
    BY <1>2 DEF SaveTask, Holding
  <2>2. /\ job[s] \in Tasks /\ rec[s] \in Task(job[s])
        /\ rec[s].claim_nonce = taskDoc[job[s]].claim_nonce
    BY <2>1, CopyType DEF ClaimInv, BegunCopy
  <2>3. rec[s] # NoDoc
    BY <2>2
  <2>4. QED
    BY <2>1, <2>2, <2>3 DEF ClaimNonceKept, TypeOK
<1>3. CASE UNCHANGED taskDoc
  BY <1>3, UnchangedClaimNonce
<1>4. QED
  BY <1>1, <1>2, <1>3
  DEF QueryStep, FetchStep, CopyStep, ExecuteStep, FetchTask, InitTask, ApplyNonce,
      InsertWorker, CheckClaimed, Claim, SendClaim, CheckStep, Settle, CanRun, Run, SendStep,
      Destroy, DeleteWorker, RpcError, ExecuteTask, ReadTask, Abort, RetryTask, ReapplyNonce,
      Start, storageVars

\* An included claim stays so.
LEMMA IncludedStays ==
    ASSUME TypeOK, TypeOK', Grown, NEW t \in Tasks, NEW r \in Task(t)
    PROVE  /\ ClaimIncluded(t, r) => ClaimIncluded(t, r)'
           /\ Begun(t, r) => Begun(t, r)'
<1>1. ChainsTypeOK /\ ChainsTypeOK' /\ Source(t) \in Chains
  BY TypeParts, RouteType
<1>2. Len(mined[Source(t)]) \in Nat /\ Len(mined'[Source(t)]) \in Nat
  <2>1. mined'[Source(t)] \in Seq(Receipt)
    BY <1>1 DEF ChainsTypeOK
  <2>2. QED
    BY <1>1, <2>1, MinedLength, LenProperties
<1>3. Len(mined[Source(t)]) <= Len(mined'[Source(t)]) /\ r.claim_nonce \in Nat
  BY <1>1 DEF Grown, Task
<1>4. r.claim_nonce < Len(mined[Source(t)]) => r.claim_nonce < Len(mined'[Source(t)])
  BY <1>2, <1>3
<1>5. ClaimedOnChain(t) => ClaimedOnChain(t)'
  BY <1>1, RanStays
<1>6. ClaimIncluded(t, r) => ClaimIncluded(t, r)'
  BY <1>4, <1>5 DEF ClaimIncluded
<1>7. QED
  BY <1>6 DEF Begun

LEMMA BegunCopyStays ==
    ASSUME TypeOK, TypeOK', Grown, NEW t \in Tasks, NEW r \in Task(t), NEW place,
           BegunCopy(t, r, place),
           place \in Holding => taskDoc'[t].claim_nonce = taskDoc[t].claim_nonce
    PROVE  BegunCopy(t, r, place)'
  BY IncludedStays DEF BegunCopy

\* A query that is not past the claim does not change the status of its copy.
LEMMA StatusStays ==
    ASSUME TypeOK, NEW s \in Sessions, CopyStep(s), pc[s] \notin PastClaim
    PROVE  rec'[s].status = rec[s].status \/ Return(s)
<1> DEFINE t == job[s]
           r == rec[s]
<1>1. t \in Tasks /\ r \in Task(t)
  BY CopyStepMoves, CopyType
<1>2. \A p, q : Goto(s, p, q) => rec'[s] = q
  BY GotoOthers
<1>3. \A q : Fail(s, q) => rec'[s] = q \/ Return(s)
  BY <1>2 DEF Fail
<1> HIDE DEF t, r
<1>4. CASE CheckClaimed(s) \/ Destroy(s) \/ DeleteWorker(s) \/ RpcError(s)
  BY <1>2, <1>3, <1>4 DEF CheckClaimed, Destroy, DeleteWorker, RpcError
<1>5. CASE Claim(s)
  <2> DEFINE spent  == [r EXCEPT !.spend[1] = Amount]
             synced == [spent EXCEPT !.origin[1] = bal[t][1]]
  <2>1. spent.status = r.status /\ synced.status = r.status
    BY <1>1 DEF Task
  <2>2. \/ Goto(s, "sendClaim", r) \/ Goto(s, "sendClaim", synced)
        \/ Fail(s, synced) \/ Fail(s, spent)
    BY <1>5 DEF Claim, t, r
  <2> HIDE DEF spent, synced
  <2>3. QED
    BY <1>2, <1>3, <2>1, <2>2 DEF r
<1>6. CASE SendClaim(s)
  <2>1. Claimed(t, r).status = r.status
    BY <1>1 DEF Claimed, Task
  <2>2. Goto(s, "save", Claimed(t, r)) \/ Fail(s, r)
    BY <1>6 DEF SendClaim, t, r
  <2>3. QED
    BY <1>2, <1>3, <2>1, <2>2 DEF r
<1>7. ~(CheckStep(s) \/ Settle(s) \/ CanRun(s) \/ Run(s) \/ SendStep(s))
  BY DEF CheckStep, Settle, CanRun, Run, SendStep, PastClaim
<1>8. QED
  BY <1>4, <1>5, <1>6, <1>7 DEF CopyStep

\* The nonce the first step is given again is not below the one of its chain.
LEMMA FirstNonce ==
    ASSUME ChainsTypeOK, NEW t \in Tasks, NEW first \in Nat,
           NEW claiming \in BOOLEAN, ~claiming, NEW n, n = NonceOf(t, 1, first, claiming)
    PROVE  n \in Nat /\ n >= OnchainNonce(Source(t))
<1> DEFINE J == {j \in first..(1 - 1) : Src(t, j) = Src(t, 1)}
<1>1. OnchainNonce(Source(t)) \in Nat
  BY OnchainNonceType, RouteType
<1>2. 1 - 1 \in Int /\ first \in Int
  OBVIOUS
<1>3. IsFiniteSet(first..(1 - 1))
  BY <1>2, FS_Interval
<1>4. Cardinality(J) \in Nat
  BY <1>3, FS_Subset, FS_CardinalityType
<1>5. n = OnchainNonce(Source(t)) + Cardinality(J) + 0
  BY DEF NonceOf, Source
<1> HIDE DEF J
<1>6. QED
  BY <1>1, <1>4, <1>5

\* The copy reapply_nonce leaves.
Reapplied(t, r, claiming) ==
    [r EXCEPT !.retry_counter = 0,
              !.claim_nonce = IF claiming THEN OnchainNonce(Source(t)) ELSE @,
              !.nonce = [i \in Steps(t) |->
                           IF i >= r.at THEN NonceOf(t, i, r.at, claiming) ELSE @[i]]]

\* Where the claim is included, the steps are only planned again, ...
LEMMA ReappliedBegun ==
    ASSUME ChainsTypeOK, NEW t \in Tasks, NEW r \in Task(t), ClaimIncluded(t, r), Begun(t, r),
           NEW claiming \in BOOLEAN, claiming <=> OnchainNonce(Source(t)) <= r.claim_nonce,
           NEW q, q = Reapplied(t, r, claiming)
    PROVE  /\ q \in Task(t) /\ q.claim_nonce = r.claim_nonce /\ q.status = r.status
           /\ Source(t) \notin Evm => q.nonce[1] > q.claim_nonce
<1>0. PICK n : n = NonceOf(t, 1, r.at, claiming)
  OBVIOUS
<1>1. /\ Source(t) \in Chains /\ 1 \in Steps(t) /\ r.at \in Nat
      /\ r.claim_nonce \in Nat /\ r.nonce \in [Steps(t) -> Nat]
  BY RouteType DEF Task
<1>2. /\ Len(mined[Source(t)]) \in Nat /\ OnchainNonce(Source(t)) \in Nat
      /\ Len(mined[Source(t)]) <= OnchainNonce(Source(t))
  BY <1>1, MinedLength, OnchainNonceType
<1>3. r.claim_nonce < Len(mined[Source(t)])
  BY DEF ClaimIncluded
<1>4. ~claiming /\ OnchainNonce(Source(t)) > r.claim_nonce
  BY <1>1, <1>2, <1>3
<1>5. q \in Task(t)
  BY ReapplyType DEF Reapplied
<1>6. /\ q.claim_nonce = r.claim_nonce /\ q.status = r.status
      /\ q.nonce[1] = IF 1 >= r.at THEN n ELSE r.nonce[1]
  BY <1>0, <1>1, <1>4 DEF Task, Reapplied
<1>7. n \in Nat /\ n >= OnchainNonce(Source(t))
  BY <1>0, <1>1, <1>4, FirstNonce
<1>8. n > r.claim_nonce
  BY <1>1, <1>2, <1>4, <1>7
<1>9. Source(t) \notin Evm => r.nonce[1] > r.claim_nonce
  BY DEF Begun
<1>10. QED
  BY <1>5, <1>6, <1>8, <1>9

\* ... and a retry only holds tasks whose claim is included.
LEMMA ReapplyKeepsClaim ==
    ASSUME TypeOK, ClaimInv, NEW s \in Sessions, ReapplyNonce(s),
           NEW t, t = job[s], NEW r, r = rec[s], NEW q, q = rec'[s]
    PROVE  \/ Return(s)
           \/ /\ pc'[s] = "canRun" /\ job'[s] = t /\ q \in Task(t)
              /\ q.claim_nonce = r.claim_nonce /\ q.status = r.status
              /\ Source(t) \notin Evm => q.nonce[1] > q.claim_nonce
<1>1. pc[s] = "reapply" /\ pc[s] \in Holding
  BY DEF ReapplyNonce, Holding
<1>2. t \in Tasks /\ r \in Task(t) /\ ChainsTypeOK
  BY <1>1, CopyType, TypeParts
<1>3. ClaimIncluded(t, r) /\ Begun(t, r)
  BY <1>1 DEF ClaimInv, BegunCopy
<1> DEFINE claiming == OnchainNonce(Source(t)) <= r.claim_nonce
<1>4. claiming \in BOOLEAN /\ (claiming <=> OnchainNonce(Source(t)) <= r.claim_nonce)
  OBVIOUS
<1>5. Return(s) \/ Goto(s, "canRun", Reapplied(t, r, claiming))
  BY DEF ReapplyNonce, Reapplied
<1> HIDE DEF claiming
<1>6. CASE Goto(s, "canRun", Reapplied(t, r, claiming))
  <2>1. pc'[s] = "canRun" /\ job'[s] = t /\ q = Reapplied(t, r, claiming)
    BY <1>6, GotoOthers
  <2>2. QED
    BY <1>2, <1>3, <1>4, <2>1, ReappliedBegun
<1>7. QED
  BY <1>5, <1>6

\* A record that has the claim's nonce of one that may go on may go on.
LEMMA BegunAgain ==
    ASSUME TypeOK, TypeOK', Grown, NEW t \in Tasks, NEW r \in Task(t), NEW q \in Task(t),
           Begun(t, r), q.claim_nonce = r.claim_nonce,
           Source(t) \notin Evm => q.nonce[1] > q.claim_nonce,
           q.status = r.status \/ ClaimIncluded(t, r)
    PROVE  Begun(t, q)' /\ (ClaimIncluded(t, r) => ClaimIncluded(t, q)')
<1>1. ClaimIncluded(t, r) => ClaimIncluded(t, q)'
  <2>1. ClaimIncluded(t, r) => ClaimIncluded(t, q)
    BY DEF ClaimIncluded
  <2>2. QED
    BY <2>1, IncludedStays
<1>2. q.status # "Initialized" => ClaimIncluded(t, r)
  BY DEF Begun
<1>3. QED
  BY <1>1, <1>2 DEF Begun

\* The copy of the query that makes the step.
LEMMA CopyStepBegun ==
    ASSUME Apart, TypeOK, TypeOK', ClaimInv, Grown, NEW s \in Sessions, CopyStep(s), Moves(s),
           NEW u, u = job'[s], NEW q, q = rec'[s], NEW place, place = pc'[s]
    PROVE  BegunCopy(u, q, place)'
<1>1. PICK r : r = rec[s]
  OBVIOUS
<1>2. pc[s] \in Holding /\ u = job[s] /\ u \in Tasks /\ r \in Task(u)
  BY <1>1, CopyStepMoves, CopyType DEF Moves, Goto
<1>3. /\ place \in Holding \ {"reapply"} /\ q \in Task(u) /\ SameNonces(u, q, r)
  BY <1>1, <1>2 DEF Moves
<1>4. 1 \in Steps(u) /\ (Source(u) \notin Evm => 1 \in Unmerged(u))
  BY <1>2, RouteType DEF Unmerged
<1>5. /\ q.claim_nonce = r.claim_nonce /\ (Source(u) \notin Evm => q.nonce[1] = r.nonce[1])
  BY <1>3, <1>4 DEF SameNonces
<1>6. /\ Begun(u, r) /\ r.claim_nonce = taskDoc[u].claim_nonce
      /\ pc[s] \in PastClaim => ClaimIncluded(u, r)
  BY <1>1, <1>2 DEF ClaimInv, BegunCopy
<1>7. Source(u) \notin Evm => q.nonce[1] > q.claim_nonce
  BY <1>5, <1>6 DEF Begun
<1>8. place \notin {"idle"} /\ ~Return(s)
  BY <1>3, ReturnOthers DEF Holding
<1>9. q.status = r.status \/ ClaimIncluded(u, r)
  BY <1>1, <1>6, <1>8, StatusStays
<1>10. Begun(u, q)' /\ (ClaimIncluded(u, r) => ClaimIncluded(u, q)')
  BY <1>2, <1>3, <1>5, <1>6, <1>7, <1>9, BegunAgain
<1>11. place \in PastClaim => ClaimIncluded(u, r)
  <2>1. Follows(s)
    BY <1>8, CopyStepFollows
  <2>2. CASE pc[s] = "claimed" /\ Confirmed(Source(u), r.claim_nonce)
    BY <1>1, <1>2, <2>2, ConfirmedIncluded
  <2>3. QED
    BY <1>1, <1>2, <1>6, <2>1, <2>2 DEF Follows
<1>12. UNCHANGED taskDoc
  BY DEF CopyStep, CheckClaimed, Claim, SendClaim, CheckStep, Settle, CanRun, Run, SendStep,
         Destroy, DeleteWorker, RpcError, storageVars
<1>13. QED
  BY <1>3, <1>5, <1>6, <1>10, <1>11, <1>12 DEF BegunCopy

LEMMA NewTaskBegun ==
    ASSUME TypeOK', ChainsTypeOK, NEW t \in Tasks, NEW q, q = NewTask(t)
    PROVE  Begun(t, q)'
<1>1. q \in Task(t) /\ q.status = "Initialized" /\ q.claim_nonce \in Nat
  <2>1. q \in Task(t)
    BY NewTaskType
  <2>2. q.status = "Initialized"
    BY DEF NewTask
  <2>3. QED
    BY <2>1, <2>2 DEF Task
<1>2. Source(t) \notin Evm => 1 \in Unmerged(t) /\ Src(t, 1) = Source(t)
  BY RouteType DEF Unmerged, Source
<1>3. NoncesInOrder(t, q)
  BY NewTaskInOrder
<1>4. Source(t) \notin Evm => q.nonce[1] > q.claim_nonce + 0
  BY <1>2, <1>3 DEF NoncesInOrder
<1>5. Source(t) \notin Evm => q.nonce[1] > q.claim_nonce
  BY <1>1, <1>4
<1>6. QED
  BY <1>1, <1>5 DEF Begun

\* A copy of a document that is not of a query past its claim.
LEMMA ReadBegun ==
    ASSUME TypeOK, TypeOK', ClaimInv, Grown, UNCHANGED taskDoc,
           NEW u \in Tasks, taskDoc[u] # NoDoc, NEW q, q = taskDoc[u], NEW place,
           place \in Holding \ PastClaim, place = "reapply" => q.status # "Initialized"
    PROVE  BegunCopy(u, q, place)'
<1>1. q \in Task(u) /\ Begun(u, q)
  BY DEF ClaimInv, TypeOK
<1>2. place = "reapply" => ClaimIncluded(u, q)
  BY <1>1 DEF Begun
<1>3. BegunCopy(u, q, place)
  BY <1>1, <1>2 DEF BegunCopy
<1>4. taskDoc'[u].claim_nonce = taskDoc[u].claim_nonce
  OBVIOUS
<1>5. QED
  BY <1>1, <1>3, <1>4, BegunCopyStays

LEMMA OwnCopyBegun ==
    ASSUME Apart, TypeOK, TypeOK', ClaimInv, Grown, NEW s \in Sessions, QueryStep(s),
           NEW u, u = job'[s], NEW q, q = rec'[s], NEW place, place = pc'[s]
    PROVE  BegunCopy(u, q, place)'
<1>1. /\ {"idle", "init", "applyNonce", "insertWorker", "readTask"}
           \cap (Holding \cup {"insertTask"} \cup PastClaim \cup {"reapply"}) = {}
      /\ "insertTask" \notin Holding \cup PastClaim \cup {"reapply"}
      /\ {"claimed", "reapply"} \subseteq Holding \ PastClaim
      /\ "canRun" \in Holding \cap PastClaim /\ "reapply" \in Holding
  BY DEF Holding, PastClaim
<1>2. ChainsTypeOK
  BY TypeParts
<1>3. CASE place \in {"idle", "init", "applyNonce", "insertWorker", "readTask"}
  BY <1>1, <1>3 DEF BegunCopy
<1>4. CASE CopyStep(s)
  <2>1. CASE Return(s)
    BY <1>3, <2>1, ReturnOthers
  <2>2. CASE Moves(s)
    BY <1>4, <2>2, CopyStepBegun
  <2>3. QED
    BY <1>4, <2>1, <2>2, CopyStepMoves
<1>5. CASE ApplyNonce(s)
  <2>1. u = job[s] /\ u \in Tasks /\ q = NewTask(u) /\ place = "insertTask"
    BY <1>5, GotoOthers DEF ApplyNonce, TypeOK
  <2>2. Begun(u, q)'
    BY <1>2, <2>1, NewTaskBegun
  <2>3. QED
    BY <1>1, <2>1, <2>2 DEF BegunCopy
<1>6. CASE ReadTask(s)
  <2>1. CASE taskDoc[job[s]] # NoDoc /\ Goto(s, "claimed", taskDoc[job[s]])
    <3>1. place = "claimed" /\ u = job[s] /\ q = taskDoc[u] /\ u \in Tasks
      BY <1>6, <2>1, GotoOthers DEF ReadTask, TypeOK
    <3>2. UNCHANGED taskDoc
      BY <1>6 DEF ReadTask, storageVars
    <3>3. QED
      BY <1>1, <2>1, <3>1, <3>2, ReadBegun
  <2>2. CASE Return(s)
    BY <1>3, <2>2, ReturnOthers
  <2>3. QED
    BY <1>6, <2>1, <2>2 DEF ReadTask
<1>7. ASSUME NEW t \in Tasks, RetryTask(s, t)
      PROVE  BegunCopy(u, q, place)'
  <2>1. /\ place = "reapply" /\ u = t /\ q = taskDoc[u] /\ taskDoc[u] # NoDoc
        /\ q.status # "Initialized" /\ UNCHANGED taskDoc
    BY <1>7, StartOthers DEF RetryTask, storageVars
  <2>2. QED
    BY <1>1, <2>1, ReadBegun
<1>8. CASE ReapplyNonce(s)
  <2>1. PICK t, r : t = job[s] /\ r = rec[s]
    OBVIOUS
  <2>2. pc[s] = "reapply" /\ t \in Tasks /\ r \in Task(t)
    BY <1>1, <1>8, <2>1, CopyType DEF ReapplyNonce
  <2>3. CASE Return(s)
    BY <1>3, <2>3, ReturnOthers
  <2>4. CASE /\ pc'[s] = "canRun" /\ job'[s] = t /\ q \in Task(t)
             /\ q.claim_nonce = r.claim_nonce /\ q.status = r.status
             /\ Source(t) \notin Evm => q.nonce[1] > q.claim_nonce
    <3>1. /\ Begun(t, r) /\ ClaimIncluded(t, r) /\ r.claim_nonce = taskDoc[t].claim_nonce
      BY <1>1, <2>1, <2>2 DEF ClaimInv, BegunCopy
    <3>2. Begun(t, q)' /\ ClaimIncluded(t, q)'
      BY <2>2, <2>4, <3>1, BegunAgain
    <3>3. UNCHANGED taskDoc
      BY <1>8 DEF ReapplyNonce, storageVars
    <3>4. QED
      BY <2>4, <3>1, <3>2, <3>3 DEF BegunCopy
  <2>5. QED
    BY <1>8, <2>1, <2>3, <2>4, ReapplyKeepsClaim
<1>9. FetchStep(s) /\ ~ApplyNonce(s)
         => place \in {"idle", "init", "applyNonce", "insertWorker", "readTask"}
  BY GotoOthers, ReturnOthers, StartOthers
  DEF FetchStep, FetchTask, InitTask, InsertTask, InsertWorker
<1>10. ExecuteTask(s) \/ SaveTask(s) \/ Abort(s)
         => place \in {"idle", "init", "applyNonce", "insertWorker", "readTask"}
  BY ReturnOthers, StartOthers DEF ExecuteTask, SaveTask, Abort
<1>11. QED
  BY <1>3, <1>4, <1>5, <1>6, <1>7, <1>8, <1>9, <1>10 DEF QueryStep, ExecuteStep

\* The other copies, and the documents.
LEMMA QueryCopiesBegun ==
    ASSUME Apart, TypeOK, TypeOK', ClaimInv, Grown, NEW s \in Sessions, QueryStep(s),
           NEW v \in Sessions, NEW u, u = job'[v], NEW q, q = rec'[v], NEW place, place = pc'[v]
    PROVE  BegunCopy(u, q, place)'
<1>1. CASE v = s
  BY <1>1, OwnCopyBegun
<1>2. CASE v # s
  <2>1. place = pc[v] /\ u = job[v] /\ q = rec[v] /\ BegunCopy(u, q, place)
    BY <1>2, QueryOthers DEF Others, ClaimInv
  <2>2. CASE place \in Holding \cup {"insertTask"}
    <3>1. u \in Tasks /\ q \in Task(u)
      BY <2>1, <2>2 DEF TypeOK, Holding
    <3>2. place \in Holding => taskDoc[u] # NoDoc
      BY <2>1 DEF ClaimInv, KnownTasks
    <3>3. ClaimNonceKept
      BY QueryClaimNonce
    <3>4. place \in Holding => taskDoc'[u].claim_nonce = taskDoc[u].claim_nonce
      BY <3>1, <3>2, <3>3 DEF ClaimNonceKept
    <3>5. QED
      BY <2>1, <3>1, <3>4, BegunCopyStays
  <2>3. CASE place \notin Holding \cup {"insertTask"}
    BY <2>3 DEF BegunCopy, Holding, PastClaim
  <2>4. QED
    BY <2>2, <2>3
<1>3. QED
  BY <1>1, <1>2

LEMMA QueryDocsBegun ==
    ASSUME TypeOK, TypeOK', ClaimInv, Grown, NEW s \in Sessions, QueryStep(s),
           NEW t \in Tasks, NEW d, d = taskDoc'[t], d # NoDoc
    PROVE  Begun(t, d)'
<1>1. CASE d = taskDoc[t]
  <2>1. d \in Task(t) /\ Begun(t, d)
    BY <1>1 DEF ClaimInv, TypeOK
  <2>2. QED
    BY <2>1, IncludedStays
<1>2. CASE pc[s] \in {"insertTask", "save"} /\ t = job[s] /\ d = rec[s]
  <2>1. d \in Task(t) /\ Begun(t, d)
    BY <1>2 DEF ClaimInv, BegunCopy, TypeOK, Holding
  <2>2. QED
    BY <2>1, IncludedStays
<1>3. QED
  BY <1>1, <1>2, QueryDocs

\* What was sent for a task stays so, so nothing needs to be looked at but what is new.
LEMMA NewSentFor ==
    ASSUME ClaimInv, ClaimNonceKept,
           \A c \in Chains : \A tx \in Sent(c)' : tx \in Sent(c) \/ SentFor(c, tx)'
    PROVE  \A c \in Chains : \A tx \in Sent(c)' : SentFor(c, tx)'
<1>1. ASSUME NEW c \in Chains, NEW tx \in Sent(c)
      PROVE  SentFor(c, tx)'
  <2>1. SentFor(c, tx)
    BY DEF ClaimInv
  <2>2. QED
    BY <2>1 DEF SentFor, ClaimNonceKept
<1>2. QED
  BY <1>1

LEMMA SendStepFor ==
    ASSUME TypeOK, ClaimInv, NEW s \in Sessions, SendStep(s),
           NEW t, t = job[s], NEW r, r = rec[s], NEW tx, tx = StepTx(t, r),
           NEW c, c = Src(t, r.execute_index), Accepts(c, tx)
    PROVE  c \in Chains /\ SentFor(c, tx)'
<1>1. pc[s] = "send" /\ pc[s] \in Holding /\ pc[s] \in PastClaim /\ UNCHANGED taskDoc
  BY DEF SendStep, Holding, PastClaim, storageVars
<1>2. PICK i : i = r.execute_index
  OBVIOUS
<1>3. t \in Tasks /\ r \in Task(t) /\ i \in Steps(t) /\ c \in Chains /\ taskDoc[t] # NoDoc
  BY <1>1, <1>2, CopyType, RouteType DEF Task, ClaimInv, KnownTasks
<1>4. tx.kind = "step" /\ tx.task = t /\ tx.step = i /\ tx.nonce = r.nonce[i]
  BY <1>2 DEF StepTx
<1>5. r.claim_nonce < Len(mined[Source(t)]) /\ r.claim_nonce = taskDoc[t].claim_nonce
  BY <1>1 DEF ClaimInv, BegunCopy, ClaimIncluded
<1>6. tx.nonce >= Len(mined[c])
  BY DEF Accepts
<1>7. tx.nonce \in Nat /\ r.claim_nonce \in Nat /\ Len(mined[c]) \in Nat
  BY <1>3, <1>4, TypeParts, MinedLength DEF Task
<1>8. c = Source(t) => tx.nonce # taskDoc[t].claim_nonce
  BY <1>5, <1>6, <1>7
<1>9. SentFor(c, tx)'
  BY <1>1, <1>2, <1>3, <1>4, <1>8 DEF SentFor
<1>10. QED
  BY <1>3, <1>9

LEMMA QuerySentFor ==
    ASSUME TypeOK, ClaimInv, NEW s \in Sessions, QueryStep(s)
    PROVE  \A c \in Chains : \A tx \in Sent(c)' : SentFor(c, tx)'
<1>1. ChainsTypeOK /\ ClaimNonceKept
  BY TypeParts, QueryClaimNonce
<1>2. CASE SendClaim(s)
  <2>1. PICK t : t = job[s]
    OBVIOUS
  <2>2. PICK tx : tx = ClaimTx(t, rec[s])
    OBVIOUS
  <2>3. pc[s] \in Holding /\ UNCHANGED taskDoc
    BY <1>2 DEF SendClaim, Holding, storageVars
  <2>4. t \in Tasks /\ Source(t) \in Chains /\ taskDoc[t] # NoDoc
    BY <2>1, <2>3, CopyType, RouteType DEF ClaimInv, KnownTasks
  <2>5. rec[s].claim_nonce = taskDoc[t].claim_nonce
    BY <2>1, <2>3 DEF ClaimInv, BegunCopy
  <2>6. SentFor(Source(t), tx)'
    BY <2>2, <2>3, <2>4, <2>5 DEF SentFor, ClaimTx
  <2>7. Accepts(Source(t), tx) \/ Refuses(Source(t), tx)
    BY <1>2, <2>1, <2>2 DEF SendClaim
  <2>8. QED
    BY <1>1, <2>4, <2>6, <2>7, AcceptsSent, NewSentFor
<1>3. CASE SendStep(s)
  <2>1. PICK t, r : t = job[s] /\ r = rec[s]
    OBVIOUS
  <2>2. PICK tx, c : tx = StepTx(t, r) /\ c = Src(t, r.execute_index)
    OBVIOUS
  <2>3. Accepts(c, tx) \/ Refuses(c, tx)
    BY <1>3, <2>1, <2>2 DEF SendStep
  <2>4. CASE Accepts(c, tx)
    <3>1. c \in Chains /\ SentFor(c, tx)'
      BY <1>3, <2>1, <2>2, <2>4, SendStepFor
    <3>2. QED
      BY <1>1, <2>3, <3>1, AcceptsSent, NewSentFor
  <2>5. CASE Refuses(c, tx)
    <3>1. mined' = mined /\ pool' = pool
      BY <2>5 DEF Refuses, chainVars
    <3>2. QED
      BY <1>1, <3>1, NewSentFor DEF Sent
  <2>6. QED
    BY <2>3, <2>4, <2>5
<1>4. CASE UNCHANGED chainVars
  BY <1>1, <1>4, NewSentFor DEF chainVars, Sent
<1>5. QED
  BY <1>2, <1>3, <1>4
  DEF QueryStep, FetchStep, CopyStep, ExecuteStep, FetchTask, InitTask, ApplyNonce, InsertTask,
      InsertWorker, CheckClaimed, Claim, CheckStep, Settle, CanRun, Run, Destroy, DeleteWorker,
      RpcError, ExecuteTask, ReadTask, SaveTask, Abort, RetryTask, ReapplyNonce, Start

\* A chain includes transactions in the order of their nonces.
LEMMA MinedInOrder ==
    ASSUME TypeOK, [Next]_vars,
           \A c \in Chains : \A n \in 1..Len(mined[c]) : mined[c][n].tx.nonce = n - 1
    PROVE  \A c \in Chains : \A n \in 1..Len(mined'[c]) : mined'[c][n].tx.nonce = n - 1
<1>1. ChainsTypeOK
  BY TypeParts
<1>2. CASE UNCHANGED mined
  BY <1>2
<1>3. ASSUME NEW d \in Chains, NEW tx \in pool[d], Mine(d, tx), NEW c \in Chains,
             NEW n \in 1..Len(mined'[c])
      PROVE  mined'[c][n].tx.nonce = n - 1
  <2>1. CASE c # d
    BY <1>1, <1>3, <2>1, MineAppends
  <2>2. CASE c = d
    <3>1. /\ Len(mined[c]) \in Nat
          /\ Len(mined'[c]) = Len(mined[c]) + 1
          /\ \A m \in 1..Len(mined[c]) : mined'[c][m] = mined[c][m]
          /\ mined'[c][Len(mined[c]) + 1].tx = tx
      BY <1>1, <1>3, <2>2, MineAppends, MinedLength
    <3>2. tx.nonce = Len(mined[c])
      BY <1>3, <2>2 DEF Mine
    <3>3. n \in 1..Len(mined[c]) \/ n = Len(mined[c]) + 1
      BY <3>1
    <3>4. CASE n = Len(mined[c]) + 1
      <4>1. n - 1 = Len(mined[c]) /\ mined'[c][n].tx = tx
        BY <3>1, <3>4
      <4>2. QED
        BY <3>2, <4>1
    <3>5. QED
      BY <3>1, <3>3, <3>4
  <2>3. QED
    BY <2>1, <2>2
<1>4. CASE ChainStep
  BY <1>2, <1>3, <1>4 DEF ChainStep, Evict, Index, Arrive
<1>5. CASE OwnerStep \/ UNCHANGED vars
  BY <1>2, <1>5
  DEF OwnerStep, PauseExecutor, ResumeExecutor, WorkerApprove, WorkerDropTask, OwnerSends,
      Accepts, Refuses, chainVars, vars
<1>6. ASSUME NEW s \in Sessions, QueryStep(s)
      PROVE  UNCHANGED mined
  <2>1. CASE SendClaim(s) \/ SendStep(s)
    BY <2>1 DEF SendClaim, SendStep, Accepts, Refuses, chainVars
  <2>2. CASE UNCHANGED chainVars
    BY <2>2 DEF chainVars
  <2>3. QED
    BY <1>6, <2>1, <2>2
    DEF QueryStep, FetchStep, CopyStep, ExecuteStep, FetchTask, InitTask, ApplyNonce, InsertTask,
        InsertWorker, CheckClaimed, Claim, CheckStep, Settle, CanRun, Run, Destroy, DeleteWorker,
        RpcError, ExecuteTask, ReadTask, SaveTask, Abort, RetryTask, ReapplyNonce, Start
<1>7. QED
  BY <1>2, <1>4, <1>5, <1>6, NextParts DEF QueryStep

LEMMA InitClaim == Init => ClaimInv
<1> SUFFICES ASSUME Init PROVE ClaimInv
  OBVIOUS
<1>1. \A c \in Chains : mined[c] = <<>> /\ pool[c] = {} /\ indexed[c] = 0
  BY DEF Init, ChainsInit
<1>2. \A c \in Chains : Len(mined[c]) = 0
  BY <1>1
<1>3. \A s \in Sessions : pc[s] = "idle"
  BY DEF Init
<1>4. KnownTasks /\ \A t \in Tasks : taskDoc[t] = NoDoc
  BY DEF Init, KnownTasks, WorkerHasTask, Holding
<1>5. \A s \in Sessions : BegunCopy(job[s], rec[s], pc[s])
  BY <1>3 DEF BegunCopy, Holding, PastClaim
<1>6. QED
  BY <1>1, <1>2, <1>4, <1>5 DEF ClaimInv, Sent

\* The environment and the owner, who sends nothing, leave documents and copies alone.
LEMMA OtherStepClaim ==
    ASSUME "owner" \notin Callers, TypeOK, TypeOK', ClaimInv, Grown,
           ChainStep \/ OwnerStep \/ UNCHANGED vars
    PROVE  /\ \A t \in Tasks : taskDoc'[t] # NoDoc => Begun(t, taskDoc[t])' /\ taskDoc'[t] = taskDoc[t]
           /\ \A s \in Sessions : BegunCopy(job[s], rec[s], pc[s])'
           /\ \A c \in Chains : \A tx \in Sent(c)' : SentFor(c, tx)'
<1>1. UNCHANGED <<storageVars, sessionVars>>
  BY DEF ChainStep, OwnerStep, PauseExecutor, ResumeExecutor, WorkerApprove, WorkerDropTask,
         OwnerSends, vars
<1>2. ASSUME NEW t \in Tasks, NEW d, d = taskDoc'[t], d # NoDoc
      PROVE  Begun(t, d)' /\ d = taskDoc[t]
  <2>1. d = taskDoc[t] /\ d \in Task(t) /\ Begun(t, d)
    BY <1>1, <1>2 DEF storageVars, TypeOK, ClaimInv
  <2>2. QED
    BY <2>1, IncludedStays
<1>3. ASSUME NEW s \in Sessions, NEW u, u = job'[s], NEW q, q = rec'[s],
             NEW place, place = pc'[s]
      PROVE  BegunCopy(u, q, place)'
  <2>1. place = pc[s] /\ u = job[s] /\ q = rec[s] /\ BegunCopy(u, q, place)
    BY <1>1, <1>3 DEF sessionVars, ClaimInv
  <2>2. taskDoc' = taskDoc
    BY <1>1 DEF storageVars
  <2>3. CASE place \in Holding \cup {"insertTask"}
    <3>1. u \in Tasks /\ q \in Task(u)
      BY <2>1, <2>3 DEF TypeOK, Holding
    <3>2. QED
      BY <2>1, <2>2, <3>1, BegunCopyStays
  <2>4. CASE place \notin Holding \cup {"insertTask"}
    BY <2>4 DEF BegunCopy, Holding, PastClaim
  <2>5. QED
    BY <2>3, <2>4
<1>4. \A c \in Chains : \A tx \in Sent(c)' : tx \in Sent(c)
  <2>1. CASE ChainStep
    BY <2>1, TypeParts, ChainStepSent
  <2>2. CASE UNCHANGED chainVars
    BY <2>2 DEF chainVars, Sent
  <2>3. QED
    BY <2>1, <2>2 DEF OwnerStep, PauseExecutor, ResumeExecutor, WorkerApprove, WorkerDropTask,
                      OwnerSends, vars
<1>5. \A c \in Chains : \A tx \in Sent(c)' : SentFor(c, tx)'
  BY <1>1, <1>4, UnchangedClaimNonce, NewSentFor DEF storageVars
<1>6. QED
  BY <1>2, <1>3, <1>5

LEMMA NextClaim == Apart /\ TypeOK /\ ClaimInv /\ [Next]_vars => ClaimInv'
<1> SUFFICES ASSUME Apart, TypeOK, ClaimInv, [Next]_vars PROVE ClaimInv'
  OBVIOUS
<1>1. TypeOK' /\ Grown
  BY NextType, NextGrown
<1>2. KnownTasks'
  BY NextKnown DEF ClaimInv
<1>3. \A c \in Chains : indexed'[c] <= Len(mined'[c])
  BY IndexedIncluded DEF ClaimInv
<1>4. \A c \in Chains : \A n \in 1..Len(mined'[c]) : mined'[c][n].tx.nonce = n - 1
  BY MinedInOrder DEF ClaimInv
<1>5. ASSUME NEW s \in Sessions, QueryStep(s)
      PROVE  /\ \A t \in Tasks : taskDoc'[t] # NoDoc => Begun(t, taskDoc[t])'
             /\ \A v \in Sessions : BegunCopy(job[v], rec[v], pc[v])'
             /\ \A c \in Chains : \A tx \in Sent(c)' : SentFor(c, tx)'
  <2>1. \A t \in Tasks : taskDoc'[t] # NoDoc => Begun(t, taskDoc[t])'
    <3>1. ASSUME NEW t \in Tasks, NEW d, d = taskDoc'[t], d # NoDoc
          PROVE  Begun(t, d)'
      BY <1>1, <1>5, <3>1, QueryDocsBegun
    <3>2. QED
      BY <3>1
  <2>2. \A v \in Sessions : BegunCopy(job[v], rec[v], pc[v])'
    <3>1. ASSUME NEW v \in Sessions, NEW u, u = job'[v], NEW q, q = rec'[v],
                 NEW place, place = pc'[v]
          PROVE  BegunCopy(u, q, place)'
      BY <1>1, <1>5, <3>1, QueryCopiesBegun
    <3>2. QED
      BY <3>1
  <2>3. QED
    BY <1>5, <2>1, <2>2, QuerySentFor
<1>6. CASE ChainStep \/ OwnerStep \/ UNCHANGED vars
  BY <1>1, <1>2, <1>3, <1>4, <1>6, OtherStepClaim DEF ClaimInv, Apart
<1>7. CASE \E s \in Sessions : QueryStep(s)
  BY <1>2, <1>3, <1>4, <1>5, <1>7 DEF ClaimInv
<1>8. QED
  BY <1>6, <1>7, NextParts DEF QueryStep

\* Where no two tasks share a chain and the owner sends nothing, has_claimed only accepts a
\* task whose claim was executed, also when retry is called, whatever fails or overlaps: the
\* nonce of the claim never changes, and no step is ever sent with it.
THEOREM ClaimSurvivesRetry == Apart => (Spec => ClaimedMeansClaimed)
<1> SUFFICES ASSUME Apart PROVE Spec => ClaimedMeansClaimed
  OBVIOUS
<1>1. Init => ClaimInv
  BY InitClaim
<1>2. TypeOK /\ ClaimInv /\ [Next]_vars => ClaimInv'
  BY NextClaim
<1>3. TypeOK /\ ClaimInv /\ [Next]_vars
        => [\A s \in Sessions :
              pc[s] = "claimed" /\ pc'[s] = "check" => ClaimedOnChain(job[s])]_vars
  <2> SUFFICES ASSUME TypeOK, ClaimInv, [Next]_vars, NEW s \in Sessions,
                      pc[s] = "claimed", pc'[s] = "check"
               PROVE  ClaimedOnChain(job[s])
    OBVIOUS
  <2>1. Confirmed(Source(job[s]), rec[s].claim_nonce) /\ pc[s] \in Holding
    BY ClaimingStep
  <2>2. QED
    BY <2>1, ConfirmedIncluded DEF ClaimIncluded
<1>4. QED
  BY <1>1, <1>2, <1>3, TaskTypeCorrect, PTL DEF Spec, ClaimedMeansClaimed

-----------------------------------------------------------------------------
(***************************************************************************)
(* When retry is called: the steps.                                        *)
(***************************************************************************)

\* What is confirmed at the nonce a copy has for a step is this step.
LEMMA ConfirmedRan ==
    ASSUME Apart, OwnChains, TypeOK, ClaimInv, NEW s \in Sessions, pc[s] \in Holding,
           NEW i \in Steps(job[s]), Confirmed(Src(job[s], i), rec[s].nonce[i])
    PROVE  Ran(job[s], i)
<1>1. PICK t, r, c, n : t = job[s] /\ r = rec[s] /\ c = Src(t, i) /\ n = r.nonce[i]
  OBVIOUS
<1>2. t \in Tasks /\ r \in Task(t) /\ i \in Steps(t) /\ c \in Chains /\ n \in Nat /\ 1 \in Steps(t)
  BY <1>1, CopyType, RouteType DEF Task
<1>3. PICK m : m = mined[c][n + 1]
  OBVIOUS
<1>4. /\ n + 1 \in 1..Len(mined[c]) /\ n < Len(mined[c])
      /\ m.ok /\ m.tx.nonce = n /\ SentFor(c, m.tx)
  BY <1>1, <1>2, <1>3, ConfirmedReceipt
<1>5. m.tx.task = t
  BY <1>1, <1>2, <1>4, SentForOwn
<1>6. m.tx.kind \in {"claim", "step"} /\ m.tx.step = i
  <2>1. CASE m.tx.kind = "step"
    BY <1>1, <1>2, <1>4, <1>5, <2>1 DEF SentFor, OwnChains
  <2>2. CASE m.tx.kind = "claim"
    <3>1. /\ c = Source(t) /\ n = taskDoc[t].claim_nonce
          /\ m.tx.step = IF c \in Evm THEN 1 ELSE 0
      BY <1>4, <1>5, <2>2 DEF SentFor
    <3>2. i = 1
      BY <1>1, <1>2, <3>1 DEF OwnChains, Source
    <3>3. r.claim_nonce = n /\ (c \notin Evm => n > r.claim_nonce)
      BY <1>1, <3>1, <3>2 DEF ClaimInv, BegunCopy, Begun
    <3>4. c \in Evm
      BY <1>2, <3>3
    <3>5. QED
      BY <2>2, <3>1, <3>2, <3>4
  <2>3. QED
    BY <1>4, <2>1, <2>2 DEF SentFor
<1>7. QED
  BY <1>1, <1>3, <1>4, <1>5, <1>6 DEF Ran

\* A justified record is still one when it is that of the next state.
LEMMA JustifiedNext ==
    ASSUME ChainsTypeOK, Grown, NEW t \in Tasks, NEW r \in Task(t), Justified(t, r)
    PROVE  Justified(t, r)'
  BY JustifiedStays DEF Justified

\* The copy of a query that goes on.
LEMMA CopyStepJustified ==
    ASSUME Apart, OwnChains, TypeOK, ClaimInv, Grown, NEW s \in Sessions, pc[s] \in Holding,
           Follows(s), NEW t, t = job[s], Justified(t, rec[s]), NEW q, q = rec'[s]
    PROVE  Justified(t, q)'
<1> DEFINE r == rec[s]
           L == Len(Route[t])
<1>0. PICK k : k = r.execute_index
  OBVIOUS
<1>1. ChainsTypeOK /\ t \in Tasks /\ r \in Task(t) /\ L \in Nat /\ k \in 1..L
  BY <1>0, CopyType, TypeParts, RouteType DEF Task, Steps
<1>2. /\ \A j \in 1..(k - 1) : Ran(t, j)'
      /\ r.status = "Completed" => \A j \in Steps(t) : Ran(t, j)'
  BY <1>0, <1>1, JustifiedStays
<1>3. CASE Keeps(t, q, r)
  BY <1>0, <1>2, <1>3 DEF Keeps, Justified
<1>4. CASE /\ Finished(t, r)
           /\ \/ q.execute_index = k + 1 /\ q.status = r.status
              \/ q.execute_index = k /\ IsLast(t, r)
  <2>1. Ran(t, k)'
    BY <1>0, <1>1, <1>4, ConfirmedRan, RanStays DEF Finished, Steps
  <2>2. \A j \in 1..k : Ran(t, j)'
    BY <1>1, <1>2, <2>1
  <2>3. IsLast(t, r) => \A j \in Steps(t) : Ran(t, j)'
    BY <1>0, <2>2 DEF IsLast, Steps
  <2>4. \A j \in 1..(q.execute_index - 1) : j \in 1..k
    BY <1>1, <1>4
  <2>5. QED
    BY <1>2, <1>4, <2>2, <2>3, <2>4 DEF Justified
<1>5. QED
  BY <1>0, <1>3, <1>4 DEF Follows

LEMMA OwnCopyTurn ==
    ASSUME Apart, OwnChains, TypeOK, ClaimInv, TurnInv, Grown, NEW s \in Sessions, QueryStep(s),
           NEW u, u = job'[s], NEW q, q = rec'[s], pc'[s] \in Holding \cup {"insertTask"}
    PROVE  Justified(u, q)'
<1>1. ChainsTypeOK
  BY TypeParts
<1>2. CASE CopyStep(s) /\ pc[s] \in Holding /\ Moves(s)
  <2>1. u = job[s] /\ u \in Tasks
    BY <1>2, CopyType DEF Moves, Goto
  <2>2. Justified(u, rec[s])
    BY <1>2, <2>1 DEF TurnInv
  <2>3. Follows(s)
    <3>1. ~Return(s)
      BY ReturnOthers DEF Holding
    <3>2. QED
      BY <1>2, <3>1, CopyStepFollows
  <2>4. QED
    BY <1>2, <2>1, <2>2, <2>3, CopyStepJustified
<1>3. CASE pc'[s] = "insertTask" /\ u = job[s] /\ q = NewTask(u)
  BY <1>3 DEF NewTask, Justified
<1>4. CASE u \in Tasks /\ taskDoc[u] # NoDoc /\ q = taskDoc[u]
  <2>1. q \in Task(u) /\ Justified(u, q)
    BY <1>4 DEF TypeOK, TurnInv
  <2>2. QED
    BY <1>1, <1>4, <2>1, JustifiedNext
<1>5. CASE /\ pc[s] = "reapply" /\ u = job[s]
           /\ q.status = rec[s].status /\ q.execute_index = rec[s].execute_index
  <2>1. PICK r : r = rec[s]
    OBVIOUS
  <2>2. pc[s] \in Holding
    BY <1>5 DEF Holding
  <2>3. u \in Tasks /\ r \in Task(u) /\ Justified(u, r)
    BY <1>5, <2>1, <2>2, CopyType DEF TurnInv
  <2>4. Justified(u, r)'
    BY <1>1, <2>3, JustifiedNext
  <2>5. QED
    BY <1>5, <2>1, <2>4 DEF Justified
<1>6. QED
  BY <1>2, <1>3, <1>4, <1>5, OwnCopy

LEMMA QueryTurn ==
    ASSUME Apart, OwnChains, TypeOK, ClaimInv, TurnInv, Grown, NEW s \in Sessions, QueryStep(s)
    PROVE  /\ \A t \in Tasks : taskDoc'[t] # NoDoc => Justified(t, taskDoc[t])'
           /\ \A v \in Sessions :
                 pc'[v] \in Holding \cup {"insertTask"} => Justified(job[v], rec[v])'
<1>1. ChainsTypeOK
  BY TypeParts
<1>2. ASSUME NEW t \in Tasks, NEW d, d = taskDoc'[t], d # NoDoc
      PROVE  Justified(t, d)'
  <2>1. CASE d = taskDoc[t]
    <3>1. d \in Task(t) /\ Justified(t, d)
      BY <1>2, <2>1 DEF TypeOK, TurnInv
    <3>2. QED
      BY <1>1, <3>1, JustifiedNext
  <2>2. CASE pc[s] \in {"insertTask", "save"} /\ t = job[s] /\ d = rec[s]
    <3>1. d \in Task(t) /\ Justified(t, d)
      BY <2>2 DEF TypeOK, Holding, TurnInv
    <3>2. QED
      BY <1>1, <3>1, JustifiedNext
  <2>3. QED
    BY <1>2, <2>1, <2>2, QueryDocs
<1>3. ASSUME NEW v \in Sessions, NEW u, u = job'[v], NEW q, q = rec'[v],
             pc'[v] \in Holding \cup {"insertTask"}
      PROVE  Justified(u, q)'
  <2>1. CASE v = s
    BY <1>3, <2>1, OwnCopyTurn
  <2>2. CASE v # s
    <3>1. pc[v] \in Holding \cup {"insertTask"} /\ u = job[v] /\ q = rec[v]
      BY <1>3, <2>2, QueryOthers DEF Others
    <3>2. u \in Tasks /\ q \in Task(u) /\ Justified(u, q)
      BY <3>1 DEF TypeOK, Holding, TurnInv
    <3>3. QED
      BY <1>1, <3>2, JustifiedNext
  <2>3. QED
    BY <2>1, <2>2
<1>4. QED
  BY <1>2, <1>3

\* A transaction that had its turn had it.
LEMMA HadTurnStays ==
    ASSUME ChainsTypeOK, Grown, NEW c \in Chains, NEW tx, SentFor(c, tx), HadTurn(tx)
    PROVE  HadTurn(tx)'
<1>1. CASE tx.kind = "step"
  <2>1. tx.task \in Tasks /\ tx.step \in Steps(tx.task) /\ tx.step \in Nat \ {0}
    BY <1>1, RouteType DEF SentFor
  <2>2. tx.step # 1 => tx.step - 1 \in Steps(tx.task)
    BY <2>1, RouteType DEF Steps
  <2>3. IF tx.step = 1 THEN ClaimedOnChain(tx.task)' ELSE Ran(tx.task, tx.step - 1)'
    BY <1>1, <2>1, <2>2, RanStays DEF HadTurn
  <2>4. QED
    BY <2>3 DEF HadTurn
<1>2. CASE tx.kind # "step"
  BY <1>2 DEF HadTurn
<1>3. QED
  BY <1>1, <1>2

LEMMA NewHadTurn ==
    ASSUME ChainsTypeOK, ClaimInv, TurnInv, Grown,
           \A c \in Chains : \A tx \in Sent(c)' : tx \in Sent(c) \/ HadTurn(tx)'
    PROVE  \A c \in Chains : \A tx \in Sent(c)' : HadTurn(tx)'
<1>1. ASSUME NEW c \in Chains, NEW tx \in Sent(c)
      PROVE  HadTurn(tx)'
  BY HadTurnStays DEF ClaimInv, TurnInv
<1>2. QED
  BY <1>1

LEMMA SendStepTurn ==
    ASSUME TypeOK, ClaimInv, TurnInv, Grown, NEW s \in Sessions, SendStep(s),
           NEW t, t = job[s], NEW r, r = rec[s], NEW tx, tx = StepTx(t, r),
           NEW c, c = Src(t, r.execute_index)
    PROVE  c \in Chains /\ HadTurn(tx)'
<1>1. pc[s] \in Holding /\ pc[s] \in PastClaim /\ ChainsTypeOK
  BY TypeParts DEF SendStep, Holding, PastClaim
<1>2. PICK i : i = r.execute_index
  OBVIOUS
<1>3. t \in Tasks /\ r \in Task(t) /\ i \in Steps(t) /\ i \in Nat \ {0} /\ c \in Chains
  BY <1>1, <1>2, CopyType, RouteType DEF Task
<1>4. tx.kind = "step" /\ tx.task = t /\ tx.step = i
  BY <1>2 DEF StepTx
<1>5. ClaimedOnChain(t) /\ Justified(t, r)
  BY <1>1 DEF ClaimInv, BegunCopy, ClaimIncluded, TurnInv
<1>6. i # 1 => i - 1 \in 1..(i - 1) /\ i - 1 \in Steps(t)
  BY <1>3, RouteType DEF Steps
<1>7. ClaimedOnChain(t)' /\ (i # 1 => Ran(t, i - 1)')
  BY <1>1, <1>2, <1>3, <1>5, <1>6, RanStays DEF Justified
<1>8. HadTurn(tx)'
  BY <1>4, <1>7 DEF HadTurn
<1>9. QED
  BY <1>3, <1>8

LEMMA QueryHadTurn ==
    ASSUME TypeOK, ClaimInv, TurnInv, Grown, NEW s \in Sessions, QueryStep(s)
    PROVE  \A c \in Chains : \A tx \in Sent(c)' : HadTurn(tx)'
<1>1. ChainsTypeOK
  BY TypeParts
<1>2. CASE SendClaim(s)
  <2>1. PICK t : t = job[s]
    OBVIOUS
  <2>2. PICK tx : tx = ClaimTx(t, rec[s])
    OBVIOUS
  <2>3. t \in Tasks /\ Source(t) \in Chains
    BY <1>2, <2>1, CopyType, RouteType DEF SendClaim, Holding
  <2>4. HadTurn(tx)'
    BY <2>2 DEF HadTurn, ClaimTx
  <2>5. Accepts(Source(t), tx) \/ Refuses(Source(t), tx)
    BY <1>2, <2>1, <2>2 DEF SendClaim
  <2>6. QED
    BY <1>1, <2>3, <2>4, <2>5, AcceptsSent, NewHadTurn
<1>3. CASE SendStep(s)
  <2>1. PICK t, r : t = job[s] /\ r = rec[s]
    OBVIOUS
  <2>2. PICK tx, c : tx = StepTx(t, r) /\ c = Src(t, r.execute_index)
    OBVIOUS
  <2>3. Accepts(c, tx) \/ Refuses(c, tx)
    BY <1>3, <2>1, <2>2 DEF SendStep
  <2>4. c \in Chains /\ HadTurn(tx)'
    BY <1>3, <2>1, <2>2, SendStepTurn
  <2>5. QED
    BY <1>1, <2>3, <2>4, AcceptsSent, NewHadTurn
<1>4. CASE UNCHANGED chainVars
  BY <1>1, <1>4, NewHadTurn DEF chainVars, Sent
<1>5. QED
  BY <1>2, <1>3, <1>4
  DEF QueryStep, FetchStep, CopyStep, ExecuteStep, FetchTask, InitTask, ApplyNonce, InsertTask,
      InsertWorker, CheckClaimed, Claim, CheckStep, Settle, CanRun, Run, Destroy, DeleteWorker,
      RpcError, ExecuteTask, ReadTask, SaveTask, Abort, RetryTask, ReapplyNonce, Start

LEMMA InitTurn == Init => TurnInv
<1> SUFFICES ASSUME Init PROVE TurnInv
  OBVIOUS
<1>1. \A c \in Chains : mined[c] = <<>> /\ pool[c] = {}
  BY DEF Init, ChainsInit
<1>2. \A c \in Chains : Len(mined[c]) = 0
  BY <1>1
<1>3. QED
  BY <1>1, <1>2 DEF Init, TurnInv, Sent, Holding

LEMMA OtherStepTurn ==
    ASSUME "owner" \notin Callers, TypeOK, ClaimInv, TurnInv, Grown,
           ChainStep \/ OwnerStep \/ UNCHANGED vars
    PROVE  TurnInv'
<1>1. UNCHANGED <<storageVars, sessionVars>> /\ ChainsTypeOK
  BY TypeParts
  DEF ChainStep, OwnerStep, PauseExecutor, ResumeExecutor, WorkerApprove, WorkerDropTask,
      OwnerSends, vars
<1>2. ASSUME NEW t \in Tasks, NEW d, d = taskDoc'[t], d # NoDoc
      PROVE  Justified(t, d)'
  <2>1. d \in Task(t) /\ Justified(t, d)
    BY <1>1, <1>2 DEF storageVars, TypeOK, TurnInv
  <2>2. QED
    BY <1>1, <2>1, JustifiedNext
<1>3. ASSUME NEW s \in Sessions, NEW u, u = job'[s], NEW q, q = rec'[s],
             pc'[s] \in Holding \cup {"insertTask"}
      PROVE  Justified(u, q)'
  <2>1. pc[s] \in Holding \cup {"insertTask"} /\ u = job[s] /\ q = rec[s]
    BY <1>1, <1>3 DEF sessionVars
  <2>2. u \in Tasks /\ q \in Task(u) /\ Justified(u, q)
    BY <2>1 DEF TypeOK, Holding, TurnInv
  <2>3. QED
    BY <1>1, <2>2, JustifiedNext
<1>4. \A c \in Chains : \A tx \in Sent(c)' : tx \in Sent(c)
  <2>1. CASE ChainStep
    BY <1>1, <2>1, ChainStepSent
  <2>2. CASE UNCHANGED chainVars
    BY <2>2 DEF chainVars, Sent
  <2>3. QED
    BY <2>1, <2>2 DEF OwnerStep, PauseExecutor, ResumeExecutor, WorkerApprove, WorkerDropTask,
                      OwnerSends, vars
<1>5. \A c \in Chains : \A tx \in Sent(c)' : HadTurn(tx)'
  BY <1>1, <1>4, NewHadTurn
<1>6. QED
  BY <1>2, <1>3, <1>5 DEF TurnInv

LEMMA NextTurn == Apart /\ OwnChains /\ TypeOK /\ ClaimInv /\ TurnInv /\ [Next]_vars => TurnInv'
<1> SUFFICES ASSUME Apart, OwnChains, TypeOK, ClaimInv, TurnInv, [Next]_vars PROVE TurnInv'
  OBVIOUS
<1>1. Grown
  BY NextGrown
<1>2. ASSUME NEW s \in Sessions, QueryStep(s)
      PROVE  TurnInv'
  BY <1>1, <1>2, QueryTurn, QueryHadTurn DEF TurnInv
<1>3. QED
  BY <1>1, <1>2, OtherStepTurn, NextParts DEF QueryStep, Apart

\* The invariants make it so that ...
LEMMA TurnIsInOrder == TypeOK /\ ClaimInv /\ TurnInv => InOrder
<1> SUFFICES ASSUME TypeOK, ClaimInv, TurnInv, NEW t \in Tasks, NEW i \in Steps(t),
                    NEW n \in 1..Len(mined[Src(t, i)]), IsStep(mined[Src(t, i)][n], t, i)
             PROVE  IF i = 1 THEN ClaimedOnChain(t) ELSE Ran(t, i - 1)
  BY DEF InOrder
<1>1. HadTurn(mined[Src(t, i)][n].tx)
  BY RouteType DEF TurnInv, Sent
<1>2. QED
  BY <1>1 DEF HadTurn, IsStep

\* Where no two tasks and no two steps of a task share a chain and the owner sends nothing,
\* everything the executor takes for done was done, also when retry is called and applies
\* nonces again, whatever fails or overlaps: steps are sent in turn, claims and steps are
\* only accepted when they were executed, and a completed task was executed to its end.
THEOREM EvidenceSurvivesRetry ==
    Apart /\ OwnChains
    => (Spec => []InOrder /\ []CompletedMeansRan /\ FinishedMeansRan /\ ClaimedMeansClaimed)
<1> SUFFICES ASSUME Apart, OwnChains
             PROVE  Spec => []InOrder /\ []CompletedMeansRan /\ FinishedMeansRan
                            /\ ClaimedMeansClaimed
  OBVIOUS
<1>1. Init => ClaimInv /\ TurnInv
  BY InitClaim, InitTurn
<1>2. TypeOK /\ ClaimInv /\ TurnInv /\ [Next]_vars => ClaimInv' /\ TurnInv'
  BY NextClaim, NextTurn
<1>3. TypeOK /\ ClaimInv /\ TurnInv => InOrder
  BY TurnIsInOrder
<1>4. TurnInv => CompletedMeansRan
  BY DEF TurnInv, Justified, CompletedMeansRan
<1>5. TypeOK /\ ClaimInv /\ [Next]_vars
        => [\A s \in Sessions :
              pc[s] = "check" /\ pc'[s] \in {"settle", "destroy"}
              => Ran(job[s], rec[s].execute_index)]_vars
  <2> SUFFICES ASSUME TypeOK, ClaimInv, [Next]_vars, NEW s \in Sessions,
                      pc[s] = "check", pc'[s] \in {"settle", "destroy"}
               PROVE  Ran(job[s], rec[s].execute_index)
    OBVIOUS
  <2>1. Finished(job[s], rec[s])
    BY FinishingStep
  <2>2. rec[s].execute_index \in Steps(job[s]) /\ pc[s] \in Holding
    BY CopyType DEF Holding, Task
  <2>3. QED
    BY <2>1, <2>2, ConfirmedRan DEF Finished
<1>6. Spec => []InOrder /\ []CompletedMeansRan /\ FinishedMeansRan
  BY <1>1, <1>2, <1>3, <1>4, <1>5, TaskTypeCorrect, PTL DEF Spec, FinishedMeansRan
<1>7. QED
  BY <1>6, ClaimSurvivesRetry

-----------------------------------------------------------------------------
(***************************************************************************)
(* The transactions of a task follow each other without a gap.             *)
(***************************************************************************)

\* What apply_nonce counts for a step is one more than what it counts for the step before
\* it on the same chain.
LEMMA StepBefore ==
    ASSUME NEW t \in Tasks, NEW i \in Steps(t), Counted(t, i) # {}
    PROVE  \E j \in Counted(t, i) :
              /\ j \in Steps(t)
              /\ Cardinality(Counted(t, i)) = Cardinality(Counted(t, j)) + 1
<1> DEFINE C == Counted(t, i)
           n == Cardinality(C)
           f == [j \in C |-> Cardinality(Counted(t, j))]
<1>1. \A j \in C : j \in Steps(t) /\ j < i /\ Src(t, j) = Src(t, i) /\ j \in Nat
  BY RouteType DEF Counted, Steps
<1>2. IsFiniteSet(C)
  <2>1. IsFiniteSet(1..(i - 1))
    BY RouteType, FS_Interval
  <2>2. QED
    BY <2>1, FS_Subset DEF Counted
<1>3. n \in Nat \ {0}
  BY <1>2, FS_CardinalityType, FS_EmptySet
<1>4. \A j \in C : Cardinality(Counted(t, j)) \in Nat /\ Cardinality(Counted(t, j)) + 1 <= n
  BY <1>1, CountedGrows
<1>5. ASSUME \A j \in C : n # Cardinality(Counted(t, j)) + 1
      PROVE  FALSE
  <2> HIDE DEF C, n
  <2>1. f \in [C -> 0..(n - 2)]
    BY <1>3, <1>4, <1>5
  <2>2. IsFiniteSet(0..(n - 2)) /\ Cardinality(0..(n - 2)) < n
    <3>1. n - 2 \in Int /\ 0 \in Int
      BY <1>3
    <3>2. IsFiniteSet(0..(n - 2)) /\ Cardinality(0..(n - 2)) = IF 0 > n - 2 THEN 0 ELSE n - 2 - 0 + 1
      BY <3>1, FS_Interval
    <3>3. QED
      BY <1>3, <3>2
  <2>3. PICK j, k \in C : j # k /\ f[j] = f[k]
    <3>1. PICK T, g : T = 0..(n - 2) /\ g = f
      OBVIOUS
    <3>2. g \in [C -> T] /\ IsFiniteSet(T) /\ Cardinality(T) < Cardinality(C)
      BY <2>1, <2>2, <3>1 DEF n
    <3> HIDE DEF f
    <3>3. \E j, k \in C : j # k /\ g[j] = g[k]
      BY <1>2, <3>2, FS_PigeonHole
    <3>4. QED
      BY <3>1, <3>3
  <2>4. Cardinality(Counted(t, j)) = Cardinality(Counted(t, k))
    BY <2>3
  <2>5. ASSUME NEW a \in C, NEW b \in C, a < b
        PROVE  Cardinality(Counted(t, a)) + 1 <= Cardinality(Counted(t, b))
    <3>1. Src(t, a) = Src(t, b)
      BY <1>1
    <3>2. QED
      BY <1>1, <2>5, <3>1, CountedGrows
  <2>6. j < k \/ k < j
    BY <1>1, <2>3
  <2>7. QED
    BY <1>4, <2>4, <2>5, <2>6
<1>6. QED
  BY <1>1, <1>5

\* Where tasks keep to their own chains, nothing waits on the chains of a task that has no
\* document yet.
LEMMA NothingSentBefore ==
    ASSUME Apart, TypeOK, OnceInv, OrderInv, OnlyTasks,
           NEW t \in Tasks, taskDoc[t] = NoDoc, NEW i \in Steps(t)
    PROVE  pool[Src(t, i)] = {} /\ OnchainNonce(Src(t, i)) = Len(mined[Src(t, i)])
<1> DEFINE c == Src(t, i)
<1>1. ChainsTypeOK /\ c \in Chains /\ Len(mined[c]) \in Nat
  BY TypeParts, RouteType, MinedLength
<1>2. ASSUME NEW tx \in pool[c] PROVE FALSE
  <2>1. tx.kind \in {"claim", "step"} /\ Planned(tx) /\ InTurn(c, tx)
    BY <1>1, <1>2 DEF OnlyTasks, OnceInv, OrderInv, NoncesPlanned, SentInTurn, Sent
  <2>2. tx.task \in Tasks /\ taskDoc[tx.task] # NoDoc /\ \E j \in Steps(tx.task) : c = Src(tx.task, j)
    BY <2>1, RouteType DEF Planned, InTurn, Source
  <2>3. QED
    BY <2>2 DEF Apart
<1>3. pool[c] = {} /\ PoolNonces(c) = {}
  BY <1>2 DEF PoolNonces
<1>4. {n \in PoolNonces(c) : n >= Len(mined[c]) /\ Len(mined[c])..n \subseteq PoolNonces(c)} = {}
  BY <1>3
<1>5. QED
  BY <1>1, <1>3, <1>4, FS_EmptySet DEF OnchainNonce

\* A new task takes its nonces without a gap.
LEMMA NewTaskGapless ==
    ASSUME Apart, NeverBack, TypeOK, OnceInv, OrderInv, OnlyTasks,
           NEW t \in Tasks, taskDoc[t] = NoDoc
    PROVE  Gapless(t, NewTask(t))
<1> DEFINE r == NewTask(t)
           L(i) == Len(mined[Src(t, i)])
           k(i) == Cardinality(Counted(t, i))
<1>1. /\ r.claim_nonce = OnchainNonce(Source(t))
      /\ \A i \in Steps(t) : r.nonce[i] = OnchainNonce(Src(t, i)) + k(i)
                                          + (IF Src(t, i) = Source(t) THEN 1 ELSE 0)
  BY DEF NewTask, NonceOf, Counted
<1>2. 1 \in Steps(t) /\ Src(t, 1) = Source(t) /\ Unmerged(t) \subseteq Steps(t)
  BY RouteType DEF Source, Unmerged
<1>3. \A i \in Steps(t) : OnchainNonce(Src(t, i)) = L(i) /\ L(i) \in Nat
  BY TypeParts, RouteType, MinedLength, NothingSentBefore
<1>4. r.claim_nonce = Len(mined[Source(t)]) /\ r.claim_nonce \in Nat
  BY <1>1, <1>2, <1>3
<1> HIDE DEF r
<1>5. ASSUME NEW i \in Unmerged(t)
      PROVE  \/ r.nonce[i] <= L(i)
             \/ Src(t, i) = Source(t) /\ r.nonce[i] = r.claim_nonce + 1
             \/ \E j \in Unmerged(t) :
                   j < i /\ Src(t, j) = Src(t, i) /\ r.nonce[i] = r.nonce[j] + 1
  <2>1. i \in Steps(t)
    BY <1>2
  <2>2. CASE Counted(t, i) = {}
    <3>1. k(i) = 0
      BY <2>2, FS_EmptySet
    <3>2. CASE Src(t, i) = Source(t)
      <4>1. L(i) = r.claim_nonce
        BY <1>4, <3>2
      <4>2. r.nonce[i] = r.claim_nonce + 1
        BY <1>1, <1>3, <1>4, <2>1, <3>1, <3>2, <4>1
      <4>3. QED
        BY <3>2, <4>2
    <3>3. CASE Src(t, i) # Source(t)
      BY <1>1, <1>3, <2>1, <3>1, <3>3
    <3>4. QED
      BY <3>2, <3>3
  <2>3. CASE Counted(t, i) # {}
    <3>1. PICK j \in Counted(t, i) : j \in Steps(t) /\ k(i) = k(j) + 1
      BY <2>1, <2>3, StepBefore
    <3>2. j < i /\ Src(t, j) = Src(t, i) /\ j \in Nat \ {0}
      <4>1. i \in Nat
        BY <2>1, RouteType
      <4>2. QED
        BY <4>1 DEF Counted
    <3>3. k(j) \in Nat
      BY <2>1, <3>1, <3>2, CountedGrows
    <3>4. r.nonce[i] = r.nonce[j] + 1
      <4>1. L(j) = L(i) /\ OnchainNonce(Src(t, j)) = OnchainNonce(Src(t, i))
        BY <3>2
      <4> HIDE DEF k, L
      <4>2. QED
        BY <1>1, <1>3, <2>1, <3>1, <3>2, <3>3, <4>1
    <3>5. j \in Unmerged(t)
      BY <3>1, <3>2 DEF NeverBack, Unmerged, Source
    <3>6. QED
      BY <3>2, <3>4, <3>5
  <2>4. QED
    BY <2>2, <2>3
<1>6. QED
  BY <1>4, <1>5 DEF Gapless, r

\* A plan without a gap stays one while the chains grow and its nonces are the same.
LEMMA GaplessKept ==
    ASSUME ChainsTypeOK, Grown, ChainsTypeOK', NEW t \in Tasks, NEW r \in Task(t), Gapless(t, r),
           NEW q, SameNonces(t, q, r), NEW u, u = t
    PROVE  Gapless(u, q)'
<1>1. ASSUME NEW i \in Steps(t)
      PROVE  /\ Len(mined[Src(t, i)]) \in Nat /\ Len(mined'[Src(t, i)]) \in Nat
             /\ Len(mined[Src(t, i)]) <= Len(mined'[Src(t, i)])
  BY RouteType, MinedLength DEF Grown
<1>2. 1 \in Steps(t) /\ Src(t, 1) = Source(t) /\ Unmerged(t) \subseteq Steps(t)
  BY RouteType DEF Source, Unmerged
<1>3. r.claim_nonce \in Nat /\ \A i \in Steps(t) : r.nonce[i] \in Nat
  BY DEF Task
<1>4. q.claim_nonce = r.claim_nonce /\ \A i \in Unmerged(t) : q.nonce[i] = r.nonce[i]
  BY DEF SameNonces
<1>5. q.claim_nonce <= Len(mined'[Source(t)])
  BY <1>1, <1>2, <1>3, <1>4 DEF Gapless
<1>6. ASSUME NEW i \in Unmerged(t)
      PROVE  \/ q.nonce[i] <= Len(mined'[Src(t, i)])
             \/ Src(t, i) = Source(t) /\ q.nonce[i] = q.claim_nonce + 1
             \/ \E j \in Unmerged(t) :
                   j < i /\ Src(t, j) = Src(t, i) /\ q.nonce[i] = q.nonce[j] + 1
  BY <1>1, <1>2, <1>3, <1>4 DEF Gapless
<1>7. QED
  BY <1>5, <1>6 DEF Gapless

\* A step that was executed has used up its nonce.
LEMMA StepNonceUsed ==
    ASSUME TypeOK, OnceInv, OrderInv, NEW t \in Tasks, NEW j \in Unmerged(t), Ran(t, j)
    PROVE  taskDoc[t] # NoDoc /\ taskDoc[t].nonce[j] < Len(mined[Src(t, j)])
<1> DEFINE c == Src(t, j)
<1>1. j \in Steps(t) /\ j \in Nat \ {0} /\ c \in Chains /\ (Source(t) \in Evm => j # 1)
  BY RouteType DEF Unmerged
<1>2. Len(mined[c]) \in Nat
  BY <1>1, TypeParts, MinedLength
<1>3. PICK n \in 1..Len(mined[c]) :
         /\ mined[c][n].tx.task = t /\ mined[c][n].tx.step = j
         /\ mined[c][n].tx.kind \in {"claim", "step"}
  BY DEF Ran
<1>4. PICK tx : tx = mined[c][n].tx
  OBVIOUS
<1>5. Planned(tx) /\ tx.nonce = n - 1 /\ InTurn(c, tx)
  BY <1>1, <1>4 DEF OnceInv, NoncesPlanned, OrderInv, SentInTurn, Sent
<1>6. tx.kind = "step"
  BY <1>1, <1>3, <1>4, <1>5 DEF InTurn
<1>7. taskDoc[t] # NoDoc /\ taskDoc[t].nonce[j] = n - 1
  BY <1>3, <1>4, <1>5, <1>6 DEF Planned
<1>8. QED
  BY <1>2, <1>7

\* So a step is sent when the nonces before its own are used up.
LEMMA StepSentInSequence ==
    ASSUME TypeOK, OnceInv, OrderInv, GapInv, NEW s \in Sessions, pc[s] = "send",
           NEW t, t = job[s], NEW i, i = rec[s].execute_index
    PROVE  t \in Tasks /\ Src(t, i) \in Chains /\ rec[s].nonce[i] <= Len(mined[Src(t, i)])
<1> DEFINE r == rec[s]
           d == taskDoc[t]
           c == Src(t, i)
<1>1. /\ t \in Tasks /\ r \in Task(t) /\ d # NoDoc /\ d \in Task(t) /\ SameNonces(t, r, d)
      /\ i \in Steps(t) /\ i \in Nat \ {0} /\ c \in Chains /\ Source(t) \in Chains
  BY CopyType, RouteType DEF Holding, OnceInv, KnownTasks, NoncesAgree, TypeOK, Task
<1>2. /\ NoncesInOrder(t, r) /\ ClaimedOnChain(t) /\ \A j \in 1..(i - 1) : Ran(t, j)
  BY DEF OrderInv, CopiesJustified, Justified, Holding, PastClaim
<1>3. d.claim_nonce < Len(mined[Source(t)])
  BY <1>1, <1>2, ClaimNonceUsed
<1>4. /\ d.claim_nonce \in Nat /\ Len(mined[c]) \in Nat /\ Len(mined[Source(t)]) \in Nat
      /\ \A j \in Unmerged(t) : d.nonce[j] \in Nat /\ j \in Nat \ {0}
  BY <1>1, TypeParts, MinedLength, RouteType DEF Task, Unmerged
<1> SUFFICES r.nonce[i] <= Len(mined[c])
  BY <1>1
<1> HIDE DEF r, d, c
<1>5. CASE i \in Unmerged(t)
  <2>1. r.nonce[i] = d.nonce[i] /\ Gapless(t, d)
    BY <1>1, <1>5 DEF SameNonces, GapInv, d
  <2>2. CASE c = Source(t) /\ d.nonce[i] = d.claim_nonce + 1
    BY <1>3, <1>4, <2>1, <2>2
  <2>3. ASSUME NEW j \in Unmerged(t), j < i, Src(t, j) = c, d.nonce[i] = d.nonce[j] + 1
        PROVE  r.nonce[i] <= Len(mined[c])
    <3>1. Ran(t, j)
      BY <1>1, <1>2, <1>4, <2>3
    <3>2. d.nonce[j] < Len(mined[c])
      BY <1>1, <2>3, <3>1, StepNonceUsed DEF d
    <3>3. QED
      BY <1>4, <2>1, <2>3, <3>2
  <2>4. QED
    BY <1>5, <2>1, <2>2, <2>3 DEF Gapless, c
<1>6. CASE i \notin Unmerged(t)
  <2>1. i = 1 /\ Source(t) \in Evm /\ c = Source(t)
    BY <1>1, <1>6 DEF Unmerged, Source, c
  <2>2. r.nonce[1] \in r.claim_nonce..(r.claim_nonce + 1) /\ r.claim_nonce = d.claim_nonce
    BY <1>1, <1>2, <2>1 DEF NoncesInOrder, SameNonces
  <2>3. QED
    BY <1>3, <1>4, <2>1, <2>2
<1>7. QED
  BY <1>1, <1>5, <1>6

\* What is waiting comes next, or is too late.
PoolNext == \A c \in Chains : \A tx \in pool[c] : tx.nonce <= Len(mined[c])

LEMMA AcceptsNext ==
    ASSUME ChainsTypeOK, PoolNext, NEW c \in Chains, NEW tx,
           tx.nonce <= Len(mined[c]), Accepts(c, tx) \/ Refuses(c, tx)
    PROVE  PoolNext'
<1>1. CASE Accepts(c, tx)
  <2>1. mined' = mined /\ \A d \in Chains : \A x \in pool'[d] : x \in pool[d] \/ (d = c /\ x = tx)
    BY <1>1 DEF Accepts, ChainsTypeOK
  <2>2. QED
    BY <2>1 DEF PoolNext
<1>2. CASE Refuses(c, tx)
  BY <1>2 DEF PoolNext, Refuses, chainVars
<1>3. QED
  BY <1>1, <1>2

LEMMA NextPoolNext ==
    ASSUME NoRetry, Apart, TypeOK, OnceInv, OrderInv, GapInv, [Next]_vars
    PROVE  PoolNext'
<1>1. ChainsTypeOK /\ PoolNext
  BY TypeParts DEF GapInv, PoolNext
<1>2. CASE UNCHANGED chainVars
  BY <1>1, <1>2 DEF PoolNext, chainVars
<1>3. ASSUME NEW s \in Sessions, SendClaim(s)
      PROVE  PoolNext'
  <2>1. PICK t, tx : t = job[s] /\ tx = ClaimTx(t, rec[s])
    OBVIOUS
  <2>2. t \in Tasks /\ taskDoc[t] # NoDoc /\ SameNonces(t, rec[s], taskDoc[t])
    BY <1>3, <2>1, CopyType DEF SendClaim, Holding, OnceInv, KnownTasks, NoncesAgree
  <2>3. Source(t) \in Chains /\ tx.nonce <= Len(mined[Source(t)])
    BY <2>1, <2>2, RouteType DEF ClaimTx, GapInv, Gapless, SameNonces
  <2>4. Accepts(Source(t), tx) \/ Refuses(Source(t), tx)
    BY <1>3, <2>1 DEF SendClaim
  <2>5. QED
    BY <1>1, <2>3, <2>4, AcceptsNext
<1>4. ASSUME NEW s \in Sessions, SendStep(s)
      PROVE  PoolNext'
  <2>1. PICK t, i, tx : t = job[s] /\ i = rec[s].execute_index /\ tx = StepTx(t, rec[s])
    OBVIOUS
  <2>2. Src(t, i) \in Chains /\ rec[s].nonce[i] <= Len(mined[Src(t, i)])
    BY <1>4, <2>1, StepSentInSequence DEF SendStep
  <2>3. tx.nonce <= Len(mined[Src(t, i)])
    BY <2>1, <2>2 DEF StepTx
  <2>4. Accepts(Src(t, i), tx) \/ Refuses(Src(t, i), tx)
    BY <1>4, <2>1 DEF SendStep
  <2>5. QED
    BY <1>1, <2>2, <2>3, <2>4, AcceptsNext
<1>5. ASSUME NEW c \in Chains, NEW tx \in pool[c], Mine(c, tx)
      PROVE  PoolNext'
  <2>1. ASSUME NEW d \in Chains, NEW x \in pool'[d]
        PROVE  x.nonce <= Len(mined'[d])
    <3>0. x \in pool[d]
      BY <1>1, <1>5, <2>1, MineAppends
    <3>1. x.nonce <= Len(mined[d]) /\ Len(mined[d]) \in Nat /\ x.nonce \in Nat
      BY <1>1, <3>0, MinedLength DEF PoolNext, ChainsTypeOK, Tx
    <3>2. Len(mined'[d]) = Len(mined[d]) \/ Len(mined'[d]) = Len(mined[d]) + 1
      BY <1>1, <1>5, MineAppends
    <3>3. QED
      BY <3>1, <3>2
  <2>2. QED
    BY <2>1 DEF PoolNext
<1>6. ASSUME NEW c \in Chains, NEW tx \in pool[c], Evict(c, tx)
      PROVE  PoolNext'
  BY <1>1, <1>6 DEF PoolNext, Evict, ChainsTypeOK
<1>7. CASE ChainStep
  <2>1. CASE UNCHANGED <<pool, mined>>
    BY <1>1, <2>1 DEF PoolNext
  <2>2. QED
    BY <1>5, <1>6, <1>7, <2>1 DEF ChainStep, Index, Arrive
<1>8. CASE OwnerStep
  BY <1>2, <1>8 DEF Apart, OwnerStep, PauseExecutor, ResumeExecutor, WorkerApprove,
                    WorkerDropTask, OwnerSends
<1>9. ASSUME NEW s \in Sessions, QueryStep(s)
      PROVE  PoolNext'
  BY <1>2, <1>3, <1>4, <1>9
  DEF QueryStep, FetchStep, CopyStep, ExecuteStep, FetchTask, InitTask, ApplyNonce, InsertTask,
      InsertWorker, CheckClaimed, Claim, CheckStep, Settle, CanRun, Run, Destroy, DeleteWorker,
      RpcError, ExecuteTask, ReadTask, SaveTask, Abort, RetryTask, ReapplyNonce, Start
<1>10. CASE UNCHANGED vars
  BY <1>2, <1>10 DEF vars
<1>11. QED
  BY <1>7, <1>8, <1>9, <1>10, NextParts DEF QueryStep

\* No step of a query makes a gap in the plans.
LEMMA QueryGapless ==
    ASSUME NoRetry, Apart, NeverBack, TypeOK, TypeOK', OnceInv, OrderInv, OnlyTasks, GapInv,
           Grown, NEW s \in Sessions, QueryStep(s)
    PROVE  /\ \A t \in Tasks : taskDoc'[t] # NoDoc => Gapless(t, taskDoc[t])'
           /\ \A u \in Sessions :
                 pc'[u] = "insertTask" /\ taskDoc'[job'[u]] = NoDoc => Gapless(job[u], rec[u])'
<1>1. ChainsTypeOK /\ ChainsTypeOK' /\ PlanKept /\ Others(s)
  BY TypeParts, QueryPlanKept, QueryOthers
<1>2. \A t, r : SameNonces(t, r, r)
  BY DEF SameNonces
<1>3. ASSUME NEW u \in Sessions, pc[u] = "insertTask"
      PROVE  job[u] \in Tasks /\ rec[u] \in Task(job[u])
  BY <1>3 DEF TypeOK, Holding
<1>4. ASSUME NEW t \in Tasks, NEW q, q = taskDoc'[t], q # NoDoc
      PROVE  Gapless(t, q)'
  <2>1. CASE taskDoc[t] # NoDoc
    <3>1. Gapless(t, taskDoc[t]) /\ taskDoc[t] \in Task(t) /\ SameNonces(t, q, taskDoc[t])
      BY <1>1, <1>4, <2>1 DEF GapInv, PlanKept, TypeOK
    <3>2. QED
      BY <1>1, <3>1, GaplessKept
  <2>2. CASE taskDoc[t] = NoDoc
    <3>1. pc[s] = "insertTask" /\ t = job[s] /\ q = rec[s]
      <4>1. InsertTask(s) \/ SaveTask(s)
        BY <1>4, <2>2
        DEF QueryStep, FetchStep, CopyStep, ExecuteStep, FetchTask, InitTask, ApplyNonce,
            InsertWorker, CheckClaimed, Claim, SendClaim, CheckStep, Settle, CanRun, Run,
            SendStep, Destroy, DeleteWorker, RpcError, ExecuteTask, ReadTask, Abort,
            RetryTask, ReapplyNonce, Start, storageVars
      <4>2. ~SaveTask(s)
        <5>1. SaveTask(s) => taskDoc[job[s]] # NoDoc /\ taskDoc' = [taskDoc EXCEPT ![job[s]] = rec[s]]
          BY DEF SaveTask, OnceInv, KnownTasks, Holding
        <5>2. QED
          BY <1>4, <2>2, <5>1 DEF TypeOK
      <4>3. QED
        BY <1>4, <2>2, <4>1, <4>2 DEF InsertTask, TypeOK
    <3>2. Gapless(t, q)
      BY <2>2, <3>1 DEF GapInv
    <3>3. QED
      BY <1>1, <1>2, <1>3, <3>1, <3>2, GaplessKept
  <2>3. QED
    BY <2>1, <2>2
<1>5. ASSUME NEW u \in Sessions, NEW t, t = job'[u], NEW q, q = rec'[u],
             pc'[u] = "insertTask", taskDoc'[t] = NoDoc
      PROVE  Gapless(t, q)'
  <2>1. CASE pc[u] = "insertTask" /\ t = job[u] /\ q = rec[u]
    <3>1. t \in Tasks /\ q \in Task(t) /\ taskDoc[t] = NoDoc
      BY <1>1, <1>3, <1>5, <2>1 DEF PlanKept
    <3>2. Gapless(t, q)
      BY <2>1, <3>1 DEF GapInv
    <3>3. QED
      BY <1>1, <1>2, <3>1, <3>2, GaplessKept
  <2>2. CASE u = s
    <3>1. ApplyNonce(s)
      <4>1. FetchStep(s) => FetchTask(s, job'[s]) \/ InitTask(s) \/ ApplyNonce(s)
                            \/ InsertTask(s) \/ InsertWorker(s)
        BY StartOthers DEF FetchStep, FetchTask
      <4>2. \A p, r : Goto(s, p, r) => pc'[s] = p
        BY GotoOthers
      <4>3. \A o, v, p, r : Start(s, o, v, p, r) => pc'[s] = p
        BY StartOthers
      <4>4. Return(s) => pc'[s] = "idle"
        BY ReturnOthers
      <4>5. ~CopyStep(s)
        BY <1>5, <2>2, <4>4, CopyStepMoves DEF Moves, Holding
      <4>6. ~ExecuteStep(s)
        BY <1>5, <2>2, <4>2, <4>3, <4>4
        DEF ExecuteStep, ExecuteTask, ReadTask, SaveTask, Abort, RetryTask, ReapplyNonce
      <4>7. QED
        BY <1>5, <2>2, <4>1, <4>2, <4>3, <4>4, <4>5, <4>6
        DEF QueryStep, FetchTask, InitTask, InsertTask, InsertWorker
    <3>2. t \in Tasks /\ q = NewTask(t) /\ taskDoc' = taskDoc
      BY <1>5, <2>2, <3>1, GotoOthers DEF ApplyNonce, TypeOK, storageVars
    <3>3. Gapless(t, q) /\ q \in Task(t)
      BY <1>1, <1>5, <3>2, NewTaskGapless, NewTaskType
    <3>4. QED
      BY <1>1, <1>2, <3>2, <3>3, GaplessKept
  <2>3. QED
    BY <1>1, <1>5, <2>1, <2>2 DEF Others
<1>6. QED
  BY <1>4, <1>5

LEMMA NextGap ==
    /\ NoRetry /\ Apart /\ NeverBack
    /\ TypeOK /\ TypeOK' /\ OnceInv /\ OrderInv /\ OnlyTasks /\ GapInv /\ [Next]_vars
    => GapInv'
<1> SUFFICES ASSUME NoRetry, Apart, NeverBack, TypeOK, TypeOK', OnceInv, OrderInv, OnlyTasks,
                    GapInv, [Next]_vars
             PROVE  GapInv'
  OBVIOUS
<1>1. Grown /\ PoolNext' /\ ChainsTypeOK /\ ChainsTypeOK'
  BY NextGrown, NextPoolNext, TypeParts
<1>2. CASE \E s \in Sessions : QueryStep(s)
  BY <1>1, <1>2, QueryGapless DEF GapInv, PoolNext
<1>3. CASE UNCHANGED <<storageVars, sessionVars>>
  <2>1. \A t, r : SameNonces(t, r, r)
    BY DEF SameNonces
  <2>2. ASSUME NEW t \in Tasks, NEW q, q = taskDoc'[t], q # NoDoc
        PROVE  Gapless(t, q)'
    <3>1. q = taskDoc[t] /\ q \in Task(t) /\ Gapless(t, q)
      BY <1>3, <2>2 DEF storageVars, GapInv, TypeOK
    <3>2. QED
      BY <1>1, <2>1, <3>1, GaplessKept
  <2>3. ASSUME NEW u \in Sessions, NEW t, t = job'[u], NEW q, q = rec'[u],
               pc'[u] = "insertTask", taskDoc'[t] = NoDoc
        PROVE  Gapless(t, q)'
    <3>1. t = job[u] /\ q = rec[u] /\ pc[u] = "insertTask" /\ taskDoc[t] = NoDoc
      BY <1>3, <2>3 DEF storageVars, sessionVars
    <3>2. t \in Tasks /\ q \in Task(t) /\ Gapless(t, q)
      BY <3>1 DEF GapInv, TypeOK
    <3>3. QED
      BY <1>1, <2>1, <3>2, GaplessKept
  <2>4. QED
    BY <1>1, <2>2, <2>3 DEF GapInv, PoolNext
<1>4. ChainStep \/ OwnerStep \/ UNCHANGED vars => UNCHANGED <<storageVars, sessionVars>>
  BY DEF ChainStep, OwnerStep, PauseExecutor, ResumeExecutor, WorkerApprove, WorkerDropTask,
         OwnerSends, vars
<1>5. QED
  BY <1>2, <1>3, <1>4, NextParts DEF QueryStep

\* Where tasks keep to their own chains, the owner sends nothing, nobody retries and no EVM
\* task comes back to its source chain, the transactions of a task follow each other
\* without a gap: whatever is evicted, refused or sent again, what waits on a chain can be
\* included next (apply_nonce).
THEOREM NoncesFollow == NoRetry /\ Apart /\ NeverBack => (Spec => []NoNonceGap)
<1> SUFFICES ASSUME NoRetry, Apart, NeverBack PROVE Spec => []NoNonceGap
  OBVIOUS
<1>1. Init => OnceInv /\ OrderInv /\ OnlyTasks /\ GapInv
  <2>1. Init => OnlyTasks /\ GapInv
    BY DEF Init, ChainsInit, OnlyTasks, Sent, GapInv
  <2>2. QED
    BY <2>1, InitOnce, InitOrder
<1>2. TypeOK /\ OnceInv /\ OrderInv /\ OnlyTasks => OwnNonces
  BY ApartOwns
<1>3. /\ TypeOK /\ TypeOK' /\ OnceInv /\ OrderInv /\ OnlyTasks /\ OwnNonces /\ GapInv
      /\ [Next]_vars
      => OnceInv' /\ OrderInv' /\ OnlyTasks' /\ GapInv'
  BY NextOnce, NextOrder, NextOnlyTasks, NextGap DEF Apart
<1>4. TypeOK /\ GapInv => NoNonceGap
  <2> SUFFICES ASSUME TypeOK, GapInv, NEW c \in Chains, NEW tx \in pool[c],
                      NEW n \in Len(mined[c])..tx.nonce
               PROVE  n \in PoolNonces(c)
    BY DEF NoNonceGap
  <2>1. Len(mined[c]) \in Nat /\ tx.nonce \in Nat
    BY TypeParts, MinedLength DEF ChainsTypeOK, Tx
  <2>2. tx.nonce <= Len(mined[c])
    BY DEF GapInv
  <2>3. n = tx.nonce
    BY <2>1, <2>2
  <2>4. QED
    BY <2>3 DEF PoolNonces
<1>5. QED
  BY <1>1, <1>2, <1>3, <1>4, TaskTypeCorrect, PTL DEF Spec
=============================================================================
