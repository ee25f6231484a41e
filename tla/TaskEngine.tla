----------------------------- MODULE TaskEngine -----------------------------
(***************************************************************************)
(* The execution of cross-chain tasks by one worker account: task.rs,      *)
(* step.rs and the fetch, execute and retry queries of lib.rs, over the    *)
(* chains of module Chains and the storage of module AuditLog.             *)
(*                                                                         *)
(* A query is a session: it works on a copy of the task document and every *)
(* read of a chain or of the storage, every transaction it submits and     *)
(* every document it writes is a step of its own, so sessions interleave   *)
(* there.  The scheduler and any other caller may start several at once.   *)
(*                                                                         *)
(* Reads that follow each other without a write between them are one step  *)
(* where they concern one decision: the nonces of all chains in            *)
(* apply_nonce, the nonce and the indexer in has_claimed, the indexer and  *)
(* the balance in has_finished, the balance and the estimation in run.     *)
(*                                                                         *)
(* Steps are numbered from 1 (execute_index + 1).  Left out: what no code  *)
(* reads back (fee, claim_tx, execute_txs, the nonce inside the status),   *)
(* the price of a task, and the registry, which does not change while      *)
(* tasks run.                                                              *)
(***************************************************************************)
EXTENDS Chains

CONSTANTS
    Sessions,   \* queries that may run at the same time
    Callers,    \* which of the optional callers act: "retry" and "owner"
    MaxRetry,   \* 100 in task.rs
    MaxNonce,   \* bound of the model: nonces on a chain that retry and owner use up
    NoBalance,  \* Option::None of origin_balance
    NoDoc       \* the document does not exist

VARIABLES
    paused,     \* is_paused of the contract
    taskDoc,    \* the task documents of the storage
    workerDoc,  \* the document of the worker account: the task it executes
    pc,         \* where a session is; "idle" when no query runs in it
    op,         \* the query: "fetch", "execute" or "retry"
    job,        \* the task the session works on
    rec         \* its copy of the task document

sessionVars == <<pc, op, job, rec>>
storageVars == <<taskDoc, workerDoc>>
vars == <<chainVars, paused, storageVars, sessionVars>>

\* struct Task with the nonce, spend_amount and origin_balance of its steps.
Task(t) ==
    [status : {"Initialized", "Executing", "Completed"},
     at : 0..Len(Route[t]),                \* the index inside Executing
     claim_nonce : Nat,
     nonce : [Steps(t) -> Nat],
     spend : [Steps(t) -> Nat],
     origin : [Steps(t) -> Nat \cup {NoBalance}],
     execute_index : Steps(t),
     retry_counter : 0..MaxRetry]

ASSUME TaskEngineAssumption ==
    /\ MaxRetry \in Nat /\ MaxNonce \in Nat
    /\ NoBalance \notin Nat
    /\ \A t \in Tasks : NoDoc \notin Task(t)

\* The places where a session holds a copy of an existing task document.
Holding == {"claimed", "claim", "sendClaim", "check", "settle", "canRun", "run", "send",
            "destroy", "delete", "reapply", "save"}

TypeOK ==
    /\ ChainsTypeOK
    /\ paused \in BOOLEAN
    /\ taskDoc = [t \in Tasks |-> taskDoc[t]]
    /\ \A t \in Tasks : taskDoc[t] \in Task(t) \cup {NoDoc}
    /\ workerDoc \in Tasks \cup {NoTask}
    /\ pc \in [Sessions -> Holding \cup {"idle", "readTask", "init", "applyNonce",
                                         "insertTask", "insertWorker"}]
    /\ op \in [Sessions -> {"none", "fetch", "execute", "retry"}]
    /\ job \in [Sessions -> Tasks \cup {NoTask}]
    /\ rec = [s \in Sessions |-> rec[s]]
    /\ \A s \in Sessions :
          /\ pc[s] # "idle" => job[s] \in Tasks
          /\ pc[s] \in Holding \cup {"insertTask"} => rec[s] \in Task(job[s])
          /\ pc[s] = "settle" => rec[s].execute_index > 1

Init ==
    /\ ChainsInit
    /\ paused = TRUE
    /\ taskDoc = [t \in Tasks |-> NoDoc]
    /\ workerDoc = NoTask
    /\ pc = [s \in Sessions |-> "idle"]
    /\ op = [s \in Sessions |-> "none"]
    /\ job = [s \in Sessions |-> NoTask]
    /\ rec = [s \in Sessions |-> NoDoc]

-----------------------------------------------------------------------------
\* A session starts query o on task t with copy r, ...
Start(s, o, t, p, r) ==
    /\ pc[s] = "idle"
    /\ ~paused
    /\ pc' = [pc EXCEPT ![s] = p]
    /\ op' = [op EXCEPT ![s] = o]
    /\ job' = [job EXCEPT ![s] = t]
    /\ rec' = [rec EXCEPT ![s] = r]
    /\ UNCHANGED <<chainVars, paused, storageVars>>

\* ... goes on at p with copy r, ...
Goto(s, p, r) ==
    /\ pc' = [pc EXCEPT ![s] = p]
    /\ rec' = [rec EXCEPT ![s] = r]
    /\ UNCHANGED <<paused, op, job>>

\* ... or returns.
Return(s) ==
    /\ pc' = [pc EXCEPT ![s] = "idle"]
    /\ op' = [op EXCEPT ![s] = "none"]
    /\ job' = [job EXCEPT ![s] = NoTask]
    /\ rec' = [rec EXCEPT ![s] = NoDoc]
    /\ UNCHANGED paused

\* An error in Task::execute is logged and the copy is saved all the same; in
\* retry it ends the query.
Fail(s, r) == IF op[s] = "execute" THEN Goto(s, "save", r) ELSE Return(s)

-----------------------------------------------------------------------------
(***************************************************************************)
(* run(Fetch): take an active task from the handler, apply nonces to it    *)
(* and put it in the storage.                                              *)
(***************************************************************************)

FetchTask(s, t) ==
    /\ Active(t)
    /\ Start(s, "fetch", t, "init", NoDoc)

\* Task::init reads the task document: it applies nonces to a new task, and
\* puts a known one back to execution if it is still to be claimed.
InitTask(s) ==
    LET known == taskDoc[job[s]]
    IN  /\ pc[s] = "init"
        /\ \/ known = NoDoc /\ Goto(s, "applyNonce", NoDoc)
           \/ known # NoDoc /\ known.status = "Initialized" /\ Goto(s, "insertWorker", NoDoc)
           \/ known # NoDoc /\ known.status # "Initialized" /\ Return(s)
        /\ UNCHANGED <<chainVars, storageVars>>

\* Slip: the counter of a chain goes up before its value is used.
NonceOf_CountsItself(t, i, first, claiming) ==
    OnchainNonce(Src(t, i))
    + Cardinality({j \in first..i : Src(t, j) = Src(t, i)})
    + (IF claiming /\ Src(t, i) = Source(t) THEN 1 ELSE 0)

\* Slip: the steps before it on the same chain are not counted.
NonceOf_NoCount(t, i, first, claiming) ==
    OnchainNonce(Src(t, i)) + (IF claiming /\ Src(t, i) = Source(t) THEN 1 ELSE 0)

\* The nonce apply_nonce gives to step i when it starts at step `first`: the
\* chain's own, plus one for the claim and for every earlier step from `first` on
\* that is sent on the same chain.
NonceOf(t, i, first, claiming) ==
    OnchainNonce(Src(t, i))
    + Cardinality({j \in first..(i - 1) : Src(t, j) = Src(t, i)})
    + (IF claiming /\ Src(t, i) = Source(t) THEN 1 ELSE 0)

\* A task as to_task builds it, with the nonces of init.
NewTask(t) ==
    [status |-> "Initialized", at |-> 0,
     claim_nonce |-> OnchainNonce(Source(t)),
     nonce |-> [i \in Steps(t) |-> NonceOf(t, i, 1, TRUE)],
     spend |-> [i \in Steps(t) |-> 0],
     origin |-> [i \in Steps(t) |-> NoBalance],
     execute_index |-> 1,
     retry_counter |-> 0]

\* Slip: the worker document is written before the task document.
ApplyNonce_WorkerFirst(s) ==
    /\ pc[s] = "applyNonce"
    /\ Goto(s, "insertWorker", NewTask(job[s]))
    /\ UNCHANGED <<chainVars, storageVars>>

ApplyNonce(s) ==
    /\ pc[s] = "applyNonce"
    /\ Goto(s, "insertTask", NewTask(job[s]))
    /\ UNCHANGED <<chainVars, storageVars>>

\* Slip: the document is written whether it exists or not.
InsertTask_Upsert(s) ==
    /\ pc[s] = "insertTask"
    /\ taskDoc' = [taskDoc EXCEPT ![job[s]] = rec[s]]
    /\ Goto(s, "insertWorker", NoDoc)
    /\ UNCHANGED <<chainVars, workerDoc>>

\* client.insert(task.id): fails when the document exists by now.
InsertTask(s) ==
    /\ pc[s] = "insertTask"
    /\ \/ /\ taskDoc[job[s]] = NoDoc
          /\ taskDoc' = [taskDoc EXCEPT ![job[s]] = rec[s]]
          /\ Goto(s, "insertWorker", NoDoc)
       \/ /\ taskDoc[job[s]] # NoDoc
          /\ UNCHANGED taskDoc
          /\ Return(s)
    /\ UNCHANGED <<chainVars, workerDoc>>

\* client.insert(worker): fails when the worker executes a task already.
InsertWorker(s) ==
    /\ pc[s] = "insertWorker"
    /\ workerDoc' = IF workerDoc = NoTask THEN job[s] ELSE workerDoc
    /\ Return(s)
    /\ UNCHANGED <<chainVars, taskDoc>>

-----------------------------------------------------------------------------
(***************************************************************************)
(* run(Execute): one round of Task::execute on the worker's task.          *)
(***************************************************************************)

\* execute_task reads the worker document, ...
ExecuteTask(s) ==
    /\ workerDoc # NoTask
    /\ Start(s, "execute", workerDoc, "readTask", NoDoc)

\* ... then the task it names.
ReadTask(s) ==
    /\ pc[s] = "readTask"
    /\ \/ taskDoc[job[s]] # NoDoc /\ Goto(s, "claimed", taskDoc[job[s]])
       \/ taskDoc[job[s]] = NoDoc /\ Return(s)
    /\ UNCHANGED <<chainVars, storageVars>>

\* has_claimed
CheckClaimed(s) ==
    LET r == rec[s]
        source == Source(job[s])
    IN  /\ pc[s] = "claimed"
        /\ \/ /\ OnchainNonce(source) <= r.claim_nonce
              /\ Goto(s, "claim", r)
           \/ /\ OnchainNonce(source) > r.claim_nonce
              /\ IF Confirmed(source, r.claim_nonce)
                 THEN Goto(s, "check", r)
                 ELSE Fail(s, r)      \* "ClaimFailed"
        /\ UNCHANGED <<chainVars, storageVars>>

\* Slip: the claim takes the nonce the chain has when it is sent.
ClaimTx_FreshNonce(t, r) ==
    LET evm == Source(t) \in Evm
    IN  [kind |-> "claim", task |-> t,
         step |-> IF evm THEN 1 ELSE 0,
         spend |-> IF evm THEN r.spend[1] ELSE 0,
         nonce |-> OnchainNonce(Source(t))]

ClaimTx(t, r) ==
    LET evm == Source(t) \in Evm
    IN  [kind |-> "claim", task |-> t,
         step |-> IF evm THEN 1 ELSE 0,
         spend |-> IF evm THEN r.spend[1] ELSE 0,
         nonce |-> r.claim_nonce]

\* Slip: the first step is not given its amount before the claim runs it.
Claim_NoSpend(s) ==
    LET r == rec[s]
        t == job[s]
        synced == [r EXCEPT !.origin[1] = bal[t][1]]
    IN  /\ pc[s] = "claim"
        /\ \/ Source(t) \notin Evm /\ Goto(s, "sendClaim", r)
           \/ /\ Source(t) \in Evm
              /\ IF Estimates(Source(t), ClaimTx(t, synced))
                 THEN Goto(s, "sendClaim", synced)
                 ELSE Fail(s, synced)
           \/ /\ Source(t) \in Evm
              /\ "rpcError" \in Faults
              /\ Fail(s, r)
        /\ UNCHANGED <<chainVars, storageVars>>

\* claim_evm_actived_tasks: set_spend, sync_origin_balance of the first step and
\* the estimation.  claim_sub_actived_tasks does none of them before it sends.
Claim(s) ==
    LET r == rec[s]
        t == job[s]
        spent == [r EXCEPT !.spend[1] = Amount]
        synced == [spent EXCEPT !.origin[1] = bal[t][1]]
    IN  /\ pc[s] = "claim"
        /\ \/ Source(t) \notin Evm /\ Goto(s, "sendClaim", r)
           \/ /\ Source(t) \in Evm
              /\ IF Estimates(Source(t), ClaimTx(t, synced))
                 THEN Goto(s, "sendClaim", synced)
                 ELSE Fail(s, synced)      \* "GasEstimateFailed"
           \/ /\ Source(t) \in Evm
              /\ "rpcError" \in Faults      \* get_balance fails
              /\ Fail(s, spent)
        /\ UNCHANGED <<chainVars, storageVars>>

\* On an EVM chain the first step runs with the claim and gets its nonce.
Claimed(t, r) ==
    IF Source(t) \in Evm
    THEN [r EXCEPT !.nonce[1] = r.claim_nonce]
    ELSE [r EXCEPT !.spend[1] = Amount]

SendClaim(s) ==
    LET t == job[s]
        tx == ClaimTx(t, rec[s])
    IN  /\ pc[s] = "sendClaim"
        /\ \/ Accepts(Source(t), tx) /\ Goto(s, "save", Claimed(t, rec[s]))
           \/ Refuses(Source(t), tx) /\ Fail(s, rec[s])
           \/ /\ "lostReply" \in Faults
              /\ Accepts(Source(t), tx)
              /\ Fail(s, rec[s])
        /\ UNCHANGED storageVars

\* Slip: a bridge counts as finished when its transaction is confirmed.
Finished_OnConfirm(t, r) == Confirmed(Src(t, r.execute_index), r.nonce[r.execute_index])

\* has_finished of the current step, for the nonce of the copy.
Finished(t, r) ==
    LET i == r.execute_index
    IN  /\ Confirmed(Src(t, i), r.nonce[i])
        /\ Bridge(t, i) => bal[t][i] > r.origin[i]

MissingOriginReserve(t, r) ==
    LET i == r.execute_index
    IN  /\ Confirmed(Src(t, i), r.nonce[i])
        /\ Bridge(t, i) /\ r.origin[i] = NoBalance

\* Slip: off by one.
IsLast_Late(t, r) == r.execute_index = Len(Route[t]) + 1

IsLast(t, r) == r.execute_index = Len(Route[t])

CheckStep(s) ==
    LET r == rec[s]
        t == job[s]
        last == IsLast(t, r)
    IN  /\ pc[s] = "check"
        /\ IF MissingOriginReserve(t, r) THEN Fail(s, r)
           ELSE \/ /\ Finished(t, r) /\ last
                   /\ Goto(s, "destroy", [r EXCEPT !.status = "Completed", !.at = 0])
                \/ /\ Finished(t, r) /\ ~last
                   /\ Goto(s, "settle", [r EXCEPT !.execute_index = @ + 1,
                                                  !.retry_counter = 0])
                \/ /\ ~Finished(t, r) /\ r.retry_counter < MaxRetry
                   /\ Goto(s, "canRun", [r EXCEPT !.retry_counter = @ + 1])
                \/ /\ ~Finished(t, r) /\ r.retry_counter >= MaxRetry
                   /\ Fail(s, r)      \* "TooManyRetry"
        /\ UNCHANGED <<chainVars, storageVars>>

\* Slip: the current step is settled.
Settle_Current(s) ==
    LET r == rec[s]
        i == r.execute_index
        before == r.origin[i]
        now == bal[job[s]][i]
    IN  /\ pc[s] = "settle"
        /\ IF before = NoBalance THEN Fail(s, r)
           ELSE Goto(s, "canRun",
                     [r EXCEPT !.spend[i] = IF now > before THEN now - before ELSE 0])
        /\ UNCHANGED <<chainVars, storageVars>>

\* settle of the step before, and set_spend of the current one.
Settle(s) ==
    LET r == rec[s]
        i == r.execute_index
        before == r.origin[i - 1]
        now == bal[job[s]][i - 1]
    IN  /\ pc[s] = "settle"
        /\ IF before = NoBalance THEN Fail(s, r)      \* "MissingBalance"
           ELSE Goto(s, "canRun",
                     [r EXCEPT !.spend[i] = IF now > before THEN now - before ELSE 0])
        /\ UNCHANGED <<chainVars, storageVars>>

\* execute_step: can_run, whose errors count as "not runnable" ...
CanRun(s) ==
    LET r == rec[s]
        i == r.execute_index
    IN  /\ pc[s] = "canRun"
        /\ \/ /\ OnchainNonce(Src(job[s], i)) <= r.nonce[i]
              /\ Goto(s, "run", [r EXCEPT !.status = "Executing", !.at = i])
           \/ /\ OnchainNonce(Src(job[s], i)) > r.nonce[i] \/ "rpcError" \in Faults
              /\ Goto(s, "save", r)
        /\ UNCHANGED <<chainVars, storageVars>>

StepTx(t, r) ==
    LET i == r.execute_index
    IN  [kind |-> "step", task |-> t, step |-> i, spend |-> r.spend[i], nonce |-> r.nonce[i]]

\* ... then run: sync_origin_balance, the estimation ...
Run(s) ==
    LET t == job[s]
        i == rec[s].execute_index
        synced == [rec[s] EXCEPT !.origin[i] = bal[t][i]]
    IN  /\ pc[s] = "run"
        /\ IF Estimates(Src(t, i), StepTx(t, synced))
           THEN Goto(s, "send", synced)
           ELSE Fail(s, synced)      \* "FailedToEstimateGas"
        /\ UNCHANGED <<chainVars, storageVars>>

\* ... and the submission.
SendStep(s) ==
    LET r == rec[s]
        chain == Src(job[s], r.execute_index)
        tx == StepTx(job[s], r)
    IN  /\ pc[s] = "send"
        /\ \/ Accepts(chain, tx) /\ Goto(s, "save", r)
           \/ Refuses(chain, tx) /\ Fail(s, r)
           \/ /\ "lostReply" \in Faults
              /\ Accepts(chain, tx)
              /\ Fail(s, r)
        /\ UNCHANGED storageVars

\* Task::destroy: the worker must have a document, ...
Destroy(s) ==
    /\ pc[s] = "destroy"
    /\ \/ workerDoc # NoTask /\ Goto(s, "delete", rec[s])
       \/ workerDoc = NoTask /\ Return(s)      \* "FailedToDestoryTask"
    /\ UNCHANGED <<chainVars, storageVars>>

\* ... which is deleted.
DeleteWorker(s) ==
    /\ pc[s] = "delete"
    /\ workerDoc' = NoTask
    /\ Goto(s, "save", rec[s])
    /\ UNCHANGED <<chainVars, taskDoc>>

\* The closing client.update of execute_task and of retry.
SaveTask(s) ==
    /\ pc[s] = "save"
    /\ taskDoc' = [taskDoc EXCEPT ![job[s]] = rec[s]]
    /\ Return(s)
    /\ UNCHANGED <<chainVars, workerDoc>>

-----------------------------------------------------------------------------
(***************************************************************************)
(* retry, and the owner's messages.                                        *)
(***************************************************************************)

\* Nonces are left for a transaction the task execution did not plan.
NoncesLeft == \A c \in Chains : Len(mined[c]) + Cardinality(pool[c]) < MaxNonce

\* Anybody may call retry; it does nothing to a task that is not Executing.
RetryTask(s, t) ==
    /\ "retry" \in Callers
    /\ NoncesLeft
    /\ taskDoc[t] # NoDoc
    /\ taskDoc[t].status = "Executing"
    /\ Start(s, "retry", t, "reapply", taskDoc[t])

\* retry_counter = 0 and reapply_nonce from the index in the status.
ReapplyNonce(s) ==
    LET r == rec[s]
        t == job[s]
        source == Source(t)
        claiming == OnchainNonce(source) <= r.claim_nonce
    IN  /\ pc[s] = "reapply"
        /\ IF ~claiming /\ ~Confirmed(source, r.claim_nonce)
           THEN Return(s)      \* "ClaimFailed"
           ELSE Goto(s, "canRun",
                     [r EXCEPT
                        !.retry_counter = 0,
                        !.claim_nonce = IF claiming THEN OnchainNonce(source) ELSE @,
                        !.nonce = [i \in Steps(t) |->
                                     IF i >= r.at THEN NonceOf(t, i, r.at, claiming)
                                     ELSE @[i]]])
        /\ UNCHANGED <<chainVars, storageVars>>

PauseExecutor ==
    /\ "owner" \in Callers
    /\ ~paused
    /\ paused' = TRUE
    /\ UNCHANGED <<chainVars, storageVars, sessionVars>>

ResumeExecutor ==
    /\ paused
    /\ paused' = FALSE
    /\ UNCHANGED <<chainVars, storageVars, sessionVars>>

\* gov.rs estimates, and sends with the nonce the node has for the account.
OwnerSends(c, kind, t) ==
    LET tx == [kind |-> kind, task |-> t, step |-> 0, spend |-> 0, nonce |-> Len(mined[c])]
    IN  /\ "owner" \in Callers
        /\ paused
        /\ c \in Evm
        /\ NoncesLeft
        /\ Estimates(c, tx)
        /\ Accepts(c, tx) \/ Refuses(c, tx)
        /\ UNCHANGED <<paused, storageVars, sessionVars>>

WorkerApprove(c)  == OwnerSends(c, "approve", NoTask)
WorkerDropTask(t) == OwnerSends(Source(t), "drop", t)

-----------------------------------------------------------------------------
(***************************************************************************)
(* Faults: a query may be cut off anywhere, which is also what an error of *)
(* the storage does to it (a write whose reply is lost is the write and    *)
(* then the cut), and an error of a chain while nonces are applied; a      *)
(* chain or the indexer may be out of reach.                               *)
(***************************************************************************)

Abort(s) ==
    /\ "abort" \in Faults
    /\ pc[s] # "idle"
    /\ Return(s)
    /\ UNCHANGED <<chainVars, storageVars>>

RpcError(s) ==
    /\ "rpcError" \in Faults
    /\ pc[s] \in {"claimed", "claim", "sendClaim", "check", "settle", "run", "send"}
    /\ Fail(s, rec[s])
    /\ UNCHANGED <<chainVars, storageVars>>

-----------------------------------------------------------------------------
SessionStep(s) ==
    \/ InitTask(s) \/ ApplyNonce(s) \/ InsertTask(s) \/ InsertWorker(s)
    \/ ReadTask(s) \/ CheckClaimed(s) \/ Claim(s) \/ SendClaim(s)
    \/ CheckStep(s) \/ Settle(s) \/ CanRun(s) \/ Run(s) \/ SendStep(s)
    \/ Destroy(s) \/ DeleteWorker(s) \/ SaveTask(s) \/ ReapplyNonce(s)

ChainStep ==
    /\ \/ \E c \in Chains : \/ \E tx \in pool[c] : Mine(c, tx) \/ Evict(c, tx)
                            \/ Index(c)
       \/ \E tx \in transit : Arrive(tx)
    /\ UNCHANGED <<paused, storageVars, sessionVars>>

OwnerStep ==
    \/ PauseExecutor \/ ResumeExecutor
    \/ \E c \in Chains : WorkerApprove(c)
    \/ \E t \in Tasks : WorkerDropTask(t)

Next ==
    \/ \E s \in Sessions :
          \/ \E t \in Tasks : FetchTask(s, t) \/ RetryTask(s, t)
          \/ ExecuteTask(s)
          \/ SessionStep(s)
          \/ Abort(s) \/ RpcError(s)
    \/ ChainStep
    \/ OwnerStep

Spec == Init /\ [][Next]_vars
=============================================================================
