--------------------------- MODULE TaskProperties ---------------------------
(***************************************************************************)
(* What the execution of tasks guarantees, under which conditions, and     *)
(* what comments in the code say it does.                                  *)
(***************************************************************************)
EXTENDS TaskEngine

\* m is the receipt of a transaction for step i of t.
IsStep(m, t, i) == m.tx.task = t /\ m.tx.kind = "step" /\ m.tx.step = i

\* m is the receipt of a transaction claiming t.
IsClaim(m, t) == m.tx.task = t /\ m.tx.kind = "claim"

\* The nonces the merge of the first step with an EVM claim does not change.
Unmerged(t) == {i \in Steps(t) : i > 1 \/ Source(t) \notin Evm}

\* However queries overlap, are cut off, re-send or overwrite each other's
\* documents: the worker has at most one transaction included for each step
\* after the first, and at most one claim (init inserts the document with its
\* nonces once, and execute only re-sends with the nonce applied there).
AtMostOnce ==
    \A t \in Tasks :
        /\ \A i \in Unmerged(t) : \A m, n \in 1..Len(mined[Src(t, i)]) :
              IsStep(mined[Src(t, i)][m], t, i) /\ IsStep(mined[Src(t, i)][n], t, i) => m = n
        /\ \A m, n \in 1..Len(mined[Source(t)]) :
              IsClaim(mined[Source(t)][m], t) /\ IsClaim(mined[Source(t)][n], t) => m = n

\* The worker executes a task the storage knows: init writes the task document
\* before the worker document.
WorkerHasTask == workerDoc # NoTask => taskDoc[workerDoc] # NoDoc

\* No step is on a chain before the step it depends on was executed
\* successfully, the first not before the claim (has_claimed, has_finished).
InOrder ==
    \A t \in Tasks : \A i \in Steps(t) :
        (\E n \in 1..Len(mined[Src(t, i)]) : IsStep(mined[Src(t, i)][n], t, i))
        => IF i = 1 THEN ClaimedOnChain(t) ELSE Ran(t, i - 1)

\* A task is only declared Completed when all its steps were executed ("Last
\* step of task has been executed successfully on dest chain", task.rs:38).
CompletedMeansRan ==
    \A t \in Tasks :
        (taskDoc[t] # NoDoc /\ taskDoc[t].status = "Completed")
        => \A i \in Steps(t) : Ran(t, i)

\* A completed task has delivered the whole deposit to the recipient of its last
\* step and left nothing with the worker.
PaidInFull ==
    \A t \in Tasks :
        (taskDoc[t] # NoDoc /\ taskDoc[t].status = "Completed")
        => \A i \in 0..Len(Route[t]) : bal[t][i] = IF i = Len(Route[t]) THEN Amount ELSE 0

\* task.rs:229: "Note this method assume that the last step has been settled": a step
\* after the first runs with the amount settled for it, however queries overlap, as
\* long as no endpoint fails between the two (then the copy is saved with the next
\* index and the initial amount 0).
RunsSettled ==
    \A s \in Sessions :
        pc[s] = "run" /\ rec[s].execute_index > 1
        => rec[s].spend[rec[s].execute_index] > 0

\* The transactions of the worker follow each other without a gap: what is in a
\* pool can be included as soon as what is before it is (apply_nonce counts the
\* nonces of a chain up by one, the EVM claim and the first step share one).
NoNonceGap ==
    \A c \in Chains : \A tx \in pool[c] :
        (Len(mined[c])..tx.nonce) \subseteq PoolNonces(c)

-----------------------------------------------------------------------------
(***************************************************************************)
(* Why AtMostOnce and WorkerHasTask hold: an inductive invariant.  The     *)
(* nonces of a task are applied once, before its document is inserted;     *)
(* every copy, every later document and every transaction has the same.    *)
(***************************************************************************)

\* A document that is worked on, or that the worker points to, exists.
KnownTasks ==
    /\ \A s \in Sessions :
          pc[s] \in Holding \cup {"insertWorker"} => taskDoc[job[s]] # NoDoc
    /\ WorkerHasTask

\* Task records r and q of t have the same nonces, but for the merged step's.
SameNonces(t, r, q) ==
    /\ r.claim_nonce = q.claim_nonce
    /\ \A i \in Unmerged(t) : r.nonce[i] = q.nonce[i]

NoncesAgree ==
    \A s \in Sessions :
        pc[s] \in Holding => SameNonces(job[s], rec[s], taskDoc[job[s]])

\* tx has the nonce its task's document plans for it.
Planned(tx) ==
    tx.kind \in {"claim", "step"} =>
        /\ tx.task \in Tasks
        /\ taskDoc[tx.task] # NoDoc
        /\ tx.kind = "claim" => tx.nonce = taskDoc[tx.task].claim_nonce
        /\ tx.kind = "step" /\ tx.step \in Unmerged(tx.task)
              => tx.nonce = taskDoc[tx.task].nonce[tx.step]

NoncesPlanned ==
    \A c \in Chains :
        /\ \A tx \in pool[c] : Planned(tx)
        /\ \A n \in 1..Len(mined[c]) : Planned(mined[c][n].tx) /\ mined[c][n].tx.nonce = n - 1

\* Nobody retries.
NoRetry == "retry" \notin Callers

OnceInv ==
    /\ KnownTasks
    /\ \A s \in Sessions : pc[s] # "reapply"
    /\ NoncesAgree
    /\ NoncesPlanned

-----------------------------------------------------------------------------
(***************************************************************************)
(* Why InOrder and CompletedMeansRan hold: a receipt at a nonce of the     *)
(* plan is taken for the claim or the step that has this nonce, so the     *)
(* plan gives no nonce twice, and what has it belongs to the task.         *)
(***************************************************************************)

\* The nonces on chain c that the document of t may use.  The first step of an
\* EVM task also keeps its own one until the claim is recorded.
PlannedOn(t, c) ==
    {taskDoc[t].nonce[i] : i \in {j \in Unmerged(t) : Src(t, j) = c}}
    \cup (IF c = Source(t)
          THEN taskDoc[t].claim_nonce..(taskDoc[t].claim_nonce + IF c \in Evm THEN 1 ELSE 0)
          ELSE {})

\* No transaction of governance or of another task has taken a nonce planned for t.
OwnNonces ==
    \A t \in Tasks : \A c \in Chains : \A n \in 1..Len(mined[c]) :
        taskDoc[t] # NoDoc /\ (n - 1) \in PlannedOn(t, c)
        => mined[c][n].tx.task = t /\ mined[c][n].tx.kind \in {"claim", "step"}

\* The owner sends nothing and no two tasks use the same chain.
Apart ==
    /\ "owner" \notin Callers
    /\ \A t, u \in Tasks : \A i \in Steps(t), j \in Steps(u) :
          Src(t, i) = Src(u, j) => t = u

\* The nonces of a task record go up with the steps of a chain, all after the claim's.
NoncesInOrder(t, r) ==
    LET merged == IF Source(t) \in Evm THEN 1 ELSE 0
    IN  /\ \A i, j \in Unmerged(t) : i < j /\ Src(t, i) = Src(t, j) => r.nonce[i] < r.nonce[j]
        /\ \A i \in Unmerged(t) : Src(t, i) = Source(t) => r.nonce[i] > r.claim_nonce + merged
        /\ Source(t) \in Evm => r.nonce[1] \in r.claim_nonce..(r.claim_nonce + 1)

\* What a task record says was executed was.
Justified(t, r) ==
    /\ \A j \in 1..(r.execute_index - 1) : Ran(t, j)
    /\ r.status = "Completed" => \A j \in Steps(t) : Ran(t, j)

\* A transaction is on the chain of its step, which is not before its turn.
InTurn(c, tx) ==
    /\ tx.kind = "claim" =>
          c = Source(tx.task) /\ tx.step = IF c \in Evm THEN 1 ELSE 0
    /\ tx.kind = "step" =>
          /\ tx.step \in Steps(tx.task) /\ c = Src(tx.task, tx.step)
          /\ IF tx.step = 1 THEN ClaimedOnChain(tx.task) ELSE Ran(tx.task, tx.step - 1)
          /\ tx.step \notin Unmerged(tx.task) => tx.nonce = taskDoc[tx.task].claim_nonce + 1

\* What the worker has on chain c, included or waiting.
Sent(c) == pool[c] \cup {mined[c][n].tx : n \in 1..Len(mined[c])}

\* Where a query has found the claim confirmed.
PastClaim == {"check", "settle", "canRun", "run", "send"}

DocsJustified ==
    \A t \in Tasks : taskDoc[t] # NoDoc =>
        NoncesInOrder(t, taskDoc[t]) /\ Justified(t, taskDoc[t])

CopiesJustified ==
    \A s \in Sessions :
        /\ pc[s] \in Holding \cup {"insertTask"} =>
              NoncesInOrder(job[s], rec[s]) /\ Justified(job[s], rec[s])
        /\ pc[s] \in PastClaim => ClaimedOnChain(job[s])

SentInTurn == \A c \in Chains : \A tx \in Sent(c) : InTurn(c, tx)

OrderInv ==
    /\ \A c \in Chains : indexed[c] <= Len(mined[c])
    /\ DocsJustified
    /\ CopiesJustified
    /\ SentInTurn

-----------------------------------------------------------------------------
(***************************************************************************)
(* Why they also hold when retry applies nonces again: the nonce of the    *)
(* claim never changes, since execution begins after it, and a new plan    *)
(* meets old transactions, but none of another step if every step has a    *)
(* chain to itself.                                                        *)
(***************************************************************************)

\* No two steps of a task are sent on one chain.
OwnChains == \A t \in Tasks : \A i, j \in Steps(t) : Src(t, i) = Src(t, j) => i = j

\* The claim of r was executed, and its nonce is used up.
ClaimIncluded(t, r) == ClaimedOnChain(t) /\ r.claim_nonce < Len(mined[Source(t)])

\* Execution only begins after the claim, whose nonce a step on its chain cannot have.
Begun(t, r) ==
    /\ r.status # "Initialized" => ClaimIncluded(t, r)
    /\ Source(t) \notin Evm => r.nonce[1] > r.claim_nonce

BegunCopy(t, r, place) ==
    /\ place \in Holding => r.claim_nonce = taskDoc[t].claim_nonce
    /\ place \in Holding \cup {"insertTask"} => Begun(t, r)
    /\ place \in PastClaim \cup {"reapply"} => ClaimIncluded(t, r)

\* A transaction belongs to a task and is on the chain of the claim or of its step; the
\* claim has the nonce planned for it, and no step has.
SentFor(c, tx) ==
    /\ tx.kind \in {"claim", "step"} /\ tx.task \in Tasks /\ taskDoc[tx.task] # NoDoc
    /\ tx.kind = "claim" =>
          /\ c = Source(tx.task) /\ tx.step = IF c \in Evm THEN 1 ELSE 0
          /\ tx.nonce = taskDoc[tx.task].claim_nonce
    /\ tx.kind = "step" =>
          /\ tx.step \in Steps(tx.task) /\ c = Src(tx.task, tx.step)
          /\ c = Source(tx.task) => tx.nonce # taskDoc[tx.task].claim_nonce

ClaimInv ==
    /\ KnownTasks
    /\ \A c \in Chains : indexed[c] <= Len(mined[c])
    /\ \A t \in Tasks : taskDoc[t] # NoDoc => Begun(t, taskDoc[t])
    /\ \A s \in Sessions : BegunCopy(job[s], rec[s], pc[s])
    /\ \A c \in Chains :
          /\ \A tx \in Sent(c) : SentFor(c, tx)
          /\ \A n \in 1..Len(mined[c]) : mined[c][n].tx.nonce = n - 1

\* A step was sent when the claim or the step before it had been executed.
HadTurn(tx) ==
    tx.kind = "step" =>
        IF tx.step = 1 THEN ClaimedOnChain(tx.task) ELSE Ran(tx.task, tx.step - 1)

TurnInv ==
    /\ \A t \in Tasks : taskDoc[t] # NoDoc => Justified(t, taskDoc[t])
    /\ \A s \in Sessions :
          pc[s] \in Holding \cup {"insertTask"} => Justified(job[s], rec[s])
    /\ \A c \in Chains : \A tx \in Sent(c) : HadTurn(tx)

-----------------------------------------------------------------------------
(***************************************************************************)
(* Why NoNonceGap holds: the nonces of a plan follow each other, and a     *)
(* transaction is sent when those before it are included.                  *)
(***************************************************************************)

\* No EVM task comes back to its source chain, where the merge of the claim with the
\* first step leaves one of their two nonces unused.
NeverBack == \A t \in Tasks : Source(t) \in Evm => \A i \in Unmerged(t) : Src(t, i) # Source(t)

\* On each chain the plan r of t begins where the worker's transactions end, and goes on
\* without a gap.
Gapless(t, r) ==
    /\ r.claim_nonce <= Len(mined[Source(t)])
    /\ \A i \in Unmerged(t) :
          \/ r.nonce[i] <= Len(mined[Src(t, i)])
          \/ Src(t, i) = Source(t) /\ r.nonce[i] = r.claim_nonce + 1
          \/ \E j \in Unmerged(t) :
                j < i /\ Src(t, j) = Src(t, i) /\ r.nonce[i] = r.nonce[j] + 1

GapInv ==
    /\ \A c \in Chains : \A tx \in pool[c] : tx.nonce <= Len(mined[c])
    /\ \A t \in Tasks : taskDoc[t] # NoDoc => Gapless(t, taskDoc[t])
    /\ \A s \in Sessions :
          pc[s] = "insertTask" /\ taskDoc[job[s]] = NoDoc => Gapless(job[s], rec[s])

-----------------------------------------------------------------------------
(***************************************************************************)
(* Claims of comments in the code.                                         *)
(***************************************************************************)

\* traits.rs:24: "Only when the transaction was successfully executed, it can
\* return `true`", of has_finished.
FinishedMeansRan ==
    [][\A s \in Sessions :
          pc[s] = "check" /\ pc'[s] \in {"settle", "destroy"}
          => Ran(job[s], rec[s].execute_index)]_vars

\* lib.rs:242 and 269: "To avoid race condiction happened on `nonce`, we should
\* make sure no task will be executed": with the executor paused for governance
\* transactions, has_claimed still only accepts a task whose claim succeeded.
ClaimedMeansClaimed ==
    [][\A s \in Sessions :
          pc[s] = "claimed" /\ pc'[s] = "check" => ClaimedOnChain(job[s])]_vars

-----------------------------------------------------------------------------
(***************************************************************************)
(* What a depositor sees: the chains and the status of the task.           *)
(***************************************************************************)

\* Step i has been executed on funds.
TookFunds(t, i) ==
    \E n \in 1..Len(mined[Src(t, i)]) :
        LET m == mined[Src(t, i)][n]
        IN  m.ok /\ m.tx.task = t /\ m.tx.step = i /\ m.tx.spend > 0

\* The funds of t on its accounts are the deposit in one piece, or none.
AllAt(t, i) == \A j \in 0..Len(Route[t]) : bal[t][j] = IF j = i THEN Amount ELSE 0
NoneLeft(t) == \A j \in 0..Len(Route[t]) : bal[t][j] = 0

\* How far the deposit of t has come and where it is.
Deposit(t) ==
    LET taken == Cardinality({i \in Steps(t) : TookFunds(t, i)})
        bridged == {tx \in transit : tx.task = t /\ tx.spend > 0}
    IN  [taken |-> taken,
         where |->
            CASE ~ClaimedOnChain(t) /\ NoneLeft(t) -> "handler"
              [] ClaimedOnChain(t) /\ bridged = {} /\ AllAt(t, taken) -> "account"
              [] /\ NoneLeft(t) /\ Cardinality(bridged) = 1
                 /\ \A tx \in bridged : tx.spend = Amount /\ tx.step = taken -> "bridge"
              [] OTHER -> "scattered"]

Promise ==
    INSTANCE Journey WITH
        Length    <- [t \in Tasks |-> Len(Route[t])],
        Bridges   <- [t \in Tasks |-> {i \in Steps(t) : Bridge(t, i)}],
        Merged    <- {t \in Tasks : Source(t) \in Evm},
        deposit   <- [t \in Tasks |-> Deposit(t)],
        completed <- {t \in Tasks : taskDoc[t] # NoDoc /\ taskDoc[t].status = "Completed"}

\* Whatever fails, overlaps, is sent again by retry or shares the worker: the deposit stays
\* in one piece and only goes on along its route, from one step to the next (set_spend
\* before the claim, settle and the estimation together).
KeepsToRoute ==
    [][\A t \in Tasks :
          Deposit(t)' = Deposit(t) \/ Deposit(t)' \in Promise!Onward(t, Deposit(t))]_vars

\* However queries overlap, are cut off, lose replies or save old copies, and whichever
\* transactions revert: the deposit goes along the route in one piece, takes every step
\* once and in order, and the task is declared completed at the end only (execute,
\* settle, claim and the nonces of init together).
ImplementsJourney == Promise!Spec

-----------------------------------------------------------------------------
(***************************************************************************)
(* Why the deposit keeps to its route: every transaction spends all of it  *)
(* or nothing, so it never splits.                                         *)
(***************************************************************************)

\* The transactions that have the deposit of t on a bridge.
Bridged(t) == {tx \in transit : tx.task = t /\ tx.spend > 0}

\* The deposit of t has taken its first i steps and nothing else.
TookUpTo(t, i) == \A j \in Steps(t) : TookFunds(t, j) <=> j <= i

Unclaimed(t) == ~ClaimedOnChain(t) /\ TookUpTo(t, 0) /\ NoneLeft(t) /\ Bridged(t) = {}

OnAccount(t, i) == ClaimedOnChain(t) /\ TookUpTo(t, i) /\ AllAt(t, i) /\ Bridged(t) = {}

OnBridge(t, i) ==
    /\ ClaimedOnChain(t) /\ TookUpTo(t, i) /\ NoneLeft(t) /\ Bridge(t, i)
    /\ \E tx \in transit : Bridged(t) = {tx} /\ tx.spend = Amount /\ tx.step = i

\* An EVM claim takes the first step at once.
InOnePiece(t) ==
    \/ Unclaimed(t)
    \/ Source(t) \notin Evm /\ OnAccount(t, 0)
    \/ \E i \in Steps(t) : OnAccount(t, i) \/ OnBridge(t, i)

\* What a task record remembers of amounts is the deposit or nothing.
AllOrNothing(t, r) ==
    \A i \in Steps(t) : r.spend[i] \in {0, Amount} /\ r.origin[i] \in {0, Amount, NoBalance}

\* ... and so is what a transaction on chain c spends, a claim's what the task brings along.
Spends(c, tx) ==
    CASE tx.kind = "claim" -> /\ tx.task \in Tasks /\ c = Source(tx.task)
                              /\ tx.step  = (IF c \in Evm THEN 1 ELSE 0)
                              /\ tx.spend = (IF c \in Evm THEN Amount ELSE 0)
      [] tx.kind = "step"  -> /\ tx.task \in Tasks /\ tx.step \in Steps(tx.task)
                              /\ c = Src(tx.task, tx.step) /\ tx.spend \in {0, Amount}
      [] OTHER             -> tx.step = 0 /\ tx.spend = 0

FundsInv ==
    /\ \A t \in Tasks : InOnePiece(t)
    /\ \A t \in Tasks : taskDoc[t] # NoDoc => AllOrNothing(t, taskDoc[t])
    /\ \A s \in Sessions :
          /\ pc[s] \in Holding \cup {"insertTask"} => AllOrNothing(job[s], rec[s])
          /\ pc[s] = "sendClaim" /\ Source(job[s]) \in Evm => rec[s].spend[1] = Amount
    /\ \A c \in Chains : \A tx \in Sent(c) : Spends(c, tx)

-----------------------------------------------------------------------------
(***************************************************************************)
(* Why a step after the first runs with what the one before delivered: a   *)
(* bridge counts as finished when its funds are there, and from then on    *)
(* only this step takes them, at its nonce.                                *)
(***************************************************************************)

\* Every step but the last is a bridge.
BridgesFirst == \A t \in Tasks : \A i \in Steps(t) : i < Len(Route[t]) => Bridge(t, i)

\* The current step of r has the deposit to spend, or its nonce is used up.
Settled(t, r) ==
    LET i == r.execute_index
    IN  i > 1 => r.spend[i] = Amount \/ r.nonce[i] < Len(mined[Src(t, i)])

\* ... in a copy too, but for the moment when it has gone on to that step and the amount
\* is still to be settled: then it is there.
SettledCopy(t, r, place) ==
    LET i == r.execute_index
    IN  /\ place \in (Holding \ {"settle"}) \cup {"insertTask"} => Settled(t, r)
        /\ place = "settle" =>
              /\ r.origin[i - 1] = 0
              /\ bal[t][i - 1] = Amount \/ r.nonce[i] < Len(mined[Src(t, i)])
        /\ place \in {"run", "send"} /\ i > 1 => r.spend[i] = Amount

SettledInv ==
    /\ \A t \in Tasks : taskDoc[t] # NoDoc => Settled(t, taskDoc[t])
    /\ \A s \in Sessions : SettledCopy(job[s], rec[s], pc[s])
    /\ \A c \in Chains : \A tx \in Sent(c) :
          tx.kind = "step" /\ tx.step > 1 => tx.spend = Amount

\* The last step of every task is a bridge.
EndsOnBridge == \A t \in Tasks : Bridge(t, Len(Route[t]))

\* The last step of every task is a bridge, follows another step or runs with an EVM claim:
\* what it spends does not hang on the reply to a Substrate claim.
LastIsFunded ==
    \A t \in Tasks :
        Bridge(t, Len(Route[t])) \/ Len(Route[t]) > 1 \/ Source(t) \in Evm

\* Who is declared completed is paid, and stays so.
Paid(t, r) == r.status = "Completed" => AllAt(t, Len(Route[t]))

PaidInv ==
    /\ \A t \in Tasks : taskDoc[t] # NoDoc => Paid(t, taskDoc[t])
    /\ \A s \in Sessions :
          pc[s] \in Holding \cup {"insertTask"} => Paid(job[s], rec[s])

-----------------------------------------------------------------------------
(***************************************************************************)
(* Why a task is also paid when retry runs its steps again: one that runs  *)
(* without the deposit runs after the step has taken it.                   *)
(***************************************************************************)

\* The current step of r has the deposit to spend, or has taken it.
Funded(t, r) ==
    LET i == r.execute_index
    IN  i > 1 => r.spend[i] = Amount \/ TookFunds(t, i)

\* ... in a copy, too; when the amount is still to be settled, it is there.
FundedCopy(t, r, place) ==
    LET i == r.execute_index
    IN  /\ place \in (Holding \ {"settle"}) \cup {"insertTask"} => Funded(t, r)
        /\ place = "settle" =>
              r.origin[i - 1] = 0 /\ (bal[t][i - 1] = Amount \/ TookFunds(t, i))

FundedInv ==
    /\ \A t \in Tasks : taskDoc[t] # NoDoc => Funded(t, taskDoc[t])
    /\ \A s \in Sessions : FundedCopy(job[s], rec[s], pc[s])
    /\ \A c \in Chains : \A tx \in Sent(c) :
          tx.kind = "step" /\ tx.step > 1 => tx.spend = Amount \/ TookFunds(tx.task, tx.step)

-----------------------------------------------------------------------------
(***************************************************************************)
(* Liveness.  The scheduler calls run(Fetch) and run(Execute) for every    *)
(* worker again and again, so both start infinitely often although they    *)
(* compete for the sessions; a query that started goes on; chains,         *)
(* indexers and bridges make progress; the owner resumes the executor.     *)
(***************************************************************************)
Fairness ==
    /\ WF_vars(ResumeExecutor)
    /\ \A s \in Sessions :
          /\ SF_vars(ExecuteTask(s))
          /\ \A t \in Tasks : SF_vars(FetchTask(s, t))
          /\ WF_vars(SessionStep(s))
    /\ WF_vars(ChainStep)

FairSpec == Spec /\ Fairness

\* The status the document of t has at the end.
Completed(t) == taskDoc[t] # NoDoc /\ taskDoc[t].status = "Completed"

\* While queries do not overlap, nothing fails and the source chain is a Substrate
\* one, every deposited task is fetched, claimed, executed to its last step, declared
\* Completed, and its worker is released (lib.rs:540 "a query operation that scheduler
\* invokes periodically").
EventuallyCompleted ==
    \A t \in Tasks : <>(Completed(t) /\ workerDoc # t)
=============================================================================
