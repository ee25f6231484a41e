------------------------------ MODULE Delivery ------------------------------
(***************************************************************************)
(* What becomes of a deposit: a task claimed and executed along its route,  *)
(* with the calls, balances and fees of the actions it names (task.rs,      *)
(* step.rs).  One query runs at a time and transactions that are sent are   *)
(* included; what can happen when they overlap or get lost is the subject   *)
(* of TaskEngine, which keeps assets and calls abstract.  Everything of one *)
(* query of the executor is one step here.                                  *)
(*                                                                         *)
(* Transaction fees are paid from other funds of the worker, and what a     *)
(* protocol takes in native funds from those of the handler; both are added *)
(* up in cost.  The chain of the deposit is that of the first step: the     *)
(* executor takes it from the deposit, and does not compare the two.        *)
(***************************************************************************)
EXTENDS Fees

CONSTANTS
    Routes,    \* sequences of merged steps
    Amount,    \* the deposit
    TxFees,    \* what the gas of an EVM transaction may cost, in 1/10000 USD
    Float,     \* what the worker has beforehand of every asset it spends
    Gifts      \* what somebody may transfer to a recipient, once; 0 is no transfer

ASSUME DeliveryAssumption ==
    /\ Amount \in Nat \ {0} /\ Float \in Nat /\ TxFees \subseteq Nat
    /\ Gifts \subseteq Nat /\ Routes \subseteq Seq(MergedStep) \ {<<>>}

VARIABLES
    route,     \* the merged steps of the task
    txFee,     \* what gas costs
    assets,    \* the registered assets
    approved,  \* ERC20s of the worker that the handler may transfer
    task,      \* the stored task: status, index, fee; spend and origin of each step
    claimed,   \* the claim is included
    pending,   \* the transaction on its way, if any
    ran,       \* what became of each step's transaction
    ledger,    \* the balance of each entry
    transit,   \* funds that are on a bridge
    arrived,   \* what each step has delivered (ghost)
    given,     \* what others have sent to each step's recipient (ghost)
    drawn,     \* the native funds that the handlers have paid, in 1/10000
    cost       \* what the worker and the handlers have paid, in 1/10000 USD (ghost)

world == <<ran, ledger, transit, arrived, drawn, cost>>
vars == <<route, txFee, assets, approved, task, claimed, pending, world, given>>

Steps == 1..Len(route)
Source == route[1][1].src
NoBalance == -1

Credit(l, e, amount) ==
    [x \in DOMAIN l \cup {e} |-> Balance(l, x) + IF x = e THEN amount ELSE 0]

\* The worker's entry that a merged step spends from.
SpentFrom(m) == {TakenFrom(m[1].src, calls[1].params, Worker(m[1].src)) : calls \in DeriveCalls(m)}
Own == UNION {SpentFrom(route[i]) : i \in Steps}

Tx(kind, i, calls, amount) == [kind |-> kind, step |-> i, calls |-> calls, amount |-> amount]

Init ==
    /\ route \in Routes
    /\ txFee \in TxFees
    /\ assets = RegisteredAssets
    /\ approved = {}
    /\ task = [status |-> "Initialized", index |-> 1, fee |-> 0,
               spend |-> [i \in Steps |-> 0], origin |-> [i \in Steps |-> NoBalance]]
    /\ claimed = FALSE
    /\ pending = {}
    /\ ran = [i \in Steps |-> "no"]
    /\ ledger = [e \in Own |-> Float]
    /\ transit = {}
    /\ arrived = [i \in Steps |-> 0]
    /\ given = [i \in Steps |-> 0]
    /\ drawn = [c \in EvmChains |-> 0]
    /\ cost = 0

-----------------------------------------------------------------------------
(***************************************************************************)
(* Claiming.                                                               *)
(***************************************************************************)

\* Slip: a deposit that does not cover the fee is claimed all the same.
Affordable_Always(fee) == TRUE

Affordable(fee) == fee < Amount

\* The balance of the recipient of step i, as far as it can be read.
LatestBalance(i) ==
    CHOOSE balance \in {Balance(ledger, Canonical(e)) : e \in Watched(route[i])} : TRUE

\* The task as claim leaves it.  The first step of an EVM claim is run with it, on what the
\* fee leaves; on a Substrate chain it is run later, on the whole deposit.
ClaimedTask(fee) ==
    IF Source \in EvmChains
    THEN [task EXCEPT !.fee = fee, !.spend[1] = Amount - fee,
                      !.origin[1] = IF Watched(route[1]) = {} THEN @ ELSE LatestBalance(1)]
    ELSE [task EXCEPT !.fee = fee, !.spend[1] = Amount]

\* The calls that go with an EVM claim, if they can be sent: the recipient's balance can be
\* read and the node sees no call revert.
ClaimCalls(fee) ==
    {calls \in DeriveCalls(route[1]) :
        /\ Watched(route[1]) # {}
        /\ HandlerPays(drawn, Source, calls)
        /\ Delivers(Source, calls, Amount - fee) > 0}

\* A claim is repeated until it is included.
Claim ==
    /\ ~claimed /\ ran[1] = "no"
    /\ \E fee \in CalculateFee(assets, ledger, approved, drawn, txFee, route) :
        /\ Affordable(fee)
        /\ task' = ClaimedTask(fee)
        /\ \/ /\ Source \in EvmChains
              /\ ClaimCalls(fee) # {}
              /\ pending' = {Tx("claim", 1, calls, Amount - fee) : calls \in ClaimCalls(fee)}
           \/ /\ Source \in EvmChains
              /\ ClaimCalls(fee) = {}
              /\ UNCHANGED pending
           \/ /\ Source \in SubChains
              /\ pending' = {Tx("claim", 1, <<>>, Amount)}
    /\ UNCHANGED <<route, txFee, assets, approved, claimed, world, given>>

-----------------------------------------------------------------------------
(***************************************************************************)
(* Executing.                                                              *)
(***************************************************************************)
\* Slip: a bridge step counts as finished once its transaction is.
HasFinished_NoBalance(i) == ran[i] = "ok"

\* Slip: a bridge step must deliver all that it was given.
HasFinished_Full(i) ==
    /\ ran[i] = "ok"
    /\ IsBridgeStep(route[i]) => LatestBalance(i) >= task.origin[i] + task.spend[i]

HasFinished(i) ==
    /\ ran[i] = "ok"
    /\ IsBridgeStep(route[i]) => LatestBalance(i) > task.origin[i]

\* Slip: the whole balance is taken for what the step has delivered.
Settle_Balance(i) == LatestBalance(i)

\* Slip: the next step is to spend as much as this one.
Settle_Spent(i) == task.spend[i]

Settle(i) ==
    IF LatestBalance(i) > task.origin[i] THEN LatestBalance(i) - task.origin[i] ELSE 0

\* The calls of step i, if they can be sent: an EVM node has seen no call revert.
Sendable(i, amount) ==
    {calls \in DeriveCalls(route[i]) :
        /\ Watched(route[i]) # {}
        /\ route[i][1].src \in EvmChains => EstimateGas(ledger, approved, drawn, route[i], calls, amount)}

\* Run the current step of task t unless its nonce is used.  The recipient's balance is
\* noted before the transaction is sent; errors leave what was changed before.
ExecuteStep(t) ==
    LET i == t.index
        calls == Sendable(i, t.spend[i])
    IN  IF ran[i] # "no"
        THEN task' = t /\ UNCHANGED pending
        ELSE /\ task' = IF DeriveCalls(route[i]) = {} \/ Watched(route[i]) = {}
                        THEN [t EXCEPT !.status = "Executing"]
                        ELSE [t EXCEPT !.status = "Executing", !.origin[i] = LatestBalance(i)]
             /\ pending' = IF calls = {} THEN pending
                           ELSE {Tx("step", i, c, t.spend[i]) : c \in calls}

RunStep ==
    /\ claimed /\ task.status # "Completed"
    /\ ~HasFinished(task.index)
    /\ ExecuteStep(task)
    /\ UNCHANGED <<route, txFee, assets, approved, claimed, world, given>>

Advance ==
    /\ claimed /\ task.status # "Completed"
    /\ task.index < Len(route) /\ HasFinished(task.index)
    /\ ExecuteStep([task EXCEPT !.index = @ + 1, !.spend[task.index + 1] = Settle(task.index)])
    /\ UNCHANGED <<route, txFee, assets, approved, claimed, world, given>>

Complete ==
    /\ claimed /\ task.status # "Completed"
    /\ task.index = Len(route) /\ HasFinished(task.index)
    /\ task' = [task EXCEPT !.status = "Completed"]
    /\ UNCHANGED <<route, txFee, assets, approved, claimed, pending, world, given>>

-----------------------------------------------------------------------------
(***************************************************************************)
(* The owner of the executor.                                              *)
(***************************************************************************)
RegisterAsset ==
    /\ \E i \in Steps : assets' = assets \cup {<<route[i][1].src, route[i][1].spend>>}
    /\ UNCHANGED <<route, txFee, approved, task, claimed, pending, world, given>>

WorkerApprove ==
    /\ \E i \in Steps :
        /\ route[i][1].src \in EvmChains
        /\ approved' = approved \cup {<<route[i][1].src, route[i][1].spend>>}
    /\ UNCHANGED <<route, txFee, assets, task, claimed, pending, world, given>>

-----------------------------------------------------------------------------
(***************************************************************************)
(* The chains.                                                             *)
(***************************************************************************)

\* The calls of step i have been executed on amount, taken out of ledger l.
Deliver(i, calls, amount, l) ==
    LET c == route[i][1].src
        delivered == Delivers(c, calls, amount)
        call == LastCall(c, calls)
    IN  /\ ran' = [ran EXCEPT ![i] = "ok"]
        /\ IF call.dest = "local"
           THEN /\ ledger' = Credit(l, PaidTo(c, call), delivered)
                /\ arrived' = [arrived EXCEPT ![i] = delivered]
                /\ UNCHANGED transit
           ELSE /\ ledger' = l
                /\ transit' = transit \cup {[step |-> i, entry |-> PaidTo(c, call), amount |-> delivered]}
                /\ UNCHANGED arrived
        /\ IF c \in EvmChains
           THEN /\ drawn' = [drawn EXCEPT ![c] = @ + Values(c, calls)]
                /\ cost' = cost + txFee + Worth(c, Values(c, calls))
           ELSE cost' = cost + SubTxFee /\ UNCHANGED drawn

\* The worker gets the fee of an EVM claim and the whole of a Substrate one.
IncludeClaim ==
    /\ \E tx \in pending, own \in SpentFrom(route[1]) :
        /\ tx.kind = "claim"
        /\ claimed' = TRUE
        /\ IF Source \in EvmChains
           THEN Deliver(1, tx.calls, tx.amount, Credit(ledger, own, Amount - tx.amount))
           ELSE /\ ledger' = Credit(ledger, own, Amount)
                /\ cost' = cost + SubTxFee
                /\ UNCHANGED <<ran, transit, arrived, drawn>>
    /\ pending' = {}
    /\ UNCHANGED <<route, txFee, assets, approved, task, given>>

IncludeStep ==
    /\ \E tx \in pending, own \in SpentFrom(route[task.index]) :
        /\ tx.kind = "step"
        /\ IF /\ Balance(ledger, own) >= tx.amount
              /\ route[tx.step][1].src \in EvmChains =>
                    HandlerPays(drawn, route[tx.step][1].src, tx.calls)
              /\ Delivers(route[tx.step][1].src, tx.calls, tx.amount) > 0
           THEN Deliver(tx.step, tx.calls, tx.amount, Credit(ledger, own, -tx.amount))
           ELSE /\ ran' = [ran EXCEPT ![tx.step] = "failed"]
                /\ UNCHANGED <<ledger, transit, arrived, drawn, cost>>
    /\ pending' = {}
    /\ UNCHANGED <<route, txFee, assets, approved, task, claimed, given>>

Arrive ==
    /\ \E t \in transit :
        /\ ledger' = Credit(ledger, t.entry, t.amount)
        /\ arrived' = [arrived EXCEPT ![t.step] = t.amount]
        /\ transit' = transit \ {t}
    /\ UNCHANGED <<route, txFee, assets, approved, task, claimed, pending, ran, given, drawn, cost>>

\* Somebody else pays the recipient of a step in the same asset.
Gift ==
    /\ \A i \in Steps : given[i] = 0
    /\ \E i \in Steps, amount \in Gifts \ {0} : \E e \in Watched(route[i]) :
        /\ ledger' = Credit(ledger, Canonical(e), amount)
        /\ given' = [given EXCEPT ![i] = amount]
    /\ UNCHANGED <<route, txFee, assets, approved, task, claimed, pending, ran, transit, arrived,
                   drawn, cost>>

-----------------------------------------------------------------------------
Execute == Claim \/ RunStep \/ Advance \/ Complete
ChainStep == IncludeClaim \/ IncludeStep \/ Arrive
Next == Execute \/ ChainStep \/ RegisterAsset \/ WorkerApprove \/ Gift

Spec == Init /\ [][Next]_vars
Fairness == WF_vars(Execute) /\ WF_vars(ChainStep)
FairSpec == Spec /\ Fairness

-----------------------------------------------------------------------------
(***************************************************************************)
(* Properties.                                                             *)
(***************************************************************************)
TypeOK ==
    /\ route \in Routes /\ txFee \in TxFees
    /\ assets \subseteq RegisteredAssets \cup {<<route[i][1].src, route[i][1].spend>> : i \in Steps}
    /\ approved \subseteq {<<route[i][1].src, route[i][1].spend>> : i \in Steps}
    /\ task \in [status : {"Initialized", "Executing", "Completed"}, index : Steps, fee : Nat,
                spend : [Steps -> Nat], origin : [Steps -> Nat \cup {NoBalance}]]
    /\ claimed \in BOOLEAN
    /\ \A tx \in pending : tx.kind \in {"claim", "step"} /\ tx.step = task.index /\ tx.amount \in Nat
    /\ ran \in [Steps -> {"no", "ok", "failed"}]
    /\ \A e \in DOMAIN ledger : ledger[e] \in Nat
    /\ \A t \in transit : t.step \in Steps /\ t.amount \in Nat \ {0}
    /\ arrived \in [Steps -> Nat] /\ given \in [Steps -> Nat]
    /\ drawn \in [EvmChains -> Nat] /\ cost \in Nat

\* What the current step delivers is seen by the executor: the balance it reads for the
\* step's asset and recipient grows by it.  The tables of assets, actions and networks have
\* to agree for that (get_balance of chain.rs, actions/, registry.rs), and the earlier balance
\* has to be read before the transaction is sent (sync_origin_balance).
ArrivalIsSeen ==
    LET i == task.index
    IN  arrived[i] > 0 /\ Watched(route[i]) # {} =>
            LatestBalance(i) >= task.origin[i] + arrived[i]

\* A step spends what its predecessor has delivered, neither less nor any of the worker's own
\* funds, unless somebody else pays the same account meanwhile; then at most that much more
\* (MultiStep::settle, set_spend).
SpendsWhatArrived ==
    \A i \in 1..(task.index - 1) :
        /\ task.spend[i + 1] <= arrived[i] + given[i]
        /\ given[i] = 0 => task.spend[i + 1] = arrived[i]

\* No funds ever reach an account that nobody holds the key of (to_array cuts and pads
\* addresses, h160_to_sr25519_pub maps them).
NothingToNobody ==
    \A e \in DOMAIN ledger \cup {t.entry : t \in transit} :
        Owned(e.account) /\ Length(e.account) = FormOf(e.chain)

\* A completed task that nobody else has paid into has delivered the whole deposit less the
\* fee and the swaps' cost to the recipient of its last step; the worker has kept the fee of an
\* EVM claim and otherwise what it had, and no handler or bridge holds anything.
IsSwap(s) == s.dst = s.src /\ s.spend # s.receive /\ {s.spend, s.receive} # {NativeAsset[s.src], Wrapped[s.src]}
Swaps ==
    Cardinality({at \in Steps \X (1..U8) :
        LET m == route[at[1]] IN at[2] <= Len(m) /\ m[at[2]].src \in EvmChains /\ IsSwap(m[at[2]])})
Deducted == IF Source \in EvmChains THEN task.fee ELSE 0
Had(e) == (IF e \in Own THEN Float ELSE 0) + (IF e \in SpentFrom(route[1]) THEN Deducted ELSE 0)
CompletedPays ==
    task.status = "Completed" /\ (\A i \in Steps : given[i] = 0) =>
        /\ transit = {}
        /\ \E final \in {Canonical(e) : e \in Watched(route[Len(route)])} :
            /\ Balance(ledger, final) - Had(final) >= Amount - Deducted - Swaps * (Amount \div SwapFee)
            /\ \A e \in DOMAIN ledger \ {final} : ledger[e] = Had(e)

\* Once a task is claimed, none of its steps is refused for anything but a balance that cannot
\* be read: pricing the claim has built and estimated every step (calculate_fee, simulate).
ClaimedCanRun ==
    \A i \in Steps :
        claimed /\ i = task.index /\ ran[i] = "no" /\ Watched(route[i]) # {} /\ task.status = "Executing" =>
            Sendable(i, task.spend[i]) # {}

\* No transaction that was sent fails: the worker has what it spends, and every call of a batch
\* gets what the one before has yielded (derive_calls, call indices).
NothingReverts == \A i \in Steps : ran[i] # "failed"

\* The fee kept of an EVM claim is worth what the whole route has cost, up to one unit of the
\* asset: the gas the worker pays, and what Sygma takes, which the handler pays
\* (calculate_fee, get_extra_info, sygma.rs:240; actions/mod.rs:14 says that the worker does).
FeeCoversCost ==
    task.status = "Completed" /\ Source \in EvmChains =>
        LET price == GetPrice(Source, route[1][1].spend)
        IN  task.fee * price + price > Unit * cost

\* A claimed task whose recipients' balances can be read is completed in the end.
EventuallyDelivered ==
    (claimed /\ \A i \in Steps : Watched(route[i]) # {}) ~> (task.status = "Completed")
=============================================================================
