------------------------- MODULE DeliveryProperties -------------------------
(***************************************************************************)
(* What Delivery's properties rest on: conditions on the routes, which say  *)
(* that the tables of assets, actions and networks fit together, and the    *)
(* inductive invariants.                                                   *)
(***************************************************************************)
EXTENDS Delivery

-----------------------------------------------------------------------------
(***************************************************************************)
(* Conditions on a route r.                                                *)
(***************************************************************************)

\* Where what a merged step delivers is expected.
Goal(m) == {Canonical(e) : e \in Watched(m)}

\* The balance that is read for a step is the one its calls credit, and a step counts as a
\* bridge if its funds leave the chain.
TablesAgree(r) ==
    \A i \in 1..Len(r) : \A calls \in DeriveCalls(r[i]) :
        LET call == LastCall(r[i][1].src, calls)
        IN  Watched(r[i]) # {} =>
                /\ Goal(r[i]) = {PaidTo(r[i][1].src, call)}
                /\ call.dest # "local" => IsBridgeStep(r[i])

\* No entry gets what two steps deliver, and no step pays the entry it spends from.
Separate(r) ==
    \A i, j \in 1..Len(r) :
        Goal(r[i]) \cap (SpentFrom(r[i]) \cup IF i = j THEN {} ELSE Goal(r[j])) = {}

\* A step spends from where its predecessor has delivered.
Connected(r) == \A i \in 1..(Len(r) - 1) : SpentFrom(r[i + 1]) \subseteq Goal(r[i])

\* Only swaps on EVM chains yield less than they get.
OnlySwapsCost(r) ==
    \A i \in 1..Len(r) : \A calls \in DeriveCalls(r[i]) :
        LET c == r[i][1].src
        IN  \A k \in 1..Len(Executed(c, calls)) :
                Yields(c, calls[k].params, SwapFee) # SwapFee =>
                    r[i][k].src \in EvmChains /\ IsSwap(r[i][k])

\* The recipients in the solution are accounts that somebody has the key of.
RealRecipients(r) == \A i \in 1..Len(r) : \A e \in Watched(r[i]) : Owned(e.account)

-----------------------------------------------------------------------------
(***************************************************************************)
(* What each step delivers is seen, and passed on.                         *)
(***************************************************************************)

\* Transactions that carry the calls of the current step.
Carries(tx) == tx.kind = "step" \/ Source \in EvmChains

\* The claim comes first; while it or a step is on its way, the current step has not run.
ClaimFirst ==
    /\ ~claimed => /\ task.index = 1 /\ task.status = "Initialized"
                   /\ \A i \in Steps : ran[i] = "no"
    /\ \A tx \in pending : (tx.kind = "claim" <=> ~claimed) /\ ran[task.index] = "no"

\* What is sent, and so what has run, has the calls that were derived for the step, and the
\* balance of its recipient can be read.
BuiltAsDerived ==
    /\ \A tx \in pending :
          /\ Carries(tx) =>
                /\ tx.calls \in DeriveCalls(route[task.index])
                /\ Watched(route[task.index]) # {}
          /\ tx.kind = "claim" =>
                /\ tx.amount <= Amount
                /\ Source \in EvmChains => /\ HandlerPays(drawn, Source, tx.calls)
                                           /\ Delivers(Source, tx.calls, tx.amount) > 0
                /\ Source \notin EvmChains => tx.amount = Amount
    /\ \A i \in Steps : ran[i] = "ok" => Watched(route[i]) # {}

\* The steps up to the current one have run, and what each has delivered is on a bridge until
\* it arrives where it is expected.
InTurn ==
    /\ \A i \in Steps : /\ i < task.index => ran[i] = "ok"
                        /\ i > task.index => ran[i] = "no"
                        /\ ran[i] # "ok" => arrived[i] = 0
                        /\ ran[i] = "ok" /\ arrived[i] = 0 => \E t \in transit : t.step = i
    /\ \A t \in transit : /\ ran[t.step] = "ok" /\ arrived[t.step] = 0
                          /\ IsBridgeStep(route[t.step])
                          /\ Goal(route[t.step]) = {t.entry}
    /\ \A t, u \in transit : t.step = u.step => t = u

\* From when the current step is sent, the balance of its recipient is the one noted before,
\* what has arrived and at most what others have sent.
Noted ==
    LET i == task.index
    IN  ran[i] = "ok" \/ (\E tx \in pending : Carries(tx)) =>
            /\ task.origin[i] # NoBalance
            /\ task.origin[i] + arrived[i] <= LatestBalance(i)
            /\ LatestBalance(i) <= task.origin[i] + arrived[i] + given[i]

\* A step that was settled with nobody else's funds is no longer on a bridge.
SettledWhole ==
    \A i \in 1..(task.index - 1) :
        /\ task.spend[i + 1] <= arrived[i] + given[i]
        /\ given[i] = 0 => /\ task.spend[i + 1] = arrived[i]
                           /\ \A t \in transit : t.step # i

TypeInv == TypeOK /\ ClaimFirst /\ BuiltAsDerived
DeliveryInv == InTurn /\ Noted /\ SettledWhole

\* Balances are kept for what a step spends from and what it pays.
KnownEntries == DOMAIN ledger \subseteq Own \cup UNION {Goal(route[i]) : i \in Steps}

-----------------------------------------------------------------------------
(***************************************************************************)
(* What is claimed can be executed.                                        *)
(***************************************************************************)

\* The worker has what the next transaction is to spend.
Funded ==
    claimed /\ ran[task.index] = "no" =>
        /\ task.spend[task.index] > 0
        /\ \A own \in SpentFrom(route[task.index]) :
              Balance(ledger, own) >= task.spend[task.index]

\* What is sent spends what was settled, and yields something.
Yielding ==
    \A tx \in pending :
        /\ tx.kind = "step" => /\ tx.amount = task.spend[task.index]
                               /\ route[task.index][1].src \in EvmChains =>
                                     HandlerPays(drawn, route[task.index][1].src, tx.calls)
                               /\ Delivers(route[task.index][1].src, tx.calls, tx.amount) > 0
        /\ tx.kind = "claim" /\ Source \in SubChains =>
              task.spend[1] = Amount

\* A merged step can be built, and an EVM node accepts it: what its price says of it.
Accepted(allowed, m) ==
    LET c == m[1].src
    IN  /\ DeriveCalls(m) # {}
        /\ c \in EvmChains => \A calls \in DeriveCalls(m) :
              /\ m[1].spend = NativeAsset[c] \/ <<c, m[1].spend>> \in allowed
              /\ Delivers(c, calls, Minimal) > 0

\* A claim is only sent for a route that is accepted.
Priced == claimed \/ pending # {} => \A i \in Steps : Accepted(approved, route[i])

FundedInv == Funded /\ Yielding /\ Priced /\ NothingReverts

\* What the merged steps of r take from the handler on c, added up.
StepValue(m, c) ==
    IF m[1].src = c /\ DeriveCalls(m) # {} THEN Values(c, CHOOSE calls \in DeriveCalls(m) : TRUE) ELSE 0
TotalValue(r, c) ==
    LET value[i \in 0..Len(r)] == IF i = 0 THEN 0 ELSE value[i - 1] + StepValue(r[i], c)
    IN  value

\* The handlers have the native funds for the whole route.
HandlersPay(r) == \A c \in EvmChains : \A i \in 0..Len(r) : TotalValue(r, c)[i] <= Reserve

\* They have paid for the steps that have run and nothing else.
DrawnInTurn ==
    \A c \in EvmChains :
        drawn[c] <= TotalValue(route, c)[IF ran[task.index] = "ok" THEN task.index ELSE task.index - 1]

-----------------------------------------------------------------------------
(***************************************************************************)
(* What a claim is charged.                                                *)
(***************************************************************************)

\* What executing the merged steps of r is to cost, step by step, added up.
StepFee(m, gas) == (IF m[1].src \in EvmChains THEN gas ELSE SubTxFee) + ExtraFees(m)
TotalFee(r, gas) ==
    LET fee[i \in 0..Len(r)] == IF i = 0 THEN 0 ELSE fee[i - 1] + StepFee(r[i], gas)
    IN  fee

\* Every step has an entry in the tables of fees.
HasFees(m) == \A k \in 1..Len(m) : ExtraInfo(m[k]) # {}

\* The fees in the tables cover what the calls take besides, and their sum is a u32.
FeesAgree(r) ==
    (\A i \in 1..Len(r) : HasFees(r[i])) =>
        /\ \A i \in 1..Len(r) : \A calls \in DeriveCalls(r[i]) :
              r[i][1].src \in EvmChains =>
                  Worth(r[i][1].src, Values(r[i][1].src, calls)) <= ExtraFees(r[i])
        /\ \A gas \in TxFees : \A i \in 0..Len(r) : TotalFee(r, gas)[i] < U32

\* The fee in the task is worth all that executing it is to cost.
Charged ==
    claimed \/ pending # {} =>
        /\ \A i \in Steps : HasFees(route[i])
        /\ LET price == GetPrice(Source, route[1][1].spend)
           IN  task.fee * price + price > Unit * TotalFee(route, txFee)[Len(route)]

\* The worker and the handlers have paid for the steps that have run and nothing else.
PaidInTurn ==
    /\ \A i \in Steps : i > task.index => ran[i] = "no"
    /\ task.status = "Completed" => task.index = Len(route) /\ ran[task.index] = "ok"
    /\ ~claimed => cost = 0
    /\ claimed /\ Source \in EvmChains =>
          cost <= TotalFee(route, txFee)[IF ran[task.index] = "ok" THEN task.index ELSE task.index - 1]

CostInv == Charged /\ PaidInTurn

-----------------------------------------------------------------------------
(***************************************************************************)
(* What becomes of the deposit, as long as nobody else pays a recipient.    *)
(***************************************************************************)
NoGifts == \A i \in Steps : given[i] = 0
Entries == Own \cup UNION {Goal(route[i]) : i \in Steps}

\* The swaps before the k-th call of step i and that one.
SwapsUpto(i, k) ==
    {at \in Steps \X (1..U8) :
        LET m == route[at[1]]
        IN  /\ at[1] < i \/ (at[1] = i /\ at[2] <= k)
            /\ at[2] <= Len(m) /\ m[at[2]].src \in EvmChains /\ IsSwap(m[at[2]])}

\* What may be left of the deposit there.
Left(i, k) ==
    Amount - Deducted - Cardinality(SwapsUpto(i, k)) * (Amount \div SwapFee) .. Amount

\* Where the deposit is when it is on no bridge: the worker has it or the recipient of the
\* current step.
Held(e) ==
    IF ran[task.index] = "no"
    THEN IF e \in SpentFrom(route[task.index]) THEN task.spend[task.index] ELSE 0
    ELSE IF e \in Goal(route[task.index]) THEN arrived[task.index] ELSE 0

\* Every other balance is what it was, but for the fee of the claim.
Accounted ==
    NoGifts => \A e \in Entries :
        Balance(ledger, e) = IF claimed THEN Had(e) + Held(e) ELSE IF e \in Own THEN Float ELSE 0

\* Nothing but the fee and the cost of swaps is lost of it.
Kept ==
    NoGifts /\ claimed =>
        /\ ran[task.index] = "no" => task.spend[task.index] \in Left(task.index, 0)
        /\ ran[task.index] = "ok" =>
              /\ arrived[task.index] > 0 => arrived[task.index] \in Left(task.index, U8)
              /\ \A t \in transit : t.amount \in Left(task.index, U8)

\* A claim on its way leaves the fee of the task with the worker.
ClaimKeepsFee ==
    \A tx \in pending : tx.kind = "claim" /\ Source \in EvmChains => tx.amount = Amount - task.fee

\* A task is completed when its last step has delivered.
DoneWhenDelivered ==
    task.status = "Completed" =>
        /\ task.index = Len(route) /\ ran[task.index] = "ok"
        /\ NoGifts => arrived[task.index] > 0

DepositInv == Accounted /\ Kept /\ ClaimKeepsFee /\ DoneWhenDelivered

-----------------------------------------------------------------------------
\* The tables fit together for the route of the task: assets, actions, networks and fees say
\* the same of every step (chain.rs, registry.rs, actions/).  All that is proved of a task's
\* funds rests on it, and no part of the executor checks it.
RouteFits ==
    /\ TablesAgree(route) /\ Separate(route) /\ Connected(route)
    /\ OnlySwapsCost(route) /\ RealRecipients(route) /\ FeesAgree(route) /\ HandlersPay(route)
=============================================================================
