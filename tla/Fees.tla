------------------------------- MODULE Fees -------------------------------
(***************************************************************************)
(* The price of a task: simulation of merged steps (step.rs, and            *)
(* simulate_solution in lib.rs), calculate_fee (task.rs) and the gas         *)
(* estimates of EVM nodes.  Fees in USD are in 1/10000 USD.                 *)
(***************************************************************************)
EXTENDS Networks, FiniteSets

CONSTANTS
    Unit,      \* 10^decimals of an asset; all assets have the same decimals here
    U32,       \* the modulus of fees in USD: 2^32 in the code
    Reserve    \* the native funds a handler contract has of its own, in 1/10000

ASSUME FeesAssumption == Unit \in Nat \ {0} /\ U32 \in Nat \ {0} /\ Reserve \in Nat

SubTxFee == 100
Minimal == Unit \div 10000

Balance(ledger, e) == IF e \in DOMAIN ledger THEN ledger[e] ELSE 0

\* The handler on c has the native funds the calls take, when it has paid drawn[c] before.
HandlerPays(drawn, c, calls) == drawn[c] + Values(c, calls) <= Reserve

\* What native funds are worth, in 1/10000 USD.
Worth(c, value) == (value * GetPrice(c, NativeAsset[c])) \div 10000

(***************************************************************************)
(* A node estimates a batch for the worker only if it would succeed: the     *)
(* worker has the funds, has approved the handler for an ERC20, the handler  *)
(* pays what the calls take besides, and no call reverts.                   *)
(***************************************************************************)
EstimateGas(ledger, approved, drawn, m, calls, amount) ==
    LET c == m[1].src
    IN  /\ Balance(ledger, TakenFrom(c, calls[1].params, Worker(c))) >= amount
        /\ m[1].spend = NativeAsset[c] \/ <<c, m[1].spend>> \in approved
        /\ HandlerPays(drawn, c, calls)
        /\ Delivers(c, calls, amount) > 0

\* Slip: a batch has the protocol fee of its first step.
ExtraFees_First(m) == (CHOOSE info \in ExtraInfo(m[1]) : TRUE).extra_proto_fee_in_usd

\* What the protocols of a merged step take, by the tables.
ExtraFees(m) ==
    LET fee[k \in 0..Len(m)] ==
            IF k = 0 THEN 0
            ELSE fee[k - 1] + (CHOOSE info \in ExtraInfo(m[k]) : TRUE).extra_proto_fee_in_usd
    IN  fee[Len(m)]

\* txFee is what the gas of an EVM transaction costs.
Simulate(ledger, approved, drawn, txFee, m, amount) ==
    {[tx_fee_in_usd |-> IF m[1].src \in EvmChains THEN txFee ELSE SubTxFee,
      extra_proto_fee_in_usd |-> ExtraFees(m)] :
        calls \in {d \in DeriveCalls(m) :
            /\ \A k \in 1..Len(m) : ExtraInfo(m[k]) # {}
            /\ m[1].src \in EvmChains =>
                   txFee < U32 /\ EstimateGas(ledger, approved, drawn, m, d, amount)}}

\* Every merged step is simulated with 0.0001 of its asset, which must be registered.
SimulateSolution(assets, ledger, approved, drawn, txFee, route) ==
    LET Priced(i) == {r \in Simulate(ledger, approved, drawn, txFee, route[i], Minimal) :
                           <<route[i][1].src, route[i][1].spend>> \in assets}
    IN  When(\A i \in 1..Len(route) : Priced(i) # {},
             [i \in 1..Len(route) |-> CHOOSE r \in Priced(i) : TRUE])

\* The fees of all merged steps, added up in a u32.
FeeInUsd(results) ==
    LET fee[i \in 0..Len(results)] ==
            IF i = 0 THEN 0
            ELSE (fee[i - 1] + results[i].tx_fee_in_usd + results[i].extra_proto_fee_in_usd) % U32
    IN  fee[Len(results)]

\* Slip: only the first merged step is looked at.
CalculateFee_First(assets, ledger, approved, drawn, txFee, route) ==
    {(Unit * FeeInUsd(results)) \div GetPrice(route[1][1].src, route[1][1].spend) :
        results \in SimulateSolution(assets, ledger, approved, drawn, txFee, SubSeq(route, 1, 1))}

\* The fee in the asset that was deposited.
CalculateFee(assets, ledger, approved, drawn, txFee, route) ==
    {(Unit * FeeInUsd(results)) \div GetPrice(route[1][1].src, route[1][1].spend) :
        results \in SimulateSolution(assets, ledger, approved, drawn, txFee, route)}
=============================================================================
