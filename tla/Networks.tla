------------------------------ MODULE Networks ------------------------------
(***************************************************************************)
(* What the chains, their bridges and the handler contracts do with a call. *)
(* None of this is in the repository: it is taken from how the executor     *)
(* uses them (chain.rs, call.rs, actions/) and from scripts/src/registry.json. *)
(***************************************************************************)
EXTENDS Calls, Integers, TLC

\* The chain behind a parachain id, the relay chain and Sygma's domains.
Reaches ==
    [para2000 |-> "Acala", para2004 |-> "Moonbeam", para2006 |-> "Astar", para2035 |-> "Phala",
     relay |-> "Polkadot", sygma1 |-> "Ethereum", sygma2 |-> "Khala", sygma3 |-> "Phala"]

\* The ledgers of each chain and the tokens they hold.
Holds ==
    [Ethereum |-> (<<"native", "">> :> "ETH" @@ <<"erc20", "0xC02a">> :> "WETH"
                   @@ <<"erc20", "0x6c5b">> :> "PHA"),
     Moonbeam |-> (<<"native", "">> :> "GLMR" @@ <<"erc20", "0xAcc1">> :> "WGLMR"
                   @@ <<"erc20", "xcDOT">> :> "DOT" @@ <<"erc20", "xcPHA">> :> "PHA"
                   @@ <<"erc20", "xcASTR">> :> "ASTR"),
     AstarEvm |-> (<<"native", "">> :> "ASTR" @@ <<"erc20", "0xAeaa">> :> "WASTR"
                   @@ <<"erc20", "0xFF03">> :> "GLMR" @@ <<"erc20", "0xFF06">> :> "PHA"
                   @@ <<"erc20", "0xFFFF">> :> "DOT"),
     Astar    |-> (SystemAccount :> "ASTR" @@ <<"Assets", "Para2035">> :> "PHA"
                   @@ <<"Assets", "Para2004/10">> :> "GLMR" @@ <<"Assets", "Relay">> :> "DOT"),
     Khala    |-> (SystemAccount :> "PHA" @@ <<"Assets", "Para2000/KAR">> :> "KAR"),
     Phala    |-> (SystemAccount :> "PHA" @@ <<"Assets", "Relay">> :> "DOT"
                   @@ <<"Assets", "Para2004/10">> :> "GLMR"),
     Acala    |-> (SystemAccount :> "ACA" @@ <<"Token", "DOT">> :> "DOT"
                   @@ <<"Token", "KAR">> :> "KAR" @@ <<"ForeignAsset", "Para2004">> :> "PHA"),
     Polkadot |-> (SystemAccount :> "DOT")]

LedgerOf(c, token) == CHOOSE key \in DOMAIN Holds[c] : Holds[c][key] = token

\* Acala's currencies pallet keeps ACA with the balances pallet.
KeptIn(c, key) == IF c = "Acala" /\ key = <<"Token", "ACA">> THEN SystemAccount ELSE key

\* An address on AstarEvm has its funds on Astar, in the account that stands for it.
Shared ==
    [key \in DOMAIN Holds["AstarEvm"] \ {<<"erc20", "0xAeaa">>} |->
        LedgerOf("Astar", Holds["AstarEvm"][key])]
Canonical(e) ==
    IF e.chain = "AstarEvm" /\ e.key \in DOMAIN Shared
    THEN Entry("Astar", Shared[e.key], H160ToSr25519Pub(e.account)) ELSE e

\* Where a call takes its funds and where they arrive.  Sygma uses the first 20 bytes
\* of a recipient on Ethereum.
TakenFrom(c, call, a) == Canonical(Entry(c, KeptIn(c, call.spend), a))
PaidTo(c, call) ==
    IF call.dest = "local" THEN Canonical(Entry(c, KeptIn(c, call.receive), call.to))
    ELSE LET d == Reaches[call.dest]
         IN  Entry(d, LedgerOf(d, Holds[c][call.spend]),
                   IF d = "Ethereum" THEN ToArray20(call.to) ELSE call.to)

-----------------------------------------------------------------------------
(***************************************************************************)
(* The handler gives each call of a batch what the call at its input index  *)
(* has yielded, if it settled it and still holds it, and reverts the batch  *)
(* when a call gets or yields nothing.  A swap costs a hundredth.           *)
(***************************************************************************)
SwapFee == 100

Yields(c, call, amount) ==
    IF \/ call.dest # "local" \/ call.spend = call.receive
       \/ c \in EvmChains /\ {call.spend, call.receive} = {EvmKey(c, NativeAsset[c]), EvmKey(c, Wrapped[c])}
    THEN amount ELSE amount - amount \div SwapFee

FeedsInto(c, calls, j, k) ==
    /\ j < k
    /\ calls[j].params.need_settle
    /\ calls[j].params.to = Handler(c)
    /\ calls[j].params.receive = calls[k].params.spend

Results(c, calls, amount) ==
    LET result[k \in 1..Len(calls)] ==
            LET j == calls[k].input_call + 1
            IN  Yields(c, calls[k].params,
                       IF k = 1 THEN amount ELSE IF FeedsInto(c, calls, j, k) THEN result[j] ELSE 0)
    IN  result

\* What a transaction with these calls delivers; 0 when it reverts.  A Substrate
\* transaction is the first call alone.
Executed(c, calls) == IF c \in EvmChains THEN calls ELSE SubSeq(calls, 1, 1)
Delivers(c, calls, amount) ==
    LET results == Results(c, Executed(c, calls), amount)
    IN  IF \E k \in DOMAIN results : results[k] <= 0 THEN 0 ELSE results[Len(Executed(c, calls))]

LastCall(c, calls) == Executed(c, calls)[Len(Executed(c, calls))].params

\* The native funds that the handler pays for the calls besides, out of its own: with an
\* ERC20 to spend the executor sends none.
Values(c, calls) ==
    LET value[k \in 0..Len(calls)] == IF k = 0 THEN 0 ELSE value[k - 1] + calls[k].params.value
    IN  value[Len(calls)]
=============================================================================
