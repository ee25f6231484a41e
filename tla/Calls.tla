------------------------------- MODULE Calls -------------------------------
(***************************************************************************)
(* From steps to calls: the builders of actions/, Step::derive_calls and    *)
(* MultiStep (step.rs).                                                    *)
(*                                                                         *)
(* A step is a record [exe, exact, src, dst, spend, receive, to]: the       *)
(* action it names (and whether in the case the tables have), its chains,   *)
(* its assets and its recipient.  A merged step is a sequence of steps, a   *)
(* Single one of length 1.                                                 *)
(*                                                                         *)
(* Of a call is kept what a chain does with it: the ledger it spends from   *)
(* and yields to, where it sends funds and to whom, the native funds it     *)
(* takes besides (value, in 1/10000 of the native asset) and whether a later *)
(* call of the batch may use what it yields.  An operator that can fail      *)
(* returns a set of at most one result: errors and panics are the empty set. *)
(***************************************************************************)
EXTENDS Registry, Sequences

CONSTANT U8    \* indices of calls a u8 holds: 256 in the code

ASSUME CallsAssumption == U8 \in Nat \ {0}

MergedStep ==
    Seq([exe : STRING, exact : BOOLEAN, src : Chain, dst : Chain, spend : STRING,
         receive : STRING, to : [owner : STRING, form : STRING]]) \ {<<>>}

When(condition, result) == IF condition THEN {result} ELSE {}

Worker(c) == Account("worker", IF c \in EvmChains THEN "20" ELSE "32")
Handler(c) == Account("handler", "20")

-----------------------------------------------------------------------------
(***************************************************************************)
(* EVM calls.  Address::from_slice panics unless it gets 20 bytes.          *)
(***************************************************************************)
EvmCall(s, dest, to, value, need_settle) ==
    [spend |-> EvmKey(s.src, s.spend), receive |-> EvmKey(s.src, s.receive),
     dest |-> dest, to |-> to, value |-> value, need_settle |-> need_settle]

Wrapped == [Ethereum |-> "0xC02a", Moonbeam |-> "0xAcc1", AstarEvm |-> "0xAeaa"]

\* Deposits and withdrawals stay with the handler; the recipient is not used.
NativeWrapper(s) ==
    When({s.spend, s.receive} = {NativeAsset[s.src], Wrapped[s.src]},
         EvmCall(s, "local", Handler(s.src), 0, TRUE))

UniswapV2(s) == When(Length(s.to) = 20, EvmCall(s, "local", s.to, 0, TRUE))
UniswapV3(s) == When(Length(s.to) = 20, EvmCall(s, "local", s.to, 0, TRUE))

\* PHA and its test token; the fee of Sygma is 10^14 wei, a ten thousandth of an ETH.
ResourceIds == {"0x6c5b", "0xB376"}
EvmSygmaBridge(action, s) ==
    When(s.spend \in ResourceIds,
         EvmCall([s EXCEPT !.receive = s.spend], action.dest, s.to, 1, FALSE))

\* The recipient is written as an AccountId32 whatever its length.
XTokenBridge(action, s) == {EvmCall(s, action.dest, s.to, 0, FALSE)}

-----------------------------------------------------------------------------
(***************************************************************************)
(* Substrate calls.                                                        *)
(***************************************************************************)
SubCall(spend, receive, dest, to) ==
    [spend |-> spend, receive |-> receive,
     dest |-> dest, to |-> to, value |-> 0, need_settle |-> FALSE]

\* The ledger a chain keeps a located asset in.
AtLocation(c, location) ==
    IF location = NativeAsset[c] THEN SystemAccount ELSE <<"Assets", location>>

Transfer(key, to) == SubCall(key, key, "local", to)
Bridge(s, dest, to) ==
    LET key == AtLocation(s.src, s.spend)
    IN  When(Decodes(s.spend), SubCall(key, key, dest, to))

XTransferXcm(action, s) ==
    Bridge(s, action.dest, IF action.form = "20" THEN ToArray20(s.to) ELSE ToArray32(s.to))

XTransferSygma(action, s) == Bridge(s, action.dest, ToArray32(s.to))

\* Transfers the native asset, whichever asset the step names.
Transactor(s) == {Transfer(SystemAccount, s.to)}

AstarTransactor(s) ==
    When(Decodes(s.spend) /\ s.spend \in PalletAssets["Astar"] \cup {NativeAsset["Astar"]},
         Transfer(AtLocation("Astar", s.spend), ToArray32(s.to)))

\* Slip: the address padded to 32 bytes in place of the account that stands for it.
AstarSubToEvmTransactor_Padded(s) == AstarTransactor(s)

AstarSubToEvmTransactor(s) ==
    AstarTransactor([s EXCEPT !.to = H160ToSr25519Pub(ToArray20(s.to))])

AstarXtokens(action, s) == Bridge(s, action.dest, s.to)

PolkadotXcmV2(action, s) ==
    Bridge(s, action.dest, IF action.form = "20" THEN ToArray20(s.to) ELSE ToArray32(s.to))

PolkadotXcmV3(action, s) ==
    Bridge(s, action.dest,
           CASE action.form = "20"  -> ToArray20(s.to)
             [] action.form = "32"  -> ToArray32(s.to)
             [] action.form = "evm" -> H160ToSr25519Pub(s.to))

\* Only DOT for ACA, and the signer is paid.
AcalaSwap(s) ==
    When(/\ {s.spend, s.receive} \subseteq DOMAIN AcalaAttrs
         /\ AcalaCurrencyId(s.spend) = <<"Token", "DOT">>
         /\ AcalaCurrencyId(s.receive) = <<"Token", "ACA">>,
         SubCall(AcalaCurrencyId(s.spend), AcalaCurrencyId(s.receive), "local", Worker("Acala")))

AcalaTransactor(s) ==
    LET Key(location) ==
            CASE AcalaAttrs[location].type = "Utility" -> SystemAccount
              [] AcalaAttrs[location].type = "Native"  -> AcalaCurrencyId(location)
              [] AcalaAttrs[location].type = "Foreign" -> <<"ForeignAsset", location>>
    IN  {Transfer(Key(location), ToArray32(s.to)) : location \in {s.spend} \cap DOMAIN AcalaAttrs}

-----------------------------------------------------------------------------
BuildCall(action, s) ==
    CASE action.builder = "NativeWrapper"           -> NativeWrapper(s)
      [] action.builder = "UniswapV2"               -> UniswapV2(s)
      [] action.builder = "UniswapV3"               -> UniswapV3(s)
      [] action.builder = "EvmSygmaBridge"          -> EvmSygmaBridge(action, s)
      [] action.builder = "XTokenBridge"            -> XTokenBridge(action, s)
      [] action.builder = "XTransferXcm"            -> XTransferXcm(action, s)
      [] action.builder = "XTransferSygma"          -> XTransferSygma(action, s)
      [] action.builder = "Transactor"              -> Transactor(s)
      [] action.builder = "AstarTransactor"         -> AstarTransactor(s)
      [] action.builder = "AstarSubToEvmTransactor" -> AstarSubToEvmTransactor(s)
      [] action.builder = "AstarXtokens"            -> AstarXtokens(action, s)
      [] action.builder = "PolkadotXcmV2"           -> PolkadotXcmV2(action, s)
      [] action.builder = "PolkadotXcmV3"           -> PolkadotXcmV3(action, s)
      [] action.builder = "AcalaSwap"               -> AcalaSwap(s)
      [] action.builder = "AcalaTransactor"         -> AcalaTransactor(s)

StepCalls(s) == UNION {BuildCall(action, s) : action \in GetActions(s)}

\* The index of the call whose result the k-th call of a batch takes.
InputCall(k) == IF k = 1 THEN 0 ELSE k - 2

\* The calls of a merged step, in the order of its steps.
DeriveCalls(m) ==
    When(/\ Len(m) \in 1..U8
         /\ \A k \in 1..Len(m) : StepCalls(m[k]) # {},
         [k \in 1..Len(m) |-> [params |-> CHOOSE call \in StepCalls(m[k]) : TRUE,
                               call_index |-> k - 1, input_call |-> InputCall(k)]])

\* Slip: the batch still ends where its first step does.
AsSingleStep_FirstOnly(m) == [m[1] EXCEPT !.to = m[Len(m)].to]

\* A batch seen as one step, from the first one's source to the last one's destination.
AsSingleStep(m) ==
    [m[1] EXCEPT !.dst = m[Len(m)].dst, !.receive = m[Len(m)].receive, !.to = m[Len(m)].to]

IsBridgeStep(m) == AsSingleStep(m).src # AsSingleStep(m).dst

\* The entry whose balance tells what a merged step has delivered: sync_origin_balance,
\* has_finished and settle all read this one.
Watched(m) ==
    LET s == AsSingleStep(m) IN GetBalance(s.dst, s.receive, s.to)
=============================================================================
