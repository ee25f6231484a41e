------------------------------ MODULE Registry ------------------------------
(***************************************************************************)
(* The tables of the executor: chains and assets (registry.rs), the        *)
(* actions of each chain (actions/*/mod.rs), their extra fees, the ids of   *)
(* foreign assets (assets.rs, actions/*/asset.rs), prices (price.rs), and   *)
(* the storage entry that get_balance (chain.rs) reads.                     *)
(*                                                                         *)
(* An asset is named by the bytes a solution gives for it: on an EVM chain  *)
(* the address of its contract, on a Substrate chain its location, written  *)
(* Para<id>/<key>.  "Old/" marks the encoding of a location before XCM V3.  *)
(* An account is an owner and the form of its address; "cut" and "pad" are  *)
(* what is left of an address forced into another length, "hash" is the     *)
(* account that stands for a 20-byte address on a Substrate chain.          *)
(***************************************************************************)
EXTENDS Naturals

EvmChains == {"Ethereum", "Moonbeam", "AstarEvm"}
SubChains == {"Astar", "Khala", "Phala", "Acala", "Polkadot"}
Chain == EvmChains \cup SubChains

NativeAsset ==
    [Ethereum |-> "0x00", Moonbeam |-> "0x802", AstarEvm |-> "0x00",
     Astar |-> "Para2006", Khala |-> "Here", Phala |-> "Here",
     Acala |-> "Old/Para2000/ACA", Polkadot |-> "Here"]

ForeignAssetModule ==
    [c \in SubChains |-> IF c = "Acala" THEN "OrmlToken" ELSE "PalletAsset"]

\* The assets of a new registry; a fee can only be calculated for these.
RegisteredAssets ==
    {<<"Ethereum", "0x00">>, <<"Ethereum", "0x6c5b">>, <<"Phala", "Here">>, <<"Khala", "Here">>,
     <<"Moonbeam", "0x802">>, <<"AstarEvm", "0x00">>, <<"AstarEvm", "0xFF03">>,
     <<"Astar", "Para2006">>}

-----------------------------------------------------------------------------
(***************************************************************************)
(* Addresses.                                                              *)
(***************************************************************************)
Account(owner, form) == [owner |-> owner, form |-> form]

Length(a) == IF a.form \in {"20", "cut"} THEN 20 ELSE 32
FormOf(c) == IF c \in EvmChains THEN 20 ELSE 32

\* to_array copies what fits and leaves zeros in the rest.
ToArray20(a) ==
    CASE Length(a) = 20  -> a
      [] a.form = "pad" -> Account(a.owner, "20")
      [] OTHER          -> Account(a.owner, "cut")
ToArray32(a) == IF Length(a) = 32 THEN a ELSE Account(a.owner, "pad")

H160ToSr25519Pub(a) == Account(a.owner, "hash")

\* Somebody has the key of the account.
Owned(a) == a.form \notin {"cut", "pad"}

-----------------------------------------------------------------------------
(***************************************************************************)
(* Foreign assets.                                                         *)
(***************************************************************************)

\* Locations Decode accepts as a V3 MultiLocation.
Decodes(location) == location # "Old/Para2000/ACA"

AstarAssets == {"Para2035", "Para2004/10"}
PhalaAssets == [Phala |-> {"Relay", "Para2004/10"}, Khala |-> {"Para2000/KAR"}]

\* get_assetid_by_location finds no asset on other chains.
PalletAssets ==
    [Astar |-> AstarAssets, Phala |-> PhalaAssets["Phala"], Khala |-> PhalaAssets["Khala"],
     Polkadot |-> {}]

AcalaAttrs ==
    LET Attrs(symbol, type) == [symbol |-> symbol, type |-> type]
    IN  [location \in {"Para2000/ACA", "Para2000/DOT", "Para2000/KAR", "Para2004"} |->
            CASE location = "Para2000/ACA" -> Attrs("ACA", "Utility")
              [] location = "Para2000/DOT" -> Attrs("DOT", "Native")
              [] location = "Para2000/KAR" -> Attrs("KAR", "Native")
              [] OTHER                     -> Attrs("PHA", "Foreign")]

\* The id is that of the symbol, whatever the type of the asset.
AcalaCurrencyId(location) == <<"Token", AcalaAttrs[location].symbol>>

-----------------------------------------------------------------------------
(***************************************************************************)
(* Balances.  An entry is a place of a ledger where a balance is kept.     *)
(***************************************************************************)
Entry(c, key, a) == [chain |-> c, key |-> key, account |-> a]

EvmKey(c, asset) == IF asset = NativeAsset[c] THEN <<"native", "">> ELSE <<"erc20", asset>>
SystemAccount == <<"System", "Account">>

\* The key of the storage entry that get_balance reads for an asset, if it knows it.
SubKeys(c, asset) ==
    CASE asset = NativeAsset[c]                  -> {SystemAccount}
      [] ~Decodes(asset)                         -> {}
      [] ForeignAssetModule[c] = "PalletAsset" -> {<<"Assets", x>> : x \in {asset} \cap PalletAssets[c]}
      [] OTHER -> {AcalaCurrencyId(location) : location \in {asset} \cap DOMAIN AcalaAttrs}

\* The entries get_balance may read: one, or none when it returns an error.
GetBalance(c, asset, a) ==
    IF Length(a) # FormOf(c) THEN {}
    ELSE {Entry(c, key, a) : key \in IF c \in EvmChains THEN {EvmKey(c, asset)} ELSE SubKeys(c, asset)}

-----------------------------------------------------------------------------
(***************************************************************************)
(* Actions.                                                                *)
(***************************************************************************)
ACALA_PARACHAIN_ID == "para2000"
MOONBEAM_PARACHAIN_ID == "para2004"
ASTAR_PARACHAIN_ID == "para2006"
PHALA_PARACHAIN_ID == "para2035"
SYGMA_ETHEREUM_DOMAIN_ID == "sygma1"

\* exe is built by builder, for a destination network and a form of address there.
Action(exe, builder, dest, form) ==
    [exe |-> exe, builder |-> builder, dest |-> dest, form |-> form]
Local(exe, builder) == Action(exe, builder, "local", "")

EthereumActions ==
    {Local("ethereum_nativewrapper", "NativeWrapper"),
     Local("ethereum_uniswapv2", "UniswapV2"),
     Local("ethereum_uniswapv3", "UniswapV3"),
     Action("ethereum_sygmabridge_to_phala", "EvmSygmaBridge", "sygma3", "32"),
     Action("ethereum_sygmabridge_to_khala", "EvmSygmaBridge", "sygma2", "32")}

MoonbeamActions ==
    {Local("moonbeam_nativewrapper", "NativeWrapper"),
     Local("moonbeam_stellaswap", "UniswapV3"),
     Action("moonbeam_bridge_to_acala", "XTokenBridge", ACALA_PARACHAIN_ID, "32"),
     Action("moonbeam_bridge_to_astar", "XTokenBridge", ASTAR_PARACHAIN_ID, "32"),
     Action("moonbeam_bridge_to_phala", "XTokenBridge", PHALA_PARACHAIN_ID, "32"),
     Action("moonbeam_bridge_to_polkadot", "XTokenBridge", "relay", "32")}

AstarEvmActions ==
    {Local("astar_evm_nativewrapper", "NativeWrapper"),
     Local("astar_evm_arthswap", "UniswapV2")}

AstarActions ==
    {Local("astar_transactor", "AstarTransactor"),
     Local("astar_bridge_to_astarevm", "AstarSubToEvmTransactor"),
     Action("astar_bridge_to_phala", "AstarXtokens", PHALA_PARACHAIN_ID, "32")}

\* Phala and Khala have the same actions.
PhalaActions ==
    {Action("phala_bridge_to_acala", "XTransferXcm", ACALA_PARACHAIN_ID, "32"),
     Action("phala_bridge_to_astar", "XTransferXcm", ASTAR_PARACHAIN_ID, "32"),
     Action("phala_bridge_to_moonbeam", "XTransferXcm", MOONBEAM_PARACHAIN_ID, "20"),
     Action("phala_bridge_to_polkadot", "XTransferXcm", "relay", "20"),
     Action("phala_bridge_to_ethereum", "XTransferSygma", SYGMA_ETHEREUM_DOMAIN_ID, "32"),
     Action("khala_bridge_to_ethereum", "XTransferSygma", SYGMA_ETHEREUM_DOMAIN_ID, "32"),
     Local("phala_native_transactor", "Transactor"),
     Local("khala_native_transactor", "Transactor")}

PolkadotActions ==
    {Action("polkadot_bridge_to_phala", "PolkadotXcmV3", PHALA_PARACHAIN_ID, "32"),
     Action("polkadot_bridge_to_moonbeam", "PolkadotXcmV2", MOONBEAM_PARACHAIN_ID, "20"),
     Action("polkadot_bridge_to_astar_evm", "PolkadotXcmV3", ASTAR_PARACHAIN_ID, "evm"),
     Action("polkadot_bridge_to_astar", "PolkadotXcmV3", ASTAR_PARACHAIN_ID, "32"),
     Local("polkadot_native_transactor", "Transactor")}

AcalaActions == {Local("acala_dex", "AcalaSwap"), Local("acala_transactor", "AcalaTransactor")}

CreateActions ==
    [Ethereum |-> EthereumActions, Moonbeam |-> MoonbeamActions, AstarEvm |-> AstarEvmActions,
     Astar |-> AstarActions, Khala |-> PhalaActions, Phala |-> PhalaActions,
     Acala |-> AcalaActions, Polkadot |-> PolkadotActions]

\* Names of actions are compared without regard to case; the case of a step's is exact or not.
GetActions(s) == {action \in CreateActions[s.src] : action.exe = s.exe}

\* What protocols charge besides, by action, in 1/10000 USD.
EthereumFees ==
    [ethereum_nativewrapper |-> 0, ethereum_uniswapv2 |-> 0, ethereum_uniswapv3 |-> 0,
     ethereum_sygmabridge_to_phala |-> 2000, ethereum_sygmabridge_to_khala |-> 2000]
MoonbeamFees ==
    [moonbeam_nativewrapper |-> 0, moonbeam_stellaswap |-> 0, moonbeam_bridge_to_acala |-> 0,
     moonbeam_bridge_to_astar |-> 0, moonbeam_bridge_to_phala |-> 0,
     moonbeam_bridge_to_polkadot |-> 0]
AstarFees ==
    [astar_evm_nativewrapper |-> 0, astar_evm_arthswap |-> 0, astar_transactor |-> 0,
     astar_bridge_to_astarevm |-> 0, astar_bridge_to_phala |-> 0]
PhalaFees ==
    [phala_bridge_to_acala |-> 0, phala_bridge_to_astar |-> 0, phala_bridge_to_moonbeam |-> 0,
     phala_bridge_to_polkadot |-> 0, phala_bridge_to_ethereum |-> 0,
     phala_native_transactor |-> 0, khala_bridge_to_ethereum |-> 0, khala_native_transactor |-> 0]
AcalaFees == [acala_dex |-> 0, acala_transactor |-> 0]

\* There is none for Polkadot.
ProtoFees ==
    [Ethereum |-> EthereumFees, Moonbeam |-> MoonbeamFees, AstarEvm |-> AstarFees,
     Astar |-> AstarFees, Khala |-> PhalaFees, Phala |-> PhalaFees, Acala |-> AcalaFees]

\* get_action_extra_info compares names exactly.
ExtraInfo(s) ==
    IF s.exact /\ s.src \in DOMAIN ProtoFees /\ s.exe \in DOMAIN ProtoFees[s.src]
    THEN {[extra_proto_fee_in_usd |-> ProtoFees[s.src][s.exe]]} ELSE {}

\* In 1/10000 USD; every asset without an entry counts as 0.1 USD.
GetPrice(c, asset) ==
    CASE c = "Ethereum" /\ asset = "0x00"  -> 20000000
      [] c = "AstarEvm" /\ asset = "0x00"  -> 700
      [] c = "Moonbeam" /\ asset = "0x802" -> 3000
      [] OTHER                             -> 1000
=============================================================================
