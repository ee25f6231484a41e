----------------------------- MODULE MCDelivery -----------------------------
(***************************************************************************)
(* Routes for Delivery: what the actions are meant for by their names and   *)
(* by scripts/src/registry.json, over all assets they can carry, alone and  *)
(* two merged steps in a row, and the two solutions of the tests in lib.rs.  *)
(***************************************************************************)
EXTENDS DeliveryProperties

\* How solutions name the tokens of each chain.
Location ==
    [Ethereum |-> [ETH |-> "0x00", WETH |-> "0xC02a", PHA |-> "0x6c5b"],
     Moonbeam |-> [GLMR |-> "0x802", WGLMR |-> "0xAcc1", DOT |-> "xcDOT", PHA |-> "xcPHA",
                   ASTR |-> "xcASTR"],
     AstarEvm |-> [ASTR |-> "0x00", WASTR |-> "0xAeaa", GLMR |-> "0xFF03", PHA |-> "0xFF06",
                   DOT |-> "0xFFFF"],
     Astar    |-> [ASTR |-> "Para2006", PHA |-> "Para2035", GLMR |-> "Para2004/10", DOT |-> "Relay"],
     Khala    |-> [PHA |-> "Here"],
     Phala    |-> [PHA |-> "Here", DOT |-> "Relay", GLMR |-> "Para2004/10"],
     Acala    |-> [ACA |-> "Para2000/ACA", DOT |-> "Para2000/DOT", PHA |-> "Para2004"]]

Hop(exe, src, dst, tokens) == [exe |-> exe, src |-> src, dst |-> dst, tokens |-> tokens]
Hops ==
    {Hop("ethereum_sygmabridge_to_phala", "Ethereum", "Phala", {"PHA"}),
     Hop("ethereum_sygmabridge_to_khala", "Ethereum", "Khala", {"PHA"}),
     Hop("moonbeam_bridge_to_phala", "Moonbeam", "Phala", {"PHA", "GLMR", "DOT"}),
     Hop("moonbeam_bridge_to_astar", "Moonbeam", "Astar", {"ASTR", "GLMR", "PHA", "DOT"}),
     Hop("moonbeam_bridge_to_acala", "Moonbeam", "Acala", {"DOT"}),
     Hop("phala_bridge_to_ethereum", "Phala", "Ethereum", {"PHA"}),
     Hop("khala_bridge_to_ethereum", "Khala", "Ethereum", {"PHA"}),
     Hop("phala_bridge_to_moonbeam", "Phala", "Moonbeam", {"PHA", "GLMR", "DOT"}),
     Hop("phala_bridge_to_astar", "Phala", "Astar", {"PHA", "GLMR"}),
     Hop("phala_native_transactor", "Phala", "Phala", {"PHA"}),
     Hop("khala_native_transactor", "Khala", "Khala", {"PHA"}),
     Hop("astar_bridge_to_phala", "Astar", "Phala", {"PHA", "GLMR"}),
     Hop("astar_bridge_to_astarevm", "Astar", "AstarEvm", {"ASTR", "PHA", "GLMR"}),
     Hop("astar_transactor", "Astar", "Astar", {"ASTR", "PHA", "GLMR"}),
     Hop("acala_transactor", "Acala", "Acala", {"DOT"})}

Convert(exe, c, from, to) == [exe |-> exe, src |-> c, from |-> from, to |-> to]

Step(exe, src, dst, from, to, account) ==
    [exe |-> exe, exact |-> TRUE, src |-> src, dst |-> dst,
     spend |-> Location[src][from], receive |-> Location[dst][to], to |-> account]
Conversion(conv, account) == Step(conv.exe, conv.src, conv.src, conv.from, conv.to, account)

Recipient(who, c) == Account(who, IF c \in EvmChains THEN "20" ELSE "32")
HopTo(hop, token, who) == Step(hop.exe, hop.src, hop.dst, token, token, Recipient(who, hop.dst))

Wrap(c) ==
    CASE c = "Ethereum" -> Convert("ethereum_nativewrapper", c, "ETH", "WETH")
      [] c = "Moonbeam" -> Convert("moonbeam_nativewrapper", c, "GLMR", "WGLMR")
      [] c = "AstarEvm" -> Convert("astar_evm_nativewrapper", c, "ASTR", "WASTR")
Uni2(from, to) == Convert("ethereum_uniswapv2", "Ethereum", from, to)
Uni3(from, to) == Convert("ethereum_uniswapv3", "Ethereum", from, to)
Stella(from, to) == Convert("moonbeam_stellaswap", "Moonbeam", from, to)
Arth(from, to) == Convert("astar_evm_arthswap", "AstarEvm", from, to)


\* Conversions in one transaction, one after the other.
Paths ==
    {<<Uni2("WETH", "PHA")>>, <<Uni3("PHA", "WETH")>>, <<Stella("DOT", "PHA")>>,
     <<Arth("GLMR", "WASTR")>>,
     <<Wrap("Ethereum"), Uni2("WETH", "PHA")>>,
     <<Wrap("Moonbeam"), Stella("WGLMR", "DOT")>>,
     <<Wrap("Moonbeam"), Stella("WGLMR", "DOT"), Stella("DOT", "ASTR")>>,
     <<Wrap("AstarEvm"), Arth("WASTR", "GLMR")>>}

\* All conversions but the last pay the handler; a bridge may follow in the same transaction.
Converted(path, who) ==
    [k \in 1..Len(path) |->
        Conversion(path[k], IF k = Len(path) THEN who ELSE Handler(path[k].src))]
Swapped(path, who) == Converted(path, Recipient(who, path[1].src))
Bridged(path, hop, who) ==
    Append(Converted(path, Handler(hop.src)), HopTo(hop, path[Len(path)].to, who))

MergedSteps(who) ==
    {Swapped(path, who) : path \in Paths}
        \cup UNION {{<<HopTo(hop, token, who)>> : token \in hop.tokens} : hop \in Hops}
        \cup {Bridged(path, hop, who) : <<path, hop>> \in
                  {x \in Paths \X Hops : /\ x[1][1].src = x[2].src
                                         /\ x[1][Len(x[1])].to \in x[2].tokens}}

\* A transfer by the worker to itself is no step of a route: its balance does not change.
Follows(m, next) ==
    LET last == m[Len(m)]
    IN  /\ <<last.dst, last.receive>> = <<next[1].src, next[1].spend>>
        /\ <<last.dst, last.receive>> # <<m[1].src, m[1].spend>>

Pairs == {<<m, next>> \in MergedSteps("worker") \X MergedSteps("user") : Follows(m, next)}

\* The second solution of the tests.
ToAstarEvm ==
    {<<m, next, last>> \in MergedSteps("worker") \X MergedSteps("worker") \X MergedSteps("user") :
        /\ m[1].exe = "moonbeam_nativewrapper" /\ Len(m) = 4
        /\ next[1].exe = "astar_bridge_to_astarevm" /\ last[1].exe = "astar_evm_nativewrapper"
        /\ Follows(m, next) /\ Follows(next, last)}

\* A name in another case than the tables have.
Inexact(m) == [m EXCEPT ![Len(m)].exact = FALSE]

DeliveryRoutes ==
    {<<m>> : m \in MergedSteps("user")} \cup Pairs \cup ToAstarEvm
        \cup {<<Inexact(m)>> : m \in {Swapped(path, "user") : path \in Paths}}

\* PHA to Acala, which keeps it as a foreign asset.
AcalaRoutes ==
    {<<<<Step("phala_bridge_to_acala", "Phala", "Acala", "PHA", "PHA", Recipient("user", "Acala"))>>>>}
=============================================================================
