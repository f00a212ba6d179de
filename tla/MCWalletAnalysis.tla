-------------------------- MODULE MCWalletAnalysis --------------------------
(***************************************************************************)
(* Small instances of WalletAnalysis.  `swap` sends ETH and receives two   *)
(* currencies; `routed` receives ETH while its other side shows no         *)
(* direction (the fallback); `mint` trades no currency at all.             *)
(***************************************************************************)
EXTENDS WalletAnalysis, TLC

CONSTANTS swap, routed, mint, weth, usdc, steth, nft

AllTokens == {weth, usdc, steth, nft}

Tr(token, side, unit) == [token |-> token, side |-> side, unit |-> unit]

ThreeTransactions == {swap, routed, mint}
Times     == swap :> 2 @@ routed :> 1 @@ mint :> 1
Summaries ==
    swap   :> << Tr(weth, "OUT", "ETH"), Tr(usdc, "IN", "USD"), Tr(steth, "IN", "ETH") >> @@
    routed :> << Tr(weth, "IN", "ETH"), Tr(nft, "NONE", "OTHER"),
                 Tr(usdc, "NONE", "USD"), Tr(steth, "NONE", "ETH") >> @@
    mint   :> << Tr(nft, "IN", "OTHER") >>

=============================================================================
