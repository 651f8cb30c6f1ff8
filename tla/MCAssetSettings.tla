---------------------------- MODULE MCAssetSettings ----------------------------
(* USDC without liquidity on one chain, to which a stub turns out to       *)
(* belong; a token of a chain without a daemon, which nobody updates.      *)
EXTENDS AssetSettings

MCRows == {"usdcBsc", "usdc", "hype"}
MCChainOf == ("usdcBsc" :> 56) @@ ("usdc" :> 1) @@ ("hype" :> 999)
MCStored == <<"hype", "usdcBsc">>
MCSymbolOf == [r \in MCRows |-> IF r = "hype" THEN "HYPE" ELSE "USDC"]
MCChanges == {"enabled" :> FALSE, "daily" :> TRUE}
=============================================================================
