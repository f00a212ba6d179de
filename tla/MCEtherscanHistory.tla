------------------------- MODULE MCEtherscanHistory -------------------------
(***************************************************************************)
(* Small instance of EtherscanHistory: two hashes share a timestamp; a     *)
(* hash is listed at most once as a normal transaction and any number of   *)
(* times as an internal one, both in the order of time.  Lists end before, *)
(* at and after the end of a page, and the longest fills every page.       *)
(***************************************************************************)
EXTENDS EtherscanHistory, TLC

CONSTANTS h1, h2, h3

ThreeHashes == {h1, h2, h3}
Times       == h1 :> 1 @@ h2 :> 1 @@ h3 :> 2

NormalLists   == {<<>>, <<h3>>, <<h2, h1>>, <<h1, h2, h3>>}
InternalLists == {<<>>, <<h2>>, <<h2, h2, h3>>, <<h2, h1, h1, h3>>}

SomeListings == {[normal |-> n, internal |-> i] : n \in NormalLists, i \in InternalLists}

=============================================================================
