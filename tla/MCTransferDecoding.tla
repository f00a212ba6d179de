-------------------------- MODULE MCTransferDecoding --------------------------
(***************************************************************************)
(* Two transactions in decoding at once: a trade with transfers of each    *)
(* direction and one of a contract without metadata, and a payment that    *)
(* touches the same important token and one that is not stored.            *)
(***************************************************************************)
EXTENDS TransferDecoding

CONSTANTS trade, payment, usdc, weth, junk, meme, me, pool, router

AllTokens == {usdc, weth, junk, meme}

Between(from, to) == [from |-> from, to |-> to]

Logs    == trade   :> << usdc, weth, usdc, junk, usdc >> @@
           payment :> << usdc, meme >>
Ends    == trade   :> << Between(pool, me), Between(me, pool), Between(pool, me),
                         Between(pool, router), Between(pool, router) >> @@
           payment :> << Between(me, pool), Between(me, router) >>
Natives == trade   :> Between(me, router) @@ payment :> Between(pool, me)

Places == usdc :> 3 @@ weth :> 1 @@ junk :> 0 @@ meme :> 2

=============================================================================
