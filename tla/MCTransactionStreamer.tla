------------------------ MODULE MCTransactionStreamer ------------------------
(***************************************************************************)
(* Small instances of TransactionStreamer.  `Disjoint` gives every         *)
(* transaction to one tracked wallet, `Shared` lists the last one under    *)
(* both, as a transfer between two tracked wallets is.                     *)
(***************************************************************************)
EXTENDS TransactionStreamer, TLC

CONSTANTS w1, w2, t1, t2, t3

TwoWallets == {w1, w2}
AsList     == {{w1}, {w1, w2}}      \* a Discord session, a longer list
JustOne    == {{w1}}

ThreeTxs      == {t1, t2, t3}
ThreeBlocks   == t1 :> 1 @@ t2 :> 3 @@ t3 :> 2
ThreeDisjoint == t1 :> {w1} @@ t2 :> {w1} @@ t3 :> {w2}
ThreeShared   == t1 :> {w1} @@ t2 :> {w1} @@ t3 :> {w1, w2}

=============================================================================
