-------------------------- MODULE MCAnalyseCommand --------------------------
(***************************************************************************)
(* A small instance of AnalyseCommand: `swap` waits for a price, `routed`  *)
(* has one that nobody awaits.                                             *)
(***************************************************************************)
EXTENDS AnalyseCommand, TLC

CONSTANTS w, routed, swap, weth, usdc

OneWallet == {w}
ItsList   == {{w}}

TwoTokens == {weth, usdc}
TwoTxs    == {routed, swap}
Blocks    == routed :> 1 @@ swap :> 2
ItsTxs    == routed :> {w} @@ swap :> {w}

Tr(token, side, unit) == [token |-> token, side |-> side, unit |-> unit]

Summaries ==
    routed :> << Tr(usdc, "IN", "USD"), Tr(weth, "NONE", "ETH") >> @@
    swap   :> << Tr(usdc, "IN", "USD"), Tr(weth, "OUT", "ETH") >>

Symmetry == Permutations(Sessions)

(***************************************************************************)
(* How the driver hands over BIGINT columns, and what the mapper does with *)
(* an empty relation, is not in the repository.  A behaviour has one       *)
(* reading of both from its start: the one in which the resumption works   *)
(* and rows stay bound, or the one of runs streamer_text and               *)
(* streamer_unbound together.                                              *)
(***************************************************************************)
VARIABLE reading

Readings == { [text |-> FALSE, unbinds |-> FALSE],
              [text |-> TRUE,  unbinds |-> TRUE] }

Reading(r) == INSTANCE AnalyseCommand
              WITH BigintAsText <- r.text, EmptyUnbinds <- r.unbinds

InitReading == CommandInit /\ reading \in Readings

NextReading ==
    \E r \in Readings : r = reading /\ Reading(r)!CommandNext /\ UNCHANGED reading

SpecReading == InitReading /\ [][NextReading]_<<commandVars, reading>>

=============================================================================
