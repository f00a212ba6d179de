---------------------------- MODULE HistoryFetch ----------------------------
(***************************************************************************)
(* What constructGlobalTransactionHistory promises its caller, the         *)
(* streamer: the set of hashes it resolves with holds everything the       *)
(* explorer listed when the call began, and nothing it has never listed;   *)
(* it never resolves with less, and it settles once.  Only if the chain is *)
(* reorganised meanwhile, anything may be missing.                         *)
(***************************************************************************)
CONSTANT Hashes

VARIABLES
    listed,    \* the hashes the explorer lists for the wallet and the range
    promised,  \* those it listed when the call began
    dropped,   \* those it no longer lists
    outcome,   \* "running", "resolved" or "rejected"
    result     \* the hashes the call resolved with

vars == <<listed, promised, dropped, outcome, result>>

Init == /\ listed \in SUBSET Hashes
        /\ promised = listed
        /\ dropped = {}
        /\ outcome = "running"
        /\ result = {}

(***************************************************************************)
(* The explorer indexes more of the range.                                 *)
(***************************************************************************)
Index == /\ listed' \in SUBSET Hashes
         /\ listed \subseteq listed'
         /\ UNCHANGED <<promised, dropped, outcome, result>>

(***************************************************************************)
(* A reorganisation of the chain takes hashes off the list.                *)
(***************************************************************************)
Reorganise == /\ listed' \in SUBSET listed
              /\ dropped' \in SUBSET Hashes
              /\ listed \cup dropped = listed' \cup dropped'
              /\ promised' = {}
              /\ UNCHANGED <<outcome, result>>

Resolve == /\ outcome = "running"
           /\ result' \in SUBSET (listed \cup dropped)
           /\ promised \subseteq result'
           /\ outcome' = "resolved"
           /\ UNCHANGED <<listed, promised, dropped>>

Reject == /\ outcome = "running"
          /\ outcome' = "rejected"
          /\ UNCHANGED <<listed, promised, dropped, result>>

Next == Index \/ Reorganise \/ Resolve \/ Reject

Spec == Init /\ [][Next]_vars /\ WF_vars(Resolve \/ Reject)

=============================================================================
