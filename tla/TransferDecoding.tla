--------------------------- MODULE TransferDecoding ---------------------------
(***************************************************************************)
(* TransactionService.getTransactionTransferSummaryFromLog: when the       *)
(* tokens of a transaction are known (TokenMetadata), its native value and *)
(* its Transfer logs become a list of transfers, in which the transfers of *)
(* one token between the same parties are added up.                        *)
(***************************************************************************)
EXTENDS TokenMetadata, Amounts

CONSTANTS
    Accounts,
    Wallet,           \* the account under analysis
    NativeToken,      \* "0x0", with the decimals and the symbol of ether
    PartiesOf,        \* sender and receiver in each log of each transaction
    NativeOf,         \* those of the transaction's own value
    Raws,             \* amounts that occur
    DecimalsOf,       \* decimals of each token's contract
    DefaultDecimals,  \* DEFAULT_TOKEN_DECIMALS, and those of ether
    DisplayDigits,    \* fraction digits of `amount`
    Scale             \* SCALE

Parties == [from : Accounts, to : Accounts]

ASSUME DecodingAssumption ==
    /\ NativeToken \notin Tokens
    /\ Wallet \in Accounts /\ "NONE" \notin Accounts
    /\ NativeOf \in [Lookups -> Parties]
    /\ \A l \in Lookups : PartiesOf[l] \in [DOMAIN LogsOf[l] -> Parties]
    /\ Raws \subseteq Nat
    /\ DecimalsOf \in [Tokens -> Nat]
    /\ {DefaultDecimals, DisplayDigits, Scale} \subseteq Nat

VARIABLES
    transfers,   \* the transfers of each transaction, as decoded
    summary      \* the aggregated list

vars == <<tokenTable, lookup, answered, transfers, summary>>

TransferTransactions ==
    [ token : Tokens \cup {NativeToken}, from : Accounts, to : Accounts,
      status : {"IN", "OUT", "NONE"}, raw : Nat, decimals : Nat, amount : Nat ]

TypeOK == /\ MetadataTypeOK
          /\ transfers \in [Lookups -> Seq(TransferTransactions)]
          /\ summary \in [Lookups -> Seq(TransferTransactions)]

Init == /\ MetadataInit
        /\ transfers = [l \in Lookups |-> <<>>]
        /\ summary = [l \in Lookups |-> <<>>]

-----------------------------------------------------------------------------

(***************************************************************************)
(* determineTransactionType: the sender is looked at first.                *)
(***************************************************************************)
Status(parties) == IF parties.from = Wallet THEN "OUT"
                   ELSE IF parties.to = Wallet THEN "IN" ELSE "NONE"

Transfer(token, parties, raw, decimals, status) ==
    LET shown == FormatDecimal(raw, decimals, DisplayDigits)
    IN  [ token |-> token, from |-> parties.from, to |-> parties.to, status |-> status,
          raw |-> raw, decimals |-> decimals, amount |-> ParseDecimal(shown, DisplayDigits) ]

(***************************************************************************)
(* addTransferTransactionIfValue: value is taken to go out.                *)
(***************************************************************************)
NativeTransfer(l, value) ==
    IF value = 0
    THEN <<>>
    ELSE << Transfer(NativeToken, NativeOf[l], value, DefaultDecimals, "OUT") >>

LogTransfers(l, raws) ==
    [ i \in DOMAIN LogsOf[l] |->
        LET details == lookup[l].details[LogsOf[l][i]]
        IN  Transfer(LogsOf[l][i], PartiesOf[l][i], raws[i],
                     IF details.decimals = "own" THEN DecimalsOf[LogsOf[l][i]]
                                                 ELSE DefaultDecimals,
                     Status(PartiesOf[l][i])) ]

(***************************************************************************)
(* aggregateTransferTransactions: same token and sender, and same receiver *)
(* or, if the wallet is neither, any.                                      *)
(***************************************************************************)
\* Mutant of Key: the receiver is not looked at.
KeySender(tx) == << tx.token, tx.from >>

Key(tx) == << tx.token, tx.from, IF tx.status = "NONE" THEN tx.status ELSE tx.to >>

\* Mutants of Added: the amounts shown are added; the last amount stays.
AddedAsShown(row, tx) ==
    LET sum == AddRawAmounts(row.raw, row.decimals, tx.raw, tx.decimals)
    IN  [row EXCEPT !.raw = sum.raw, !.decimals = sum.decimals, !.amount = @ + tx.amount]

AddedLast(row, tx) ==
    [row EXCEPT !.raw = tx.raw, !.decimals = tx.decimals, !.amount = tx.amount]

Added(row, tx) ==
    LET sum == AddRawAmounts(row.raw, row.decimals, tx.raw, tx.decimals)
    IN  [row EXCEPT !.raw = sum.raw,
                    !.decimals = sum.decimals,
                    !.amount = ParseDecimal(FormatDecimal(sum.raw, sum.decimals, DisplayDigits),
                                            DisplayDigits)]

Aggregated(rows, tx) ==
    IF \E i \in DOMAIN rows : Key(rows[i]) = Key(tx)
    THEN [i \in DOMAIN rows |-> IF Key(rows[i]) = Key(tx) THEN Added(rows[i], tx) ELSE rows[i]]
    ELSE Append(rows, tx)

AllAggregated(txs) == FoldLeft(Aggregated, <<>>, txs)

(***************************************************************************)
(* All of it happens between two awaits, once the tokens are known.        *)
(***************************************************************************)
Decode(l) ==
    /\ lookup[l].pc = "done" /\ summary[l] = <<>>
    /\ \E raws \in [DOMAIN LogsOf[l] -> Raws], value \in Raws \cup {0} :
          LET all == NativeTransfer(l, value) \o LogTransfers(l, raws)
          IN  /\ transfers' = [transfers EXCEPT ![l] = all]
              /\ summary' = [summary EXCEPT ![l] = AllAggregated(all)]
    /\ UNCHANGED metadataVars

Next == \/ MetadataNext /\ UNCHANGED <<transfers, summary>>
        \/ \E l \in Lookups : Decode(l)

Spec == Init /\ [][Next]_vars
             /\ \A l \in Lookups : WF_vars(LookupStep(l) /\ UNCHANGED <<transfers, summary>>)

-----------------------------------------------------------------------------

RawOf(txs, token) ==
    FoldLeft(LAMBDA sum, tx : IF tx.token = token THEN sum + tx.raw ELSE sum, 0, txs)

(***************************************************************************)
(* Adding up loses and invents nothing: every transfer is in one row, and  *)
(* each token's rows sum to its transfers.                                 *)
(***************************************************************************)
SumsConserved ==
    \A l \in Lookups :
        /\ {Key(transfers[l][i]) : i \in DOMAIN transfers[l]}
               = {Key(summary[l][i]) : i \in DOMAIN summary[l]}
        /\ Cardinality({Key(summary[l][i]) : i \in DOMAIN summary[l]}) = Len(summary[l])
        /\ \A token \in Tokens \cup {NativeToken} :
               RawOf(summary[l], token) = RawOf(transfers[l], token)

(***************************************************************************)
(* The direction of a row is that of everything added up in it.            *)
(***************************************************************************)
DirectionKept ==
    \A l \in Lookups :
        \A i \in DOMAIN transfers[l] :
            \E j \in DOMAIN summary[l] :
                /\ Key(summary[l][j]) = Key(transfers[l][i])
                /\ summary[l][j].status = transfers[l][i].status

(***************************************************************************)
(* "Reported amounts must never overstate a value", and understate it by   *)
(* less than one unit of the last digit shown, also after adding up.       *)
(***************************************************************************)
NeverOverstated ==
    \A l \in Lookups : \A i \in DOMAIN summary[l] :
        LET row == summary[l][i]
        IN  /\ row.amount * Pow10[row.decimals] <= row.raw * Pow10[DisplayDigits]
            /\ row.raw * Pow10[DisplayDigits] < (row.amount + 1) * Pow10[row.decimals]

(***************************************************************************)
(* An amount counted in a token row is the transfer's at the scale of the  *)
(* columns, cut and never rounded up; it, and what is left when it is      *)
(* taken from zero, survives the way to a DECIMAL column and back.         *)
(***************************************************************************)
StoredExactly ==
    \A l \in Lookups : \A i \in DOMAIN summary[l] :
        LET row    == summary[l][i]
            scaled == ScaledFromUnits(row.raw, row.decimals, Scale)
        IN  /\ scaled * Pow10[row.decimals] <= row.raw * Pow10[Scale]
            /\ row.raw * Pow10[Scale] < (scaled + 1) * Pow10[row.decimals]
            /\ \A n \in {scaled, - scaled} : ColumnFrom(ColumnTo(n, Scale), Scale) = n

=============================================================================
