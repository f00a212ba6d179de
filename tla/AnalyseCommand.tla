--------------------------- MODULE AnalyseCommand ---------------------------
(***************************************************************************)
(* A command, from the request to its end: execute in                      *)
(* src/discord/Analysewallet.ts with its handler in src/app.ts, and        *)
(* handleCliMode.  It refreshes the prices, ingests the wallet's history   *)
(* (TransactionStreamer), analyses it (WalletAnalysis) and reads the       *)
(* wallet's row with its token rows for a report, which it never delivers: *)
(* see ReadReport.                                                         *)
(*                                                                         *)
(* Commands run at once, in one process or several, over one database.     *)
(* The streamer and the analysis meet in the wallet's row: each reads it   *)
(* whole, changes its own columns and saves it whole, with what it has     *)
(* read of the other's.  They meet in the transaction rows, too.           *)
(*                                                                         *)
(* All commands here are for one wallet, Target.  A minute is a block:     *)
(* the price table is modelled by the minute of its last candle.           *)
(***************************************************************************)
EXTENDS TransactionStreamer, FiniteSets, Sequences

CONSTANTS
    Target,
    Tokens, Summary, Timestamps, MaxAnalyses, NoTokenRow, \* see WalletAnalysis
    MaxBeside                    \* bound: analyses while several commands run

ASSUME TargetAssumption == Target \in Wallets /\ {Target} \in Lists
ASSUME BoundAssumption == MaxBeside \in Nat

VARIABLES
    tokenTable, walletRow, analysing, task, analyses, applied, overlap,
    priced,        \* minute of the last candle of the price table
    command,       \* where each command is
    kept           \* of the wallet's row, what each session holds in memory

analysisVars == <<tokenTable, walletRow, analysing, task, analyses, applied, overlap>>
ownVars      == <<priced, command, kept>>

commandVars == <<vars, analysisVars, ownVars>>

Analysis == INSTANCE WalletAnalysis
            WITH session <- analysing, Transactions <- Txs, TimeOf <- TxBlock, NoRow <- NoTokenRow

ASSUME AnalysisAssumption ==
    /\ Summary \in [Txs -> Seq(Analysis!Transfers)]
    /\ Timestamps \subseteq Nat
    /\ MaxAnalyses \in Nat
    /\ IsFiniteSet(Tokens)
    /\ NoTokenRow \notin Analysis!Counts

(***************************************************************************)
(* A command: where it is, the time it analyses from, and (history) whether*)
(* it has been undisturbed: no other command beside it, and nothing it     *)
(* awaited has failed.                                                     *)
(***************************************************************************)
Commands == [ pc     : {"idle", "prices", "stream", "read", "analysis", "report", "sorry"},
              from   : Nat,
              calm   : BOOLEAN ]

CommandTypeOK ==
    /\ TypeOK
    /\ Analysis!TypeOK
    /\ priced \in 0 .. MaxBlock
    /\ command \in [Sessions -> Commands]
    /\ kept \in [Sessions -> [row : Analysis!WalletRows, cursor : Nat \cup {NoRow}]]

NotStarted == [pc |-> "idle", from |-> 0, calm |-> TRUE]

NothingKept == [row |-> Analysis!Idle.wallet, cursor |-> 0]

(***************************************************************************)
(* The price table holds a candle from the start: without any, getEthOhlc  *)
(* refuses every command (src/ethOhlc/EthOhlcRepository.ts:33).            *)
(***************************************************************************)
CommandInit == /\ Init
               /\ Analysis!Init
               /\ priced = 0
               /\ command = [s \in Sessions |-> NotStarted]
               /\ kept = [s \in Sessions |-> NothingKept]

-----------------------------------------------------------------------------

InProgress(s) == command[s].pc # "idle"

Bounded(s) == (\E r \in Sessions \ {s} : InProgress(r)) => analyses < MaxBeside

Goes(s, to) == command' = [command EXCEPT ![s].pc = to]

\* An awaited call rejects: the command goes to the handler's catch.
Fails(s) == command' = [command EXCEPT ![s].pc = "sorry", ![s].calm = FALSE]

(***************************************************************************)
(* A request with a valid address and timestamp; each command has services *)
(* and a streamer of its own.                                              *)
(***************************************************************************)
Start(s, from) ==
    /\ ~ InProgress(s) /\ Bounded(s)
    /\ LET others == {r \in Sessions \ {s} : InProgress(r)}
       IN  command' = [r \in Sessions |->
              IF r = s
              THEN [pc |-> "prices", from |-> from, calm |-> others = {}]
              ELSE [command[r] EXCEPT !.calm = @ /\ r \notin others]]
    /\ UNCHANGED <<vars, analysisVars, priced, kept>>

(***************************************************************************)
(* getEthOhlc (see EthOhlcIngest): the table grows by whole minutes, to    *)
(* the present unless the service lags, another command is writing the     *)
(* same candles or the call fails.  Then the streamer gets its list.       *)
(***************************************************************************)
RefreshPrices(s) ==
    /\ command[s].pc = "prices"
    /\ priced' \in priced .. head
    /\ \/ Goes(s, "stream") /\ SetWalletList(s, {Target})
       \/ Fails(s) /\ UNCHANGED vars
    /\ UNCHANGED <<analysisVars, kept>>

-----------------------------------------------------------------------------
(***************************************************************************)
(* buildWalletTransactionHistory.  The streamer's object of the wallet is  *)
(* the row it read, or a fresh one; it saves it twice at most.             *)
(***************************************************************************)
StreamLoad(s) ==
    /\ LoadWallet(s, Target)
    /\ kept' = [kept EXCEPT ![s].row = walletRow]
    /\ UNCHANGED <<analysisVars, priced, command>>

WriteRow(row) ==
    /\ walletRow' = row
    /\ UNCHANGED <<tokenTable, analysing, task, analyses, applied, overlap>>

StreamCreate(s) ==
    /\ CreateWallet(s)
    /\ WriteRow(NothingKept.row)
    /\ kept' = [kept EXCEPT ![s] = NothingKept]
    /\ UNCHANGED <<priced, command>>

StreamAdvance(s) ==
    /\ AdvanceCursor(s)
    /\ WriteRow(kept[s].row)
    /\ UNCHANGED ownVars

StreamGoesOn(s) ==
    /\ \/ GetLatest(s) \/ GetLatestFails(s)
       \/ TreatAsNew(s, Target)
       \/ CreateFails(s)
       \/ RangeRejected(s) \/ FetchHistory(s) \/ FetchFails(s)
       \/ \E t \in Txs : SaveTransaction(s, t)
       \/ SaveFails(s)
       \/ Finish(s)
    /\ UNCHANGED <<analysisVars, ownVars>>

\* Mutant of HistoryBuilt: buildWalletTransactionHistory is not awaited.
HistoryBuiltAtOnce(s) == TRUE

HistoryBuilt(s) == session[s].pc = "done"

StreamReturns(s) ==
    /\ command[s].pc = "stream"
    /\ \/ HistoryBuilt(s) /\ Goes(s, "read")
       \/ session[s].pc = "failed" /\ Fails(s)
    /\ UNCHANGED <<vars, analysisVars, priced, kept>>

-----------------------------------------------------------------------------
(***************************************************************************)
(* createWalletTradingHistory, one transaction after the other; reading    *)
(* the transactions comes before its try.                                  *)
(***************************************************************************)
Stored == {t \in Txs : transactionTable[t] = Target}

ReadTransactions(s) ==
    /\ command[s].pc = "read" /\ Bounded(s)
    /\ \/ Analysis!Begin(s, command[s].from, FALSE, Stored) /\ Goes(s, "analysis")
       \/ Fails(s) /\ UNCHANGED analysisVars
    /\ UNCHANGED <<vars, priced, kept>>

(***************************************************************************)
(* findClosestRecord: a candle that opened less than 120 seconds away.     *)
(***************************************************************************)
PriceKnown(t) == TxBlock[t] <= priced + 1

NeedsPrice(s, t) ==
    \E p \in Analysis!Counted(t, task[s][t].at) : Summary[t][p[2]].unit = "ETH"

(***************************************************************************)
(* A step on transaction t.  A transaction without candidates has no main  *)
(* token, one without a price is left out: these failures are no trouble.  *)
(***************************************************************************)
AnalyseTransaction(s, t) ==
    /\ Analysis!TaskStep(s, t)
    /\ LET unpriced == task[s][t].pc = "price" /\ NeedsPrice(s, t) /\ ~ PriceKnown(t)
           failed == task'[s][t].pc = "failed"
       IN  /\ unpriced => failed
           /\ command' = [command EXCEPT ![s].calm =
                  @ /\ (failed => unpriced \/ Analysis!Candidates(t) = {})]
    /\ UNCHANGED <<vars, priced, kept>>

LatePrice(s, t) ==
    /\ PriceKnown(t)
    /\ Analysis!LatePrice(s, t)
    /\ UNCHANGED <<vars, ownVars>>

AnalysisLoad(s) ==
    /\ Analysis!LoadWallet(s)
    /\ kept' = [kept EXCEPT ![s].cursor = walletTable[Target]]
    /\ UNCHANGED <<vars, priced, command>>

AnalysisSum(s) == Analysis!SumRows(s) /\ UNCHANGED <<vars, ownVars>>

AnalysisSave(s) ==
    /\ Analysis!SaveWallet(s)
    /\ walletTable' = [walletTable EXCEPT ![Target] = kept[s].cursor]
    /\ UNCHANGED <<head, transactionTable, session, unlisted, ownVars>>

AnalysisFails(s) ==
    /\ Analysis!SummaryFails(s)
    /\ command' = [command EXCEPT ![s].calm = FALSE]
    /\ UNCHANGED <<vars, priced, kept>>

(***************************************************************************)
(* The call returns either way: its errors are logged, not thrown.         *)
(***************************************************************************)
AnalysisReturns(s) ==
    /\ command[s].pc = "analysis"
    /\ analysing[s].pc \in {"done", "failed"}
    /\ Goes(s, "report")
    /\ UNCHANGED <<vars, analysisVars, priced, kept>>

-----------------------------------------------------------------------------
(***************************************************************************)
(* find reads the wallet's row with its token rows, or rejects.  What it   *)
(* returns is never delivered: the row is there, since the streamer saved  *)
(* it, its money columns are bigints at run time (moneyScale.ts, lines     *)
(* 143-150), no toJSON is defined anywhere, and JSON.stringify throws a    *)
(* TypeError on a bigint.  So editReply and console.log are not reached,   *)
(* and the catch block is where a command that did all its work ends.      *)
(***************************************************************************)
ReadReport(s) ==
    /\ command[s].pc = "report"
    /\ Fails(s)
    /\ UNCHANGED <<vars, analysisVars, priced, kept>>

(***************************************************************************)
(* The apology of the catch block (the CLI ends with the error), and the   *)
(* command is over and its objects are garbage.  (A price still            *)
(* outstanding can but end the process, see ProcessEnds.)                  *)
(***************************************************************************)
Ends(s) ==
    /\ command' = [command EXCEPT ![s] = NotStarted]
    /\ kept' = [kept EXCEPT ![s] = NothingKept]
    /\ session' = [session EXCEPT ![s] = Idle]
    /\ analysing' = [analysing EXCEPT ![s] = Analysis!Idle]
    /\ task' = [task EXCEPT ![s] = [t \in Txs |-> Analysis!Off]]
    /\ UNCHANGED <<head, walletTable, transactionTable, unlisted,
                   tokenTable, walletRow, analyses, applied, overlap, priced>>

Apologise(s) == command[s].pc = "sorry" /\ Ends(s)

(***************************************************************************)
(* The process is killed, or ends by itself: the apology could not be sent *)
(* and nothing handles the rejection of the catch block, or a price nobody *)
(* awaits was refused.                                                     *)
(***************************************************************************)
ProcessEnds ==
    /\ Crash
    /\ Analysis!ProcessEnds
    /\ command' = [s \in Sessions |-> NotStarted]
    /\ kept' = [s \in Sessions |-> NothingKept]
    /\ UNCHANGED priced

BlockAppears == ChainGrows /\ UNCHANGED <<analysisVars, ownVars>>

CommandStep(s) ==
    \/ RefreshPrices(s)
    \/ StreamLoad(s) \/ StreamCreate(s) \/ StreamAdvance(s) \/ StreamGoesOn(s)
    \/ StreamReturns(s)
    \/ ReadTransactions(s)
    \/ \E t \in Txs : AnalyseTransaction(s, t)
    \/ AnalysisLoad(s) \/ AnalysisSum(s) \/ AnalysisSave(s) \/ AnalysisFails(s)
    \/ AnalysisReturns(s)
    \/ ReadReport(s) \/ Apologise(s)

CommandNext ==
    \/ \E s \in Sessions :
          \/ \E from \in Timestamps : Start(s, from)
          \/ CommandStep(s)
          \/ \E t \in Txs : LatePrice(s, t)
    \/ BlockAppears
    \/ ProcessEnds

CommandSpec == CommandInit /\ [][CommandNext]_commandVars

-----------------------------------------------------------------------------
(***************************************************************************)
(* When the analysis of a calm command has returned, the rows it reads     *)
(* for its report are complete, whatever crashed or failed before it:      *)
(* every transaction it had to analyse (listed up to the block it          *)
(* ingested, its row not detached by the mapper, newer than the command's  *)
(* timestamp, with a main token and a price) counts in a row, and the      *)
(* summary is the sum of the rows.  (src/app.ts lines 42-50.)  This is     *)
(* about the tables: nothing of them is delivered, see ReadReport.         *)
(***************************************************************************)
MustCount(s, t) ==
    /\ <<Target, t>> \notin unlisted
    /\ transactionTable[t] # Unbound
    /\ command[s].from < TxBlock[t] /\ TxBlock[t] <= session[s].latest
    /\ Analysis!Candidates(t) # {}
    /\ PriceKnown(t)

CalmRowsComplete ==
    \A s \in Sessions : command[s].pc = "report" /\ command[s].calm =>
        /\ walletRow.summary = Analysis!TotalOf(tokenTable)
        /\ \A t \in TxsOf(Target) : MustCount(s, t) =>
              /\ task[s][t].pc = "saved"
              /\ \A e \in Analysis!Entries :
                    /\ e[2] \in Analysis!Counted(t, task[s][t].at)
                    /\ Analysis!Awaited(e[2])
                    => Analysis!RowOf(task[s][t].token)[e] > 0

=============================================================================
