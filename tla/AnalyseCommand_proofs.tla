------------------------ MODULE AnalyseCommand_proofs ------------------------
(***************************************************************************)
(* Proofs about AnalyseCommand: the streamer's promise about its cursors   *)
(* survives the analysis, which saves the whole wallet row with a cursor   *)
(* it read some time ago, the commands that run beside it, and crashes;    *)
(* and what holds of the token rows survives the streamer, which saves the *)
(* whole wallet row with a summary it read.  Both together make complete   *)
(* what a command that nothing disturbed leaves in the tables.             *)
(***************************************************************************)
EXTENDS AnalyseCommand, TransactionStreamer_proofs

(***************************************************************************)
(* The cursor a session holds in memory may be old, but what it passes is  *)
(* in the database: nothing is ever taken out.                             *)
(***************************************************************************)
KeptType ==
    /\ kept = [s \in Sessions |-> kept[s]]
    /\ \A s \in Sessions :
          /\ kept[s] = [row |-> kept[s].row, cursor |-> kept[s].cursor]
          /\ kept[s].cursor \in Nat \cup {NoRow}

KeptCovered == \A s \in Sessions : Covered(Target, kept[s].cursor)

CommandInv == TypeInv /\ IngestInv /\ KeptType /\ KeptCovered

-----------------------------------------------------------------------------

(***************************************************************************)
(* No step of the streamer invalidates the cursors held in memory.         *)
(***************************************************************************)
LEMMA StreamerKeepsCovered ==
    ASSUME CommandInv, [Next]_vars,
           \A s \in Sessions : kept'[s].cursor = kept[s].cursor
    PROVE  KeptCovered'
  BY CoveredStable, TargetAssumption
     DEF CommandInv, IngestInv, SessionInv, KeptCovered, Covered

LEMMA StreamerStep ==
    ASSUME CommandInv, [Next]_vars, kept' = kept
    PROVE  CommandInv'
  <1>1. TypeInv' /\ IngestInv'
    BY TypeStep, IngestStep DEF CommandInv
  <1>2. KeptType'
    BY DEF CommandInv, KeptType
  <1>3. QED
    BY <1>1, <1>2, StreamerKeepsCovered DEF CommandInv

(***************************************************************************)
(* A step beside the streamer: no row of a transaction changes, and a      *)
(* session's record stays or is dropped.                                   *)
(***************************************************************************)
LEMMA BesideStreamer ==
    ASSUME CommandInv, UNCHANGED <<transactionTable, unlisted>>,
           NEW s \in Sessions, session'[s] = session[s] \/ session'[s] = Idle
    PROVE  SessionInv(s)'
  <1>1. CASE session'[s] = session[s]
    BY <1>1 DEF CommandInv, IngestInv, SessionInv, Fetching, Saving, Progress, Covered,
                Kept, Exclusive
  <1>2. CASE session'[s] = Idle
    BY <1>2 DEF Idle, SessionInv, Fetching, Saving, Progress
  <1>3. QED
    BY <1>1, <1>2

(***************************************************************************)
(* The fresh object's cursor is 0, and no transaction is in block 0.       *)
(***************************************************************************)
LEMMA NothingKeptCovers == Covered(Target, NothingKept.cursor)
  BY TxAssumption DEF NothingKept, Covered, TxsOf

-----------------------------------------------------------------------------

LEMMA CommandInvInit == ASSUME CommandInit PROVE CommandInv
  <1>1. TypeInv /\ IngestInv
    BY TypeInit, IngestInit DEF CommandInit
  <1>2. kept = [s \in Sessions |-> NothingKept]
    BY DEF CommandInit
  <1>3. KeptType
    BY <1>2 DEF KeptType, NothingKept
  <1>4. KeptCovered
    BY <1>2, NothingKeptCovers DEF KeptCovered
  <1>5. QED
    BY <1>1, <1>3, <1>4 DEF CommandInv

LEMMA CommandInvStep ==
    ASSUME CommandInv, [CommandNext]_commandVars
    PROVE  CommandInv'
  <1>t. /\ KeptType /\ KeptCovered /\ TypeInv /\ IngestInv
        /\ session \in [Sessions -> States]
        /\ walletTable \in [Wallets -> Nat \cup {NoRow}]
        /\ Target \in Wallets /\ {Target} \in Lists
    BY TargetAssumption DEF CommandInv, TypeInv, TypeOK
  <1>1. ASSUME UNCHANGED <<vars, kept>> PROVE CommandInv'
    BY <1>1, StreamerStep
  <1>2. ASSUME NEW s \in Sessions, RefreshPrices(s) PROVE CommandInv'
    <2>1. kept' = kept /\ (SetWalletList(s, {Target}) \/ UNCHANGED vars)
      BY <1>2 DEF RefreshPrices
    <2>2. [Next]_vars
      BY <1>t, <2>1 DEF Next, StartSession
    <2>3. QED
      BY <2>1, <2>2, StreamerStep
  <1>3. ASSUME NEW s \in Sessions, StreamLoad(s) PROVE CommandInv'
    <2>1. /\ [Next]_vars
          /\ kept' = [kept EXCEPT ![s].row = walletRow]
      BY <1>3, <1>t DEF StreamLoad, Next, SessionStep
    <2>2. KeptType' /\ \A r \in Sessions : kept'[r].cursor = kept[r].cursor
      BY <1>t, <2>1 DEF KeptType
    <2>3. QED
      BY <1>t, <2>1, <2>2, TypeStep, IngestStep, StreamerKeepsCovered DEF CommandInv
  <1>4. ASSUME NEW s \in Sessions, StreamCreate(s) PROVE CommandInv'
    <2>1. /\ [Next]_vars
          /\ kept' = [kept EXCEPT ![s] = NothingKept]
      BY <1>4 DEF StreamCreate, Next, SessionStep
    <2>2. KeptType'
      BY <1>t, <2>1 DEF KeptType, NothingKept
    <2>3. KeptCovered'
      <3>1. ASSUME NEW r \in Sessions, r # s PROVE Covered(Target, kept[r].cursor)'
        <4>1. kept'[r] = kept[r]
          BY <1>t, <2>1, <3>1 DEF KeptType
        <4>2. QED
          BY <1>t, <2>1, <4>1, CoveredStable
             DEF KeptCovered, Covered, IngestInv, SessionInv
      <3>2. kept'[s] = NothingKept
        BY <1>t, <2>1 DEF KeptType
      <3>3. Covered(Target, kept[s].cursor)'
        BY <3>2, TxAssumption DEF NothingKept, Covered, TxsOf
      <3>4. QED
        BY <3>1, <3>3 DEF KeptCovered
    <2>4. QED
      BY <1>t, <2>1, <2>2, <2>3, TypeStep, IngestStep DEF CommandInv
  <1>5. ASSUME NEW s \in Sessions, StreamAdvance(s) PROVE CommandInv'
    BY <1>5, StreamerStep DEF StreamAdvance, ownVars, Next, SessionStep
  <1>6. ASSUME NEW s \in Sessions, StreamGoesOn(s) PROVE CommandInv'
    BY <1>6, <1>t, StreamerStep DEF StreamGoesOn, ownVars, Next, SessionStep
  <1>7. ASSUME NEW s \in Sessions, AnalysisLoad(s) PROVE CommandInv'
    <2>1. /\ UNCHANGED vars
          /\ kept' = [kept EXCEPT ![s].cursor = walletTable[Target]]
      BY <1>7 DEF AnalysisLoad
    <2>2. /\ KeptType'
          /\ kept'[s].cursor = walletTable[Target]
          /\ \A r \in Sessions \ {s} : kept'[r].cursor = kept[r].cursor
      BY <1>t, <2>1 DEF KeptType
    <2>3. \A r \in Sessions : Covered(Target, kept'[r].cursor)
      BY <1>t, <2>2 DEF KeptCovered, IngestInv, CoverInv
    <2>4. KeptCovered'
      BY <2>1, <2>3 DEF vars, KeptCovered, Covered, Kept, Exclusive
    <2>5. QED
      BY <1>t, <2>1, <2>2, <2>4, TypeStep, IngestStep DEF CommandInv
  <1>8. ASSUME NEW s \in Sessions, AnalysisSave(s) PROVE CommandInv'
    <2>1. /\ walletTable' = [walletTable EXCEPT ![Target] = kept[s].cursor]
          /\ UNCHANGED <<head, transactionTable, session, unlisted, kept>>
      BY <1>8 DEF AnalysisSave, ownVars
    <2>2. TypeInv'
      BY <1>t, <2>1 DEF TypeInv, TypeOK, KeptType
    <2>3. CoverInv'
      BY <1>t, <2>1 DEF CoverInv, IngestInv, KeptCovered, Covered, Kept, Exclusive
    <2>4. \A r \in Sessions : SessionInv(r)'
      BY <2>1, BesideStreamer
    <2>5. KeptType' /\ KeptCovered'
      BY <1>t, <2>1 DEF KeptType, KeptCovered, Covered, Kept, Exclusive
    <2>6. QED
      BY <2>2, <2>3, <2>4, <2>5 DEF CommandInv, IngestInv
  <1>9. ASSUME NEW s \in Sessions, Ends(s) PROVE CommandInv'
    <2>1. /\ kept' = [kept EXCEPT ![s] = NothingKept]
          /\ session' = [session EXCEPT ![s] = Idle]
          /\ UNCHANGED <<head, walletTable, transactionTable, unlisted>>
      BY <1>9 DEF Ends
    <2>2. TypeInv'
      BY <1>t, <2>1, IdleType DEF TypeInv, TypeOK, Idle
    <2>3. CoverInv'
      BY <1>t, <2>1 DEF CoverInv, IngestInv, Covered, Kept, Exclusive
    <2>4. ASSUME NEW r \in Sessions PROVE SessionInv(r)'
      <3>1. session'[r] = session[r] \/ session'[r] = Idle
        BY <1>t, <2>1
      <3>2. QED
        BY <2>1, <3>1, BesideStreamer
    <2>5. KeptType'
      BY <1>t, <2>1 DEF KeptType, NothingKept
    <2>6. ASSUME NEW r \in Sessions PROVE Covered(Target, kept[r].cursor)'
      <3>1. kept'[r] = kept[r] \/ kept'[r].cursor = 0
        BY <1>t, <2>1 DEF KeptType, NothingKept
      <3>2. CASE kept'[r] = kept[r]
        BY <1>t, <2>1, <3>2 DEF KeptCovered, Covered, Kept, Exclusive
      <3>3. CASE kept'[r].cursor = 0
        BY <3>3, TxAssumption DEF Covered, TxsOf
      <3>4. QED
        BY <3>1, <3>2, <3>3
    <2>7. QED
      BY <2>2, <2>3, <2>4, <2>5, <2>6 DEF CommandInv, IngestInv, KeptCovered
  <1>10. CASE ProcessEnds
    <2>1. /\ [Next]_vars
          /\ kept' = [s \in Sessions |-> NothingKept]
      BY <1>10 DEF ProcessEnds, Next
    <2>2. KeptType'
      BY <2>1 DEF KeptType, NothingKept
    <2>3. KeptCovered'
      BY <2>1, TxAssumption DEF KeptCovered, NothingKept, Covered, TxsOf
    <2>4. QED
      BY <1>t, <2>1, <2>2, <2>3, TypeStep, IngestStep DEF CommandInv
  <1>11. CASE BlockAppears
    BY <1>11, StreamerStep DEF BlockAppears, ownVars, Next
  <1>12. ASSUME NEW s \in Sessions, Apologise(s) PROVE CommandInv'
    BY <1>12, <1>9 DEF Apologise
  <1>13. CASE UNCHANGED commandVars
    BY <1>13, <1>1 DEF commandVars, ownVars
  <1>14. QED
    BY <1>1, <1>2, <1>3, <1>4, <1>5, <1>6, <1>7, <1>8, <1>10, <1>11, <1>12, <1>13
       DEF CommandNext, CommandStep, ownVars, Start, StreamReturns, ReadTransactions,
           AnalyseTransaction, LatePrice, AnalysisSum, AnalysisFails, AnalysisReturns,
           ReadReport

LEMMA CommandInvariant == CommandSpec => []CommandInv
  <1>1. CommandInit => CommandInv
    BY CommandInvInit
  <1>2. CommandInv /\ [CommandNext]_commandVars => CommandInv'
    BY CommandInvStep
  <1>3. QED
    BY <1>1, <1>2, PTL DEF CommandSpec

-----------------------------------------------------------------------------

(***************************************************************************)
(* Beside any number of analyses, too, the cursor of a wallet's row never  *)
(* passes a transaction missing from the database.                         *)
(***************************************************************************)
THEOREM CursorSafeBesideAnalysis == CommandSpec => []CursorCovers
  <1>1. CommandInv => CursorCovers
    BY DEF CommandInv, IngestInv, CoverInv, Covered, Kept, CursorCovers, Cursor
  <1>2. QED
    BY <1>1, CommandInvariant, PTL

(***************************************************************************)
(* And if tracked wallets share no transaction and the mapper detaches     *)
(* nothing, what the cursor has passed is bound to the wallet, so the      *)
(* analysis finds it among the wallet's transactions.                      *)
(***************************************************************************)
THEOREM HistoryBoundBesideAnalysis ==
    ASSUME Exclusive
    PROVE  CommandSpec => []CursorCoversOwn
  <1>1. CommandInv => CursorCoversOwn
    BY DEF CommandInv, IngestInv, CoverInv, Covered, Kept, CursorCoversOwn, Cursor
  <1>2. QED
    BY <1>1, CommandInvariant, PTL

-----------------------------------------------------------------------------
(***************************************************************************)
(* The analyses of the commands are those WalletAnalysis_proofs is about:  *)
(* its lemmas hold of them.                                                *)
(***************************************************************************)
Rows == INSTANCE WalletAnalysis_proofs
        WITH session <- analysing, Transactions <- Txs, TimeOf <- TxBlock, NoRow <- NoTokenRow

LEMMA RowsAssumptions ==
    /\ Summary \in [Txs -> Seq(Rows!Transfers)]
    /\ TxBlock \in [Txs -> Nat]
    /\ Timestamps \subseteq Nat
    /\ MaxAnalyses \in Nat
    /\ Rows!IsFiniteSet(Tokens)
    /\ NoTokenRow \notin Rows!Counts
  <1>1. Rows!Transfers = Analysis!Transfers
    BY DEF Rows!Transfers, Analysis!Transfers
  <1>2. Rows!Counts = Analysis!Counts
    BY DEF Rows!Counts, Rows!Entries, Rows!Places,
           Analysis!Counts, Analysis!Entries, Analysis!Places
  <1>3. Rows!IsFiniteSet(Tokens)
    BY AnalysisAssumption DEF Rows!IsFiniteSet, IsFiniteSet
  <1>4. QED
    BY <1>1, <1>2, <1>3, AnalysisAssumption, TxAssumption

LEMMA SameAnalysis ==
    /\ Analysis!Init <=> Rows!Init
    /\ Analysis!TypeOK <=> Rows!TypeOK
    /\ Analysis!NothingCountedTwice <=> Rows!NothingCountedTwice
    /\ Analysis!NoUpdateLost <=> Rows!NoUpdateLost
    /\ Analysis!ProcessEnds <=> Rows!ProcessEnds
    /\ \A s : Analysis!LoadWallet(s) <=> Rows!LoadWallet(s)
    /\ \A s : Analysis!SumRows(s) <=> Rows!SumRows(s)
    /\ \A s : Analysis!SaveWallet(s) <=> Rows!SaveWallet(s)
    /\ \A s : Analysis!SummaryFails(s) <=> Rows!SummaryFails(s)
    /\ \A s, t : Analysis!TaskStep(s, t) <=> Rows!TaskStep(s, t)
    /\ \A s, t : Analysis!LatePrice(s, t) <=> Rows!LatePrice(s, t)
    /\ \A s, from, concurrent, stored :
           Analysis!Begin(s, from, concurrent, stored) <=> Rows!Begin(s, from, concurrent, stored)
  <1> USE DEF Analysis!Places, Rows!Places, Analysis!Side, Rows!Side,
              Analysis!Entries, Rows!Entries, Analysis!Column, Rows!Column,
              Analysis!Counts, Rows!Counts, Analysis!Nothing, Rows!Nothing,
              Analysis!Plus, Rows!Plus, Analysis!WalletRows, Rows!WalletRows,
              Analysis!SessionStates, Rows!SessionStates, Analysis!TaskStates,
              Rows!TaskStates, Analysis!TypeOK, Rows!TypeOK, Analysis!Off,
              Rows!Off, Analysis!Idle, Rows!Idle, Analysis!Init, Rows!Init,
              Analysis!Ended, Rows!Ended, Analysis!InProgress, Rows!InProgress,
              Analysis!Busy, Rows!Busy, Analysis!Begin, Rows!Begin,
              Analysis!MayStart, Rows!MayStart, Analysis!Move, Rows!Move,
              Analysis!Throws, Rows!Throws, Analysis!Candidates, Rows!Candidates,
              Analysis!Directed, Rows!Directed, Analysis!Fallback, Rows!Fallback,
              Analysis!Counted, Rows!Counted, Analysis!NotAwaited, Rows!NotAwaited,
              Analysis!ReceiptArrives, Rows!ReceiptArrives, Analysis!MainFound,
              Rows!MainFound, Analysis!FindRow, Rows!FindRow, Analysis!FindFails,
              Rows!FindFails, Analysis!PricesArrive, Rows!PricesArrive,
              Analysis!PriceFails, Rows!PriceFails, Analysis!LatePrice,
              Rows!LatePrice, Analysis!SaveSelect, Rows!SaveSelect,
              Analysis!DuplicateEntry, Rows!DuplicateEntry,
              Analysis!ChangedColumns, Rows!ChangedColumns, Analysis!Written,
              Rows!Written, Analysis!SaveWrite, Rows!SaveWrite, Analysis!SaveFails,
              Rows!SaveFails, Analysis!TaskStep, Rows!TaskStep,
              Analysis!SessionMoves, Rows!SessionMoves, Analysis!LoadWallet,
              Rows!LoadWallet, Analysis!TotalOf, Rows!TotalOf, Analysis!SumRows,
              Rows!SumRows, Analysis!SaveWallet, Rows!SaveWallet,
              Analysis!SummaryFails, Rows!SummaryFails, Analysis!ProcessEnds,
              Rows!ProcessEnds, Analysis!RowOf, Rows!RowOf,
              Analysis!NothingCountedTwice, Rows!NothingCountedTwice,
              Analysis!NoUpdateLost, Rows!NoUpdateLost, Analysis!Awaited,
              Rows!Awaited, Analysis!Transfers, Rows!Transfers, Analysis!Min,
              Rows!Min, Analysis!MapThenSumSet, Rows!MapThenSumSet,
              Analysis!MapThenFoldSet, Rows!MapThenFoldSet, Analysis!Cardinality,
              Rows!Cardinality, Analysis!IsFiniteSet, Rows!IsFiniteSet,
              Analysis!vars
  <1>1. Analysis!Init <=> Rows!Init
    OBVIOUS
  <1>2. Analysis!TypeOK <=> Rows!TypeOK
    OBVIOUS
  <1>3. Analysis!NothingCountedTwice <=> Rows!NothingCountedTwice
    OBVIOUS
  <1>4. Analysis!NoUpdateLost <=> Rows!NoUpdateLost
    OBVIOUS
  <1>5. Analysis!ProcessEnds <=> Rows!ProcessEnds
    OBVIOUS
  <1>6. \A s : Analysis!LoadWallet(s) <=> Rows!LoadWallet(s)
    OBVIOUS
  <1>7. \A s : Analysis!SumRows(s) <=> Rows!SumRows(s)
    OBVIOUS
  <1>8. \A s : Analysis!SaveWallet(s) <=> Rows!SaveWallet(s)
    OBVIOUS
  <1>9. \A s : Analysis!SummaryFails(s) <=> Rows!SummaryFails(s)
    OBVIOUS
  <1>10. \A s, t : Analysis!TaskStep(s, t) <=> Rows!TaskStep(s, t)
    OBVIOUS
  <1>11. \A s, t : Analysis!LatePrice(s, t) <=> Rows!LatePrice(s, t)
    OBVIOUS
  <1>12. \A s, from, concurrent, stored :
             Analysis!Begin(s, from, concurrent, stored) <=> Rows!Begin(s, from, concurrent, stored)
    OBVIOUS
  <1>13. QED
    BY <1>1, <1>2, <1>3, <1>4, <1>5, <1>6, <1>7, <1>8, <1>9, <1>10, <1>11, <1>12

(***************************************************************************)
(* What the commands add: an analysis starts from a time somebody asked    *)
(* for, and a streamer's object of the wallet holds a row.                 *)
(***************************************************************************)
Asked(c) == c \in Commands /\ (c.pc \in {"prices", "stream", "read"} => c.from \in Timestamps)

Objects == [row : Analysis!WalletRows, cursor : Nat \cup {NoRow}]

OwnInv ==
    /\ priced \in 0 .. MaxBlock
    /\ command = [s \in Sessions |-> command[s]]
    /\ \A s \in Sessions : Asked(command[s])
    /\ kept \in [Sessions -> Objects]

WholeInv == CommandInv /\ OwnInv /\ Rows!RowsInv

LEMMA NothingKeptType == NothingKept \in Objects
  <1>1. [p \in Analysis!Places |-> 0] \in [Analysis!Places -> Nat]
    OBVIOUS
  <1>2. Analysis!Idle.wallet \in Analysis!WalletRows
    BY <1>1 DEF Analysis!Idle, Analysis!WalletRows
  <1>3. QED
    BY <1>2 DEF NothingKept, Objects

LEMMA WalletRowType == ASSUME Rows!RowsInv PROVE walletRow \in Analysis!WalletRows
  <1>1. Rows!TypeOK
    BY RowsAssumptions, Rows!RowsMean
  <1>2. QED
    BY <1>1, SameAnalysis DEF Analysis!TypeOK

(***************************************************************************)
(* Every step of a command is one of the analyses, or one that may happen  *)
(* beside them.                                                            *)
(***************************************************************************)
LEMMA AnalysesStep ==
    ASSUME OwnInv, Rows!RowsInv, [CommandNext]_commandVars
    PROVE  [Rows!OpenNext]_(Rows!vars)
  <1>1. ASSUME UNCHANGED analysisVars PROVE [Rows!OpenNext]_(Rows!vars)
    BY <1>1 DEF analysisVars, Rows!vars
  <1>2. ASSUME NEW row \in Analysis!WalletRows, WriteRow(row) PROVE Rows!RowPut
    <2>1. Rows!WalletRows = Analysis!WalletRows
      BY DEF Rows!WalletRows, Rows!Places, Analysis!WalletRows, Analysis!Places
    <2>2. QED
      BY <1>2, <2>1 DEF WriteRow, Rows!RowPut
  <1>3. ASSUME NEW s \in Sessions, StreamCreate(s) PROVE Rows!OpenNext
    <2>1. NothingKept.row \in Analysis!WalletRows
      BY NothingKeptType DEF Objects
    <2>2. QED
      BY <1>2, <1>3, <2>1 DEF StreamCreate, Rows!OpenNext, Rows!RunNext
  <1>4. ASSUME NEW s \in Sessions, StreamAdvance(s) PROVE Rows!OpenNext
    <2>1. kept[s].row \in Analysis!WalletRows
      BY DEF OwnInv, Objects
    <2>2. QED
      BY <1>2, <1>4, <2>1 DEF StreamAdvance, Rows!OpenNext, Rows!RunNext
  <1>5. ASSUME NEW s \in Sessions, ReadTransactions(s) PROVE [Rows!OpenNext]_(Rows!vars)
    <2>1. CASE UNCHANGED analysisVars
      BY <1>1, <2>1
    <2>2. CASE Analysis!Begin(s, command[s].from, FALSE, Stored)
      <3>1. command[s].from \in Timestamps /\ Stored \in SUBSET Txs
        BY <1>5 DEF ReadTransactions, OwnInv, Asked, Stored
      <3>2. Rows!Begin(s, command[s].from, FALSE, Stored)
        BY <2>2, SameAnalysis
      <3>3. Rows!Starts(s)
        BY <3>1, <3>2 DEF Rows!Starts
      <3>4. QED
        BY <3>3 DEF Rows!OpenNext, Rows!RunNext
    <2>3. QED
      BY <1>5, <2>1, <2>2 DEF ReadTransactions
  <1>6. ASSUME NEW s \in Sessions, NEW t \in Txs, Analysis!TaskStep(s, t)
        PROVE  Rows!OpenNext
    BY <1>6, SameAnalysis DEF Rows!OpenNext, Rows!RunNext, Rows!SessionStep
  <1>7. ASSUME NEW s \in Sessions, NEW t \in Txs, Analysis!LatePrice(s, t)
        PROVE  Rows!OpenNext
    BY <1>7, SameAnalysis DEF Rows!OpenNext, Rows!RunNext
  <1>8. ASSUME NEW s \in Sessions,
               \/ Analysis!LoadWallet(s) \/ Analysis!SumRows(s)
               \/ Analysis!SaveWallet(s) \/ Analysis!SummaryFails(s)
        PROVE  Rows!OpenNext
    BY <1>8, SameAnalysis DEF Rows!OpenNext, Rows!RunNext, Rows!SessionStep
  <1>9. ASSUME NEW s \in Sessions, Ends(s) PROVE Rows!OpenNext
    <2>1. Rows!Drops(s)
      BY <1>9 DEF Ends, Rows!Drops, Rows!Idle, Analysis!Idle, Rows!Off, Analysis!Off,
                  Rows!Nothing, Analysis!Nothing, Rows!Entries, Analysis!Entries,
                  Rows!Places, Analysis!Places
    <2>2. QED
      BY <2>1 DEF Rows!OpenNext, Rows!RunNext
  <1>10. CASE ProcessEnds
    BY <1>10, SameAnalysis DEF ProcessEnds, Rows!OpenNext, Rows!RunNext
  <1>11. ASSUME NEW s \in Sessions, Apologise(s) PROVE [Rows!OpenNext]_(Rows!vars)
    BY <1>9, <1>11 DEF Apologise
  <1>12. CASE UNCHANGED commandVars
    BY <1>1, <1>12 DEF commandVars
  <1>13. ASSUME NEW s \in Sessions, NEW from \in Timestamps, Start(s, from)
         PROVE  [Rows!OpenNext]_(Rows!vars)
    BY <1>1, <1>13 DEF Start
  <1>14. ASSUME NEW s \in Sessions, CommandStep(s) PROVE [Rows!OpenNext]_(Rows!vars)
    BY <1>1, <1>3, <1>4, <1>5, <1>6, <1>8, <1>11, <1>14
       DEF CommandStep, RefreshPrices, StreamLoad, StreamGoesOn, StreamReturns,
           AnalyseTransaction, AnalysisLoad, AnalysisSum, AnalysisSave, AnalysisFails,
           AnalysisReturns, ReadReport
  <1>15. ASSUME NEW s \in Sessions, NEW t \in Txs, LatePrice(s, t)
         PROVE  Rows!OpenNext
    BY <1>7, <1>15 DEF LatePrice
  <1>16. CASE BlockAppears
    BY <1>1, <1>16 DEF BlockAppears
  <1>17. QED
    BY <1>10, <1>12, <1>13, <1>14, <1>15, <1>16 DEF CommandNext

-----------------------------------------------------------------------------

LEMMA OwnInit == ASSUME CommandInit PROVE OwnInv
  <1>1. Asked(NotStarted)
    BY DEF Asked, NotStarted, Commands
  <1>2. QED
    BY <1>1, NothingKeptType, TxAssumption DEF CommandInit, OwnInv

(***************************************************************************)
(* A command goes on, fails or loses its calm.                             *)
(***************************************************************************)
LEMMA GoesAsked ==
    ASSUME OwnInv, NEW s \in Sessions,
           NEW to \in {"stream", "read", "analysis", "report"}, Goes(s, to),
           to \in {"stream", "read"} => command[s].pc \in {"prices", "stream"},
           priced' \in 0 .. MaxBlock, kept' \in [Sessions -> Objects]
    PROVE  OwnInv'
  <1>1. command' = [command EXCEPT ![s].pc = to]
    BY DEF Goes
  <1>2. command'[s] = [command[s] EXCEPT !.pc = to]
    BY <1>1 DEF OwnInv
  <1>3. command[s] \in Commands /\ (to \in {"stream", "read"} => command[s].from \in Timestamps)
    BY DEF OwnInv, Asked
  <1>4. Asked(command'[s])
    BY <1>2, <1>3 DEF Asked, Commands
  <1>5. \A r \in Sessions \ {s} : command'[r] = command[r]
    BY <1>1 DEF OwnInv
  <1>6. command' = [r \in Sessions |-> command'[r]]
    BY <1>1 DEF OwnInv
  <1>7. QED
    BY <1>4, <1>5, <1>6 DEF OwnInv

LEMMA FailsAsked ==
    ASSUME OwnInv, NEW s \in Sessions, Fails(s),
           priced' \in 0 .. MaxBlock, kept' \in [Sessions -> Objects]
    PROVE  OwnInv'
  <1>1. command' = [command EXCEPT ![s].pc = "sorry", ![s].calm = FALSE]
    BY DEF Fails
  <1>2. command'[s] = [command[s] EXCEPT !.pc = "sorry", !.calm = FALSE]
    BY <1>1 DEF OwnInv
  <1>3. Asked(command'[s])
    BY <1>2 DEF OwnInv, Asked, Commands
  <1>4. \A r \in Sessions \ {s} : command'[r] = command[r]
    BY <1>1 DEF OwnInv
  <1>5. command' = [r \in Sessions |-> command'[r]]
    BY <1>1 DEF OwnInv
  <1>6. QED
    BY <1>3, <1>4, <1>5 DEF OwnInv

LEMMA CalmAsked ==
    ASSUME OwnInv, NEW s \in Sessions, NEW calm \in BOOLEAN,
           command' = [command EXCEPT ![s].calm = calm], UNCHANGED <<priced, kept>>
    PROVE  OwnInv'
  <1>1. command'[s] = [command[s] EXCEPT !.calm = calm]
    BY DEF OwnInv
  <1>2. Asked(command'[s])
    BY <1>1 DEF OwnInv, Asked, Commands
  <1>3. \A r \in Sessions \ {s} : command'[r] = command[r]
    BY DEF OwnInv
  <1>4. command' = [r \in Sessions |-> command'[r]]
    BY DEF OwnInv
  <1>5. QED
    BY <1>2, <1>3, <1>4 DEF OwnInv

LEMMA OwnStep ==
    ASSUME CommandInv, OwnInv, Rows!RowsInv, [CommandNext]_commandVars
    PROVE  OwnInv'
  <1>t. /\ priced \in 0 .. MaxBlock /\ kept \in [Sessions -> Objects]
        /\ head \in 0 .. MaxBlock /\ MaxBlock \in Nat
    BY TxAssumption DEF OwnInv, CommandInv, TypeInv, TypeOK
  <1>1. ASSUME UNCHANGED ownVars PROVE OwnInv'
    BY <1>1 DEF ownVars, OwnInv
  <1>2. ASSUME NEW s \in Sessions, NEW from \in Timestamps, Start(s, from) PROVE OwnInv'
    <2> DEFINE others == {r \in Sessions \ {s} : InProgress(r)}
               new == [pc |-> "prices", from |-> from, calm |-> others = {}]
    <2>1. /\ command' = [r \in Sessions |->
                            IF r = s THEN new
                            ELSE [command[r] EXCEPT !.calm = @ /\ r \notin others]]
          /\ UNCHANGED <<priced, kept>>
      BY <1>2 DEF Start
    <2>2. Asked(new)
      BY AnalysisAssumption DEF Asked, Commands
    <2>3. ASSUME NEW r \in Sessions, NEW calm \in BOOLEAN
          PROVE  Asked([command[r] EXCEPT !.calm = calm])
      BY DEF OwnInv, Asked, Commands
    <2>4. \A r \in Sessions : (command[r].calm /\ r \notin others) \in BOOLEAN
      OBVIOUS
    <2> HIDE DEF new, others
    <2>5. \A r \in Sessions : Asked(command'[r])
      BY <2>1, <2>2, <2>3, <2>4
    <2>6. QED
      BY <2>1, <2>5 DEF OwnInv
  <1>3. ASSUME NEW s \in Sessions, RefreshPrices(s) PROVE OwnInv'
    <2>1. priced' \in 0 .. MaxBlock /\ kept' \in [Sessions -> Objects]
      BY <1>3, <1>t DEF RefreshPrices
    <2>2. command[s].pc = "prices" /\ (Goes(s, "stream") \/ Fails(s))
      BY <1>3 DEF RefreshPrices
    <2>3. QED
      BY <2>1, <2>2, GoesAsked, FailsAsked
  <1>4. ASSUME NEW s \in Sessions, StreamLoad(s) PROVE OwnInv'
    <2>1. kept' = [kept EXCEPT ![s].row = walletRow] /\ UNCHANGED <<priced, command>>
      BY <1>4 DEF StreamLoad
    <2>2. kept' \in [Sessions -> Objects]
      BY <1>t, <2>1, WalletRowType DEF Objects
    <2>3. QED
      BY <2>1, <2>2 DEF OwnInv
  <1>5. ASSUME NEW s \in Sessions, StreamCreate(s) PROVE OwnInv'
    <2>1. kept' = [kept EXCEPT ![s] = NothingKept] /\ UNCHANGED <<priced, command>>
      BY <1>5 DEF StreamCreate
    <2>2. QED
      BY <2>1, NothingKeptType DEF OwnInv
  <1>6. ASSUME NEW s \in Sessions, StreamReturns(s) PROVE OwnInv'
    <2>1. /\ command[s].pc = "stream" /\ UNCHANGED <<priced, kept>>
          /\ Goes(s, "read") \/ Fails(s)
      BY <1>6 DEF StreamReturns
    <2>2. QED
      BY <1>t, <2>1, GoesAsked, FailsAsked
  <1>7. ASSUME NEW s \in Sessions, ReadTransactions(s) \/ AnalysisReturns(s) \/ ReadReport(s)
        PROVE  OwnInv'
    <2>1. /\ UNCHANGED <<priced, kept>>
          /\ Goes(s, "analysis") \/ Goes(s, "report") \/ Fails(s)
      BY <1>7 DEF ReadTransactions, AnalysisReturns, ReadReport
    <2>2. QED
      BY <1>t, <2>1, GoesAsked, FailsAsked
  <1>8. ASSUME NEW s \in Sessions, NEW t \in Txs, AnalyseTransaction(s, t) PROVE OwnInv'
    <2>1. PICK calm \in BOOLEAN : /\ command' = [command EXCEPT ![s].calm = calm]
                                  /\ UNCHANGED <<priced, kept>>
      <3> DEFINE unpriced == /\ task[s][t].pc = "price" /\ NeedsPrice(s, t) 
                             /\ ~ PriceKnown(t)
                 failed == task'[s][t].pc = "failed"
                 calm == /\ command[s].calm
                         /\ failed => unpriced \/ Analysis!Candidates(t) = {}
      <3>1. command' = [command EXCEPT ![s].calm = calm] /\ UNCHANGED <<priced, kept>>
        BY <1>8 DEF AnalyseTransaction, OwnInv
      <3>2. calm \in BOOLEAN
        OBVIOUS
      <3> HIDE DEF calm
      <3>3. QED
        BY <3>1, <3>2
    <2>2. QED
      BY <2>1, CalmAsked
  <1>9. ASSUME NEW s \in Sessions, AnalysisLoad(s) PROVE OwnInv'
    <2>1. /\ kept' = [kept EXCEPT ![s].cursor = walletTable[Target]]
          /\ UNCHANGED <<priced, command>>
      BY <1>9 DEF AnalysisLoad
    <2>2. walletTable[Target] \in Nat \cup {NoRow}
      BY TargetAssumption DEF CommandInv, TypeInv, TypeOK
    <2>3. kept' \in [Sessions -> Objects]
      BY <1>t, <2>1, <2>2 DEF Objects
    <2>4. QED
      BY <2>1, <2>3 DEF OwnInv
  <1>10. ASSUME NEW s \in Sessions, AnalysisFails(s) PROVE OwnInv'
    <2>1. command' = [command EXCEPT ![s].calm = FALSE] /\ UNCHANGED <<priced, kept>>
      BY <1>10 DEF AnalysisFails
    <2>2. QED
      BY <2>1, CalmAsked
  <1>11. ASSUME NEW s \in Sessions, Ends(s) PROVE OwnInv'
    <2>1. /\ command' = [command EXCEPT ![s] = NotStarted]
          /\ kept' = [kept EXCEPT ![s] = NothingKept] /\ UNCHANGED priced
      BY <1>11 DEF Ends
    <2>2. Asked(NotStarted)
      BY DEF Asked, NotStarted, Commands
    <2>3. QED
      BY <2>1, <2>2, NothingKeptType DEF OwnInv
  <1>12. ASSUME NEW s \in Sessions, Apologise(s) PROVE OwnInv'
    BY <1>11, <1>12 DEF Apologise
  <1>13. CASE ProcessEnds
    <2>1. Asked(NotStarted)
      BY DEF Asked, NotStarted, Commands
    <2>2. QED
      BY <1>13, <2>1, NothingKeptType DEF ProcessEnds, OwnInv
  <1>14. CASE UNCHANGED commandVars
    BY <1>1, <1>14 DEF commandVars
  <1>15. ASSUME NEW s \in Sessions, CommandStep(s) PROVE OwnInv'
    BY <1>1, <1>3, <1>4, <1>5, <1>6, <1>7, <1>8, <1>9, <1>10, <1>12, <1>15
       DEF CommandStep, StreamAdvance, StreamGoesOn, AnalysisSum, AnalysisSave, ownVars
  <1>16. QED
    BY <1>1, <1>2, <1>13, <1>14, <1>15 DEF CommandNext, LatePrice, BlockAppears

LEMMA WholeInvariant == CommandSpec => []WholeInv
  <1>1. CommandInit => WholeInv
    <2> SUFFICES ASSUME CommandInit PROVE WholeInv
      OBVIOUS
    <2>1. Rows!Init
      BY SameAnalysis DEF CommandInit
    <2>2. Rows!RowsInv
      BY <2>1, RowsAssumptions, Rows!RowsInit
    <2>3. QED
      BY <2>2, CommandInvInit, OwnInit DEF WholeInv
  <1>2. WholeInv /\ [CommandNext]_commandVars => WholeInv'
    <2> SUFFICES ASSUME WholeInv, [CommandNext]_commandVars PROVE WholeInv'
      OBVIOUS
    <2>1. CommandInv /\ OwnInv /\ Rows!RowsInv
      BY DEF WholeInv
    <2>2. [Rows!OpenNext]_(Rows!vars)
      BY <2>1, AnalysesStep
    <2>3. Rows!RowsInv'
      BY <2>1, <2>2, RowsAssumptions, Rows!RowsStep
    <2>4. QED
      BY <2>1, <2>3, CommandInvStep, OwnStep DEF WholeInv
  <1>3. QED
    BY <1>1, <1>2, PTL DEF CommandSpec

LEMMA WholeMeans ==
    ASSUME WholeInv
    PROVE  CommandTypeOK /\ Analysis!NothingCountedTwice /\ Analysis!NoUpdateLost
  <1>1. CommandInv /\ OwnInv /\ Rows!RowsInv
    BY DEF WholeInv
  <1>2. Rows!TypeOK /\ Rows!NothingCountedTwice /\ Rows!NoUpdateLost
    BY <1>1, RowsAssumptions, Rows!RowsMean
  <1>3. Analysis!TypeOK /\ Analysis!NothingCountedTwice /\ Analysis!NoUpdateLost
    BY <1>2, SameAnalysis
  <1>4. command \in [Sessions -> Commands]
    BY <1>1 DEF OwnInv, Asked
  <1>5. QED
    BY <1>1, <1>3, <1>4 DEF CommandTypeOK, CommandInv, TypeInv, OwnInv, Objects

(***************************************************************************)
(* The types of a whole command: what the streamer, the analysis and the   *)
(* refreshed prices hold, and the wallet rows that each of them keeps in   *)
(* memory between reading one and saving it.                               *)
(***************************************************************************)
THEOREM CommandTypes == CommandSpec => []CommandTypeOK
  <1>1. WholeInv => CommandTypeOK
    BY WholeMeans
  <1>2. QED
    BY <1>1, WholeInvariant, PTL

(***************************************************************************)
(* Beside the streamer and other commands, too, an analysis adds a         *)
(* transfer at most once to a column of a row, and only if it saved its    *)
(* transaction.                                                            *)
(***************************************************************************)
THEOREM CountedOnceBesideStreamer == CommandSpec => []Analysis!NothingCountedTwice
  <1>1. WholeInv => Analysis!NothingCountedTwice
    BY WholeMeans
  <1>2. QED
    BY <1>1, WholeInvariant, PTL

(***************************************************************************)
(* And as long as no two of their tasks were in progress together, no      *)
(* awaited update of a row is lost, whatever the streamer writes, whichever*)
(* command fails or is dropped, and however often the process ends.        *)
(***************************************************************************)
THEOREM UpdatesKeptBesideStreamer == CommandSpec => []Analysis!NoUpdateLost
  <1>1. WholeInv => Analysis!NoUpdateLost
    BY WholeMeans
  <1>2. QED
    BY <1>1, WholeInvariant, PTL

-----------------------------------------------------------------------------
(***************************************************************************)
(* The report.  Where the streamer and the analysis of a command are while *)
(* the command is somewhere: neither runs before it is called or after it  *)
(* has returned, whatever became of other commands.                        *)
(***************************************************************************)
NoAnalysis(s) ==
    analysing[s].pc = "idle" /\ \A t \in Txs : task[s][t].pc = "off" /\ task[s][t].late = {}

Begun == {"analysis", "report"}

Phase(s) ==
    /\ command[s].pc \in {"idle", "prices"} => session[s].pc = "idle"
    /\ command[s].pc \in {"idle", "prices", "stream", "read"} => NoAnalysis(s)
    /\ command[s].pc = "stream" => session[s].pc = "failed" \/ session[s].list = {Target}
    /\ command[s].pc \in {"read"} \cup Begun =>
           session[s].pc = "done" /\ session[s].list = {Target}

(***************************************************************************)
(* Rows are written for the wallet only; a mapper that detaches rows when  *)
(* an entity with an empty relation is saved leaves them without one.      *)
(***************************************************************************)
OnlyTarget ==
    /\ \A t \in Txs : transactionTable[t] \in {Absent, Target, Unbound}
    /\ \A s \in Sessions : session[s].wallet \in {Target, Unbound}

(***************************************************************************)
(* A calm command is the only one, its analysis runs by itself, and every  *)
(* transaction it must count is being analysed, saved, or left out for one *)
(* of the reasons that count.                                              *)
(***************************************************************************)
Sound(s) ==
    /\ Rows!ByItself(s)
    /\ analysing[s].pc # "failed"
    /\ command[s].pc # "analysis" => analysing[s].pc = "done"
    /\ \A t \in Txs : task[s][t].pc = "failed" =>
           Rows!Candidates(t) = {} \/ ~ PriceKnown(t)
    /\ \A t \in TxsOf(Target) :
          /\ <<Target, t>> \notin unlisted /\ transactionTable[t] # Unbound
          /\ command[s].from < TxBlock[t] /\ TxBlock[t] <= session[s].latest
          => task[s][t].pc # "off"

CalmInv(s) ==
    InProgress(s) /\ command[s].calm =>
        /\ \A r \in Sessions \ {s} : ~ InProgress(r)
        /\ command[s].pc \in Begun => Sound(s)

PhaseInv == OnlyTarget /\ \A s \in Sessions : Phase(s)

ReportInv == PhaseInv /\ \A s \in Sessions : CalmInv(s)

LEMMA SameRows ==
    /\ Analysis!Entries = Rows!Entries
    /\ Analysis!TotalOf(tokenTable) = Rows!TotalOf(tokenTable)
    /\ \A t : Analysis!Candidates(t) = Rows!Candidates(t)
    /\ \A t, main : Analysis!Counted(t, main) = Rows!Counted(t, main)
    /\ \A p : Analysis!Awaited(p) <=> Rows!Awaited(p)
    /\ \A k : Analysis!RowOf(k) = Rows!RowOf(k)
  <1> USE DEF Analysis!Places, Rows!Places, Analysis!Entries, Rows!Entries,
              Analysis!Candidates, Rows!Candidates, Analysis!Directed, Rows!Directed,
              Analysis!Fallback, Rows!Fallback, Analysis!Counted, Rows!Counted,
              Analysis!NotAwaited, Rows!NotAwaited, Analysis!Awaited, Rows!Awaited,
              Analysis!Nothing, Rows!Nothing, Analysis!RowOf, Rows!RowOf,
              Analysis!TotalOf, Rows!TotalOf, Analysis!MapThenSumSet, Rows!MapThenSumSet,
              Analysis!MapThenFoldSet, Rows!MapThenFoldSet
  <1>1. Analysis!Entries = Rows!Entries
    OBVIOUS
  <1>2. Analysis!TotalOf(tokenTable) = Rows!TotalOf(tokenTable)
    OBVIOUS
  <1>3. \A t : Analysis!Candidates(t) = Rows!Candidates(t)
    OBVIOUS
  <1>4. \A t, main : Analysis!Counted(t, main) = Rows!Counted(t, main)
    OBVIOUS
  <1>5. \A p : Analysis!Awaited(p) <=> Rows!Awaited(p)
    OBVIOUS
  <1>6. \A k : Analysis!RowOf(k) = Rows!RowOf(k)
    OBVIOUS
  <1>7. QED
    BY <1>1, <1>2, <1>3, <1>4, <1>5, <1>6

LEMMA WholeTypes ==
    ASSUME WholeInv
    PROVE  /\ Rows!TypeInv /\ OwnInv /\ CommandInv /\ TypeInv
           /\ command = [s \in Sessions |-> command[s]]
           /\ analysing = [s \in Sessions |-> analysing[s]]
           /\ session \in [Sessions -> States]
           /\ \A s \in Sessions : /\ command[s] \in Commands
                                  /\ Asked(command[s])
  BY DEF WholeInv, OwnInv, CommandInv, TypeInv, TypeOK, Asked, Rows!RowsInv, Rows!TypeInv

-----------------------------------------------------------------------------
(***************************************************************************)
(* What a step of the streamer changes.                                    *)
(***************************************************************************)
StreamStep(s) ==
    \/ LoadWallet(s, Target) \/ CreateWallet(s) \/ AdvanceCursor(s)
    \/ GetLatest(s) \/ GetLatestFails(s)
    \/ TreatAsNew(s, Target)
    \/ CreateFails(s)
    \/ RangeRejected(s) \/ FetchHistory(s) \/ FetchFails(s)
    \/ \E t \in Txs : SaveTransaction(s, t)
    \/ SaveFails(s)
    \/ Finish(s)

StreamEffect(s) ==
    /\ Running(s)
    /\ \A r \in Sessions \ {s} : session'[r] = session[r]
    /\ session'[s].pc = "failed" \/ session'[s].list = session[s].list
    /\ OnlyTarget'

LEMMA OneStreams ==
    ASSUME TypeInv, OnlyTarget, NEW s \in Sessions, Running(s), NEW after,
           session' = [session EXCEPT ![s] = after],
           after.pc = "failed" \/ after.list = session[s].list,
           after.wallet \in {Target, Unbound},
           \A t \in Txs : transactionTable'[t] \in {Absent, Target, Unbound}
    PROVE  StreamEffect(s)
  <1>1. session'[s] = after /\ \A r \in Sessions \ {s} : session'[r] = session[r]
    BY DEF TypeInv, TypeOK
  <1>2. QED
    BY <1>1 DEF StreamEffect, OnlyTarget

LEMMA StreamMoves ==
    ASSUME TypeInv, OnlyTarget, NEW s \in Sessions, StreamStep(s)
    PROVE  StreamEffect(s)
  <1>t. /\ session[s] \in States /\ session \in [Sessions -> States]
        /\ session[s].wallet \in {Target, Unbound}
        /\ \A t \in Txs : transactionTable[t] \in {Absent, Target, Unbound}
        /\ transactionTable \in [Txs -> Wallets \cup {Absent, Unbound}]
        /\ session[s].pc \in {"create", "fetch", "save"} => session[s].wallet \in Wallets
    BY DEF TypeInv, TypeOK, OnlyTarget
  <1>1. ASSUME Abort(s), Running(s) PROVE StreamEffect(s)
    <2> DEFINE after == [Idle EXCEPT !.pc = "failed"]
    <2>1. after.pc = "failed" /\ after.wallet = Unbound
      BY DEF Idle
    <2>2. session' = [session EXCEPT ![s] = after] /\ transactionTable' = transactionTable
      BY <1>1 DEF Abort
    <2> HIDE DEF after
    <2>3. QED
      BY <1>1, <1>t, <2>1, <2>2, OneStreams
  <1>2. CASE GetLatest(s)
    <2>1. PICK block \in 0 .. head :
             session' = [session EXCEPT ![s].pc = "loop", ![s].todo = session[s].list,
                                        ![s].latest = block]
      BY <1>2 DEF GetLatest
    <2> DEFINE after == [session[s] EXCEPT !.pc = "loop", !.todo = session[s].list,
                                           !.latest = block]
    <2>2. after.list = session[s].list /\ after.wallet = session[s].wallet
      BY <1>t DEF States
    <2>3. session' = [session EXCEPT ![s] = after]
      BY <1>t, <2>1
    <2>4. Running(s) /\ transactionTable' = transactionTable
      BY <1>2 DEF GetLatest, Running
    <2> HIDE DEF after
    <2>5. QED
      BY <1>t, <2>2, <2>3, <2>4, OneStreams
  <1>3. CASE LoadWallet(s, Target)
    <2> DEFINE after == [session[s] EXCEPT !.pc = "fetch", !.wallet = Target,
                                           !.from = ResumeBlock(Target)]
    <2>1. after.list = session[s].list /\ after.wallet = Target
      BY <1>t DEF States
    <2>2. /\ session' = [session EXCEPT ![s] = after]
          /\ Running(s) /\ transactionTable' = transactionTable
      BY <1>3, <1>t DEF LoadWallet, Running
    <2> HIDE DEF after
    <2>3. QED
      BY <1>t, <2>1, <2>2, OneStreams
  <1>4. CASE TreatAsNew(s, Target)
    <2> DEFINE after == [session[s] EXCEPT !.pc = "create", !.wallet = Target]
    <2>1. after.list = session[s].list /\ after.wallet = Target
      BY <1>t DEF States
    <2>2. /\ session' = [session EXCEPT ![s] = after]
          /\ Running(s) /\ transactionTable' = transactionTable
      BY <1>4, <1>t DEF TreatAsNew, Running
    <2> HIDE DEF after
    <2>3. QED
      BY <1>t, <2>1, <2>2, OneStreams
  <1>5. ASSUME NEW w, NEW emptyRelation,
               transactionTable' = SaveRelations(w, emptyRelation)
        PROVE  \A t \in Txs : transactionTable'[t] \in {Absent, Target, Unbound}
    BY <1>t, <1>5 DEF SaveRelations
  <1>6. CASE CreateWallet(s)
    <2> DEFINE after == [session[s] EXCEPT !.pc = "fetch", !.from = 0]
    <2>1. after.list = session[s].list /\ after.wallet = session[s].wallet
      BY <1>t DEF States
    <2>2. session' = [session EXCEPT ![s] = after] /\ Running(s)
      BY <1>6, <1>t DEF CreateWallet, Running
    <2>3. \A t \in Txs : transactionTable'[t] \in {Absent, Target, Unbound}
      BY <1>5, <1>6 DEF CreateWallet
    <2> HIDE DEF after
    <2>4. QED
      BY <1>t, <2>1, <2>2, <2>3, OneStreams
  <1>7. CASE FetchHistory(s)
    <2>1. PICK listed : session' = [session EXCEPT ![s].pc = "save", ![s].pending = listed]
      BY <1>7 DEF FetchHistory
    <2> DEFINE after == [session[s] EXCEPT !.pc = "save", !.pending = listed]
    <2>2. after.list = session[s].list /\ after.wallet = session[s].wallet
      BY <1>t DEF States
    <2>3. /\ session' = [session EXCEPT ![s] = after]
          /\ Running(s) /\ transactionTable' = transactionTable
      BY <1>7, <1>t, <2>1 DEF FetchHistory, Running
    <2> HIDE DEF after
    <2>4. QED
      BY <1>t, <2>2, <2>3, OneStreams
  <1>8. ASSUME NEW t \in Txs, SaveTransaction(s, t) PROVE StreamEffect(s)
    <2> DEFINE after == [session[s] EXCEPT !.pending = @ \ {t}]
    <2>1. after.list = session[s].list /\ after.wallet = session[s].wallet
      BY <1>t DEF States
    <2>2. session' = [session EXCEPT ![s] = after] /\ Running(s)
      BY <1>8, <1>t DEF SaveTransaction, Running
    <2>3. session[s].wallet = Target
      BY <1>8, <1>t, OwnerAssumption DEF SaveTransaction
    <2>4. \A u \in Txs : transactionTable'[u] \in {Absent, Target, Unbound}
      BY <1>8, <1>t, <2>3 DEF SaveTransaction
    <2> HIDE DEF after
    <2>5. QED
      BY <1>t, <2>1, <2>2, <2>4, OneStreams
  <1>9. CASE AdvanceCursor(s)
    <2> DEFINE after == [session[s] EXCEPT !.pc = "loop", !.todo = @ \ {session[s].wallet},
                                           !.wallet = Unbound, !.from = 0]
    <2>1. after.list = session[s].list /\ after.wallet = Unbound
      BY <1>t DEF States
    <2>2. session' = [session EXCEPT ![s] = after] /\ Running(s)
      BY <1>9, <1>t DEF AdvanceCursor, Running
    <2>3. \A t \in Txs : transactionTable'[t] \in {Absent, Target, Unbound}
      BY <1>5, <1>9 DEF AdvanceCursor
    <2> HIDE DEF after
    <2>4. QED
      BY <1>t, <2>1, <2>2, <2>3, OneStreams
  <1>10. CASE Finish(s)
    <2> DEFINE after == [session[s] EXCEPT !.pc = "done"]
    <2>1. after.list = session[s].list /\ after.wallet = session[s].wallet
      BY <1>t DEF States
    <2>2. /\ session' = [session EXCEPT ![s] = after]
          /\ Running(s) /\ transactionTable' = transactionTable
      BY <1>10, <1>t DEF Finish, Running
    <2> HIDE DEF after
    <2>3. QED
      BY <1>t, <2>1, <2>2, OneStreams
  <1>11. CASE \/ GetLatestFails(s) \/ CreateFails(s) \/ RangeRejected(s) \/ FetchFails(s)
              \/ SaveFails(s)
    BY <1>1, <1>11 DEF GetLatestFails, CreateFails, RangeRejected, FetchFails, SaveFails, Running
  <1>12. QED
    BY <1>2, <1>3, <1>4, <1>6, <1>7, <1>8, <1>9, <1>10, <1>11 DEF StreamStep

-----------------------------------------------------------------------------
(***************************************************************************)
(* A step of one command leaves the objects of the others alone; a command *)
(* that is not in progress takes none.                                     *)
(***************************************************************************)
Apart(s) ==
    \A r \in Sessions \ {s} :
        /\ command'[r] = command[r] /\ session'[r] = session[r]
        /\ analysing'[r] = analysing[r]
        /\ \A u \in Txs : task'[r][u].pc = task[r][u].pc /\ task'[r][u].late = task[r][u].late

Streams(s) == StreamLoad(s) \/ StreamCreate(s) \/ StreamAdvance(s) \/ StreamGoesOn(s)

LEMMA StreamsMove ==
    ASSUME NEW s \in Sessions, Streams(s)
    PROVE  StreamStep(s) /\ UNCHANGED <<analysing, task, command>>
  <1>1. StreamStep(s)
    BY DEF Streams, StreamLoad, StreamCreate, StreamAdvance, StreamGoesOn, StreamStep
  <1>2. UNCHANGED <<analysing, task, command>>
    BY DEF Streams, StreamLoad, StreamCreate, StreamAdvance, StreamGoesOn, WriteRow,
           analysisVars, ownVars
  <1>3. QED
    BY <1>1, <1>2

Analyses(s) ==
    \/ \E t \in Txs : AnalyseTransaction(s, t)
    \/ AnalysisLoad(s) \/ AnalysisSum(s) \/ AnalysisSave(s) \/ AnalysisFails(s)

LEMMA AnalysesMove ==
    ASSUME WholeInv, NEW s \in Sessions, Analyses(s)
    PROVE  /\ Rows!SessionStep(s)
           /\ UNCHANGED <<transactionTable, session, unlisted, priced>>
           /\ \E calm \in BOOLEAN : /\ calm => command[s].calm
                                    /\ command' = [command EXCEPT ![s].calm = calm]
  <1>1. /\ \/ \E t \in Txs : Analysis!TaskStep(s, t)
           \/ Analysis!LoadWallet(s) \/ Analysis!SumRows(s)
           \/ Analysis!SaveWallet(s) \/ Analysis!SummaryFails(s)
        /\ UNCHANGED <<transactionTable, session, unlisted, priced>>
    BY DEF Analyses, AnalyseTransaction, AnalysisLoad, AnalysisSum, AnalysisSave, AnalysisFails,
           vars, ownVars
  <1>2. Rows!SessionStep(s)
    BY <1>1, SameAnalysis DEF Rows!SessionStep
  <1>3. \E calm \in BOOLEAN : /\ calm => command[s].calm
                              /\ command' = [command EXCEPT ![s].calm = calm]
    <2>1. command[s].calm \in BOOLEAN /\ command = [command EXCEPT ![s].calm = command[s].calm]
      <3>1. command[s] \in Commands /\ command = [r \in Sessions |-> command[r]]
        BY WholeTypes
      <3>2. command[s].calm \in BOOLEAN /\ [command[s] EXCEPT !.calm = command[s].calm] = command[s]
        BY <3>1 DEF Commands
      <3>3. QED
        BY <3>1, <3>2
    <2>2. CASE UNCHANGED command
      BY <2>1, <2>2
    <2>3. CASE AnalysisFails(s)
      BY <2>3 DEF AnalysisFails
    <2>4. ASSUME NEW t \in Txs, AnalyseTransaction(s, t)
          PROVE  \E calm \in BOOLEAN : /\ calm => command[s].calm
                                       /\ command' = [command EXCEPT ![s].calm = calm]
      <3> DEFINE unpriced == task[s][t].pc = "price" /\ NeedsPrice(s, t) /\ ~ PriceKnown(t)
                 failed == task'[s][t].pc = "failed"
                 calm == command[s].calm /\ (failed => unpriced \/ Analysis!Candidates(t) = {})
      <3>1. command' = [command EXCEPT ![s].calm = calm]
        BY <2>4, WholeTypes DEF AnalyseTransaction
      <3>2. calm \in BOOLEAN /\ (calm => command[s].calm)
        OBVIOUS
      <3> HIDE DEF calm
      <3>3. QED
        BY <3>1, <3>2
    <2>5. QED
      BY <2>2, <2>3, <2>4 DEF Analyses, AnalysisLoad, AnalysisSum, AnalysisSave, ownVars
  <1>4. QED
    BY <1>1, <1>2, <1>3

LEMMA AnalysesApart == ASSUME WholeInv, NEW s \in Sessions, Analyses(s) PROVE Apart(s)
  <1>1. PICK calm \in BOOLEAN : command' = [command EXCEPT ![s].calm = calm]
    BY AnalysesMove
  <1>2. Rows!SessionStep(s) /\ session' = session
    BY AnalysesMove
  <1>3. \A r \in Sessions \ {s} : /\ analysing'[r] = analysing[r]
                                  /\ \A u \in Txs : task'[r][u] = task[r][u]
    BY <1>2, RowsAssumptions, WholeTypes, Rows!OwnMoves
  <1>4. QED
    BY <1>1, <1>2, <1>3, WholeTypes DEF Apart

LEMMA CommandsApart ==
    ASSUME WholeInv, OnlyTarget, NEW s \in Sessions, CommandStep(s)
    PROVE  Apart(s)
  <1>t. /\ command = [r \in Sessions |-> command[r]]
        /\ session \in [Sessions -> States]
      BY WholeTypes
  <1>1. CASE Streams(s)
    <2>1. StreamStep(s) /\ UNCHANGED <<analysing, task, command>>
      BY <1>1, StreamsMove
    <2>2. StreamEffect(s)
      BY <2>1, StreamMoves, WholeTypes
    <2>3. QED
      BY <2>1, <2>2 DEF StreamEffect, Apart
  <1>2. CASE Analyses(s)
    BY <1>2, AnalysesApart
  <1>3. ASSUME NEW to, Goes(s, to) \/ Fails(s)
        PROVE  \A r \in Sessions \ {s} : command'[r] = command[r]
    BY <1>3, <1>t DEF Goes, Fails
  <1>4. CASE RefreshPrices(s)
    <2>1. \A r \in Sessions \ {s} : command'[r] = command[r]
      BY <1>3, <1>4 DEF RefreshPrices
    <2>2. \A r \in Sessions \ {s} : session'[r] = session[r]
      BY <1>4, <1>t DEF RefreshPrices, SetWalletList, vars
    <2>3. UNCHANGED <<analysing, task>>
      BY <1>4 DEF RefreshPrices, analysisVars
    <2>4. QED
      BY <2>1, <2>2, <2>3 DEF Apart
  <1>5. CASE ReadTransactions(s)
    <2>1. (\A r \in Sessions \ {s} : command'[r] = command[r]) /\ session' = session
      BY <1>3, <1>5 DEF ReadTransactions, vars
    <2>2. CASE UNCHANGED analysisVars
      BY <2>1, <2>2 DEF Apart, analysisVars
    <2>3. CASE Analysis!Begin(s, command[s].from, FALSE, Stored)
      <3>1. command[s].from \in Timestamps /\ Stored \in SUBSET Txs
        BY <1>5, WholeTypes DEF ReadTransactions, Asked, Stored
      <3>2. Rows!Starts(s)
        BY <2>3, <3>1, SameAnalysis DEF Rows!Starts
      <3>3. \A r \in Sessions \ {s} : /\ analysing'[r] = analysing[r]
                                      /\ \A u \in Txs : task'[r][u] = task[r][u]
        BY <3>2, RowsAssumptions, WholeTypes, Rows!OwnMoves
      <3>4. QED
        BY <2>1, <3>3 DEF Apart
    <2>4. QED
      BY <1>5, <2>2, <2>3 DEF ReadTransactions
  <1>6. CASE StreamReturns(s) \/ AnalysisReturns(s) \/ ReadReport(s)
    BY <1>3, <1>6 DEF StreamReturns, AnalysisReturns, ReadReport, Apart, vars, analysisVars
  <1>7. CASE Ends(s)
    <2>1. \A r \in Sessions \ {s} : /\ command'[r] = command[r] /\ session'[r] = session[r]
                                    /\ analysing'[r] = analysing[r] /\ task'[r] = task[r]
      BY <1>7, <1>t, WholeTypes DEF Ends, Rows!TypeInv
    <2>2. QED
      BY <2>1 DEF Apart
  <1>8. CASE Apologise(s)
    BY <1>7, <1>8 DEF Apologise
  <1>9. QED
    BY <1>1, <1>2, <1>4, <1>5, <1>6, <1>8 DEF CommandStep, Streams, Analyses

LEMMA NoAnalysisRests ==
    ASSUME WholeInv, NEW s \in Sessions, NoAnalysis(s)
    PROVE  ~ Rows!Busy(s) /\ ~ Rows!SessionStep(s) /\ \A t \in Txs : ~ LatePrice(s, t)
  <1>1. ~ Rows!Busy(s)
    BY DEF NoAnalysis, Rows!Busy, Rows!Ended
  <1>2. ~ Rows!SessionStep(s)
    BY <1>1, RowsAssumptions, WholeTypes, Rows!StepsAreBusy
  <1>3. ASSUME NEW t \in Txs, LatePrice(s, t) PROVE FALSE
    <2>1. Rows!LatePrice(s, t)
      BY <1>3, SameAnalysis DEF LatePrice
    <2>2. task[s][t].late # {}
      BY <2>1, RowsAssumptions, WholeTypes, Rows!LateMoves
    <2>3. QED
      BY <2>2 DEF NoAnalysis
  <1>4. QED
    BY <1>1, <1>2, <1>3

LEMMA IdleRests ==
    ASSUME WholeInv, PhaseInv, NEW s \in Sessions, ~ InProgress(s)
    PROVE  ~ CommandStep(s) /\ \A t \in Txs : ~ LatePrice(s, t)
  <1>1. command[s].pc = "idle" /\ session[s].pc = "idle" /\ NoAnalysis(s)
    BY DEF InProgress, PhaseInv, Phase
  <1>2. ~ Streams(s)
    BY <1>1, StreamsMove, StreamMoves, WholeTypes DEF PhaseInv, StreamEffect, Running
  <1>3. ~ Analyses(s)
    BY <1>1, AnalysesMove, NoAnalysisRests
  <1>4. QED
    BY <1>1, <1>2, <1>3, NoAnalysisRests
       DEF CommandStep, Streams, Analyses, RefreshPrices, StreamReturns, ReadTransactions,
           AnalysisReturns, ReadReport, Apologise

-----------------------------------------------------------------------------

LEMMA GoesOnly ==
    ASSUME WholeInv, NEW s \in Sessions, NEW to, Goes(s, to)
    PROVE  /\ command'[s].pc = to /\ command'[s].from = command[s].from
           /\ command'[s].calm = command[s].calm
  <1>1. command[s] \in Commands /\ command = [r \in Sessions |-> command[r]]
    BY WholeTypes
  <1>2. command'[s] = [command[s] EXCEPT !.pc = to]
    BY <1>1 DEF Goes
  <1>3. QED
    BY <1>1, <1>2 DEF Commands

LEMMA FailsOnly ==
    ASSUME WholeInv, NEW s \in Sessions, Fails(s)
    PROVE  command'[s].pc = "sorry" /\ ~ command'[s].calm
  <1>1. command[s] \in Commands /\ command = [r \in Sessions |-> command[r]]
    BY WholeTypes
  <1>2. command'[s] = [command[s] EXCEPT !.pc = "sorry", !.calm = FALSE]
    BY <1>1 DEF Fails
  <1>3. QED
    BY <1>1, <1>2 DEF Commands

LEMMA LateOnly ==
    ASSUME WholeInv, NEW s \in Sessions, NEW t \in Txs, LatePrice(s, t)
    PROVE  /\ Rows!LatePrice(s, t) /\ UNCHANGED <<vars, command, priced, analysing>>
           /\ \A u \in Txs : task'[s][u].pc = task[s][u].pc
           /\ Apart(s)
  <1>1. Rows!LatePrice(s, t) /\ UNCHANGED <<vars, command, priced>>
    BY SameAnalysis DEF LatePrice, ownVars
  <1>2. /\ analysing' = analysing
        /\ \A u \in Txs : task'[s][u].pc = task[s][u].pc
    BY <1>1, RowsAssumptions, WholeTypes, Rows!LateMoves
  <1>3. \A r \in Sessions \ {s} : \A u \in Txs : task'[r][u] = task[r][u]
    BY <1>1, RowsAssumptions, WholeTypes, Rows!OwnMoves
  <1>4. QED
    BY <1>1, <1>2, <1>3 DEF Apart, vars

LEMMA IdleNoAnalysis ==
    /\ Analysis!Idle.pc = "idle"
    /\ Analysis!Off.pc = "off" /\ Analysis!Off.late = {}
  BY DEF Analysis!Idle, Analysis!Off

LEMMA OthersPhase ==
    ASSUME PhaseInv, NEW s \in Sessions, Apart(s)
    PROVE  \A r \in Sessions \ {s} : Phase(r)'
  <1>1. SUFFICES ASSUME NEW r \in Sessions \ {s} PROVE Phase(r)'
    OBVIOUS
  <1>2. /\ command'[r] = command[r] /\ session'[r] = session[r]
        /\ analysing'[r] = analysing[r]
        /\ \A u \in Txs : task'[r][u].pc = task[r][u].pc /\ task'[r][u].late = task[r][u].late
    BY DEF Apart
  <1>3. NoAnalysis(r) => NoAnalysis(r)'
    BY <1>2 DEF NoAnalysis
  <1>4. Phase(r)
    BY DEF PhaseInv
  <1>5. QED
    BY <1>2, <1>3, <1>4 DEF Phase

LEMMA PhaseMoves ==
    ASSUME PhaseInv, NEW s \in Sessions, Apart(s), transactionTable' = transactionTable,
           session'[s] = session[s] \/ session'[s].wallet = Unbound,
           Phase(s)'
    PROVE  PhaseInv'
  <1>1. OnlyTarget'
    BY DEF PhaseInv, OnlyTarget, Apart
  <1>2. \A r \in Sessions \ {s} : Phase(r)'
    BY OthersPhase
  <1>3. QED
    BY <1>1, <1>2 DEF PhaseInv

LEMMA PhaseStep ==
    ASSUME WholeInv, PhaseInv, [CommandNext]_commandVars
    PROVE  PhaseInv'
  <1>t. /\ command = [r \in Sessions |-> command[r]]
        /\ session \in [Sessions -> States]
    BY WholeTypes
  <1>1. ASSUME UNCHANGED <<session, transactionTable, analysing, task>>,
               \A s \in Sessions : \/ command'[s].pc = command[s].pc
                                   \/ command[s].pc = "idle" /\ command'[s].pc = "prices"
        PROVE  PhaseInv'
    BY <1>1 DEF PhaseInv, OnlyTarget, Phase, NoAnalysis, Begun
  <1>2. ASSUME NEW s \in Sessions, NEW from \in Timestamps, Start(s, from) PROVE PhaseInv'
    <2> DEFINE others == {r \in Sessions \ {s} : InProgress(r)}
    <2>1. /\ command' = [r \in Sessions |->
                            IF r = s
                            THEN [pc |-> "prices", from |-> from, calm |-> others = {}]
                            ELSE [command[r] EXCEPT !.calm = @ /\ r \notin others]]
          /\ UNCHANGED <<vars, analysisVars>> /\ command[s].pc = "idle"
      BY <1>2 DEF Start, InProgress
    <2>2. \A r \in Sessions : command[r] \in Commands
      BY WholeTypes
    <2> HIDE DEF others
    <2>3. \A r \in Sessions : \/ command'[r].pc = command[r].pc
                              \/ command[r].pc = "idle" /\ command'[r].pc = "prices"
      BY <2>1, <2>2 DEF Commands
    <2>4. QED
      BY <1>1, <2>1, <2>3 DEF vars, analysisVars
  <1>3. ASSUME NEW s \in Sessions, CommandStep(s) PROVE PhaseInv'
    <2>t. Apart(s) /\ Phase(s) /\ OnlyTarget
      BY <1>3, CommandsApart DEF PhaseInv
    <2>1. ASSUME Fails(s), transactionTable' = transactionTable, session' = session
          PROVE  PhaseInv'
      <3>1. Phase(s)'
        BY <2>1, FailsOnly DEF Phase, Begun
      <3>2. QED
        BY <2>1, <2>t, <3>1, PhaseMoves
    <2>2. ASSUME NEW to \in Begun \cup {"read"}, Goes(s, to), UNCHANGED vars,
                 session[s].pc = "done", session[s].list = {Target},
                 to = "read" => UNCHANGED analysisVars /\ NoAnalysis(s)
          PROVE  PhaseInv'
      <3>1. Phase(s)'
        BY <2>2, GoesOnly DEF Phase, Begun, vars, analysisVars, NoAnalysis
      <3>2. QED
        BY <2>2, <2>t, <3>1, PhaseMoves DEF vars
    <2>3. CASE RefreshPrices(s)
      <3>1. CASE Fails(s) /\ UNCHANGED vars
        BY <2>1, <3>1 DEF vars
      <3>2. CASE Goes(s, "stream") /\ SetWalletList(s, {Target})
        <4>1. session'[s] = [Idle EXCEPT !.pc = "listed", !.list = {Target}]
          BY <1>t, <3>2 DEF SetWalletList
        <4>2. session'[s].list = {Target} /\ session'[s].wallet = Unbound
          BY <4>1 DEF Idle
        <4>3. command'[s].pc = "stream" /\ UNCHANGED <<analysing, task, transactionTable>>
          BY <2>3, <3>2, GoesOnly DEF RefreshPrices, SetWalletList, analysisVars
        <4>4. NoAnalysis(s)'
          BY <2>3, <2>t, <4>3 DEF RefreshPrices, Phase, NoAnalysis
        <4>5. Phase(s)'
          BY <4>2, <4>3, <4>4 DEF Phase, Begun
        <4>6. QED
          BY <2>t, <4>2, <4>3, <4>5, PhaseMoves
      <3>3. QED
        BY <2>3, <3>1, <3>2 DEF RefreshPrices
    <2>4. CASE Streams(s)
      <3>1. UNCHANGED <<analysing, task, command>> /\ StreamEffect(s)
        BY <2>4, <2>t, StreamsMove, StreamMoves, WholeTypes
      <3>2. command[s].pc \notin {"idle", "prices", "read"} \cup Begun
        BY <2>t, <3>1 DEF StreamEffect, Running, Phase
      <3>3. NoAnalysis(s)' <=> NoAnalysis(s)
        BY <3>1 DEF NoAnalysis
      <3>4. command'[s].pc = command[s].pc
        BY <3>1
      <3>5. Phase(s)'
        <4>1. session'[s].pc = "failed" \/ session'[s].list = session[s].list
          BY <3>1 DEF StreamEffect
        <4>2. session[s].pc # "failed"
          BY <3>1 DEF StreamEffect, Running
        <4>3. QED
          BY <2>t, <3>2, <3>3, <3>4, <4>1, <4>2 DEF Phase
      <3>6. \A r \in Sessions \ {s} : Phase(r)'
        BY <2>t, OthersPhase
      <3>7. QED
        BY <3>1, <3>5, <3>6 DEF PhaseInv, StreamEffect
    <2>5. CASE StreamReturns(s)
      <3>1. command[s].pc = "stream" /\ UNCHANGED <<vars, analysisVars>>
        BY <2>5 DEF StreamReturns
      <3>2. CASE Fails(s)
        BY <2>1, <3>1, <3>2 DEF vars
      <3>3. CASE HistoryBuilt(s) /\ Goes(s, "read")
        BY <2>2, <2>t, <3>1, <3>3 DEF HistoryBuilt, Phase
      <3>4. QED
        BY <2>5, <3>2, <3>3 DEF StreamReturns
    <2>6. CASE ReadTransactions(s) \/ AnalysisReturns(s) \/ ReadReport(s)
      <3>1. /\ command[s].pc \in {"read"} \cup Begun /\ UNCHANGED vars
            /\ Fails(s) \/ \E to \in Begun : Goes(s, to)
        BY <2>6 DEF ReadTransactions, AnalysisReturns, ReadReport, Begun
      <3>2. CASE Fails(s)
        BY <2>1, <3>1, <3>2 DEF vars
      <3>3. QED
        BY <2>2, <2>t, <3>1, <3>2 DEF Phase, Begun
    <2>7. CASE Analyses(s)
      <3>1. /\ UNCHANGED <<transactionTable, session>>
            /\ \E calm \in BOOLEAN : command' = [command EXCEPT ![s].calm = calm]
        BY <2>7, AnalysesMove
      <3>2. command'[s].pc = command[s].pc
        BY <3>1, WholeTypes DEF Commands
      <3>3. ~ NoAnalysis(s)
        BY <2>7, AnalysesMove, NoAnalysisRests
      <3>4. Phase(s)'
        BY <2>t, <3>1, <3>2, <3>3 DEF Phase
      <3>5. QED
        BY <2>t, <3>1, <3>4, PhaseMoves
    <2>8. CASE Ends(s)
      <3>1. /\ command'[s] = NotStarted /\ session'[s] = Idle
            /\ analysing'[s] = Analysis!Idle /\ task'[s] = [t \in Txs |-> Analysis!Off]
            /\ transactionTable' = transactionTable
        BY <1>t, <2>8, WholeTypes DEF Ends, Rows!TypeInv
      <3>2. NoAnalysis(s)'
        BY <3>1, IdleNoAnalysis DEF NoAnalysis
      <3>3. session'[s].pc = "idle" /\ session'[s].wallet = Unbound /\ command'[s].pc = "idle"
        BY <3>1 DEF Idle, NotStarted
      <3>4. Phase(s)'
        BY <3>2, <3>3 DEF Phase, Begun
      <3>5. QED
        BY <2>t, <3>1, <3>3, <3>4, PhaseMoves
    <2>9. CASE Apologise(s)
      BY <2>8, <2>9 DEF Apologise
    <2>10. QED
      BY <1>3, <2>3, <2>4, <2>5, <2>6, <2>7, <2>9 DEF CommandStep, Streams, Analyses
  <1>4. ASSUME NEW s \in Sessions, NEW t \in Txs, LatePrice(s, t) PROVE PhaseInv'
    <2>1. /\ UNCHANGED <<vars, command, analysing>> /\ Apart(s)
      BY <1>4, LateOnly
    <2>2. ~ NoAnalysis(s)
      BY <1>4, NoAnalysisRests
    <2>3. Phase(s)'
      BY <2>1, <2>2 DEF PhaseInv, Phase, vars
    <2>4. QED
      BY <2>1, <2>3, PhaseMoves DEF vars
  <1>5. CASE BlockAppears
    BY <1>1, <1>5 DEF BlockAppears, ChainGrows, analysisVars, ownVars
  <1>6. CASE ProcessEnds
    <2>1. /\ transactionTable' = transactionTable
          /\ \A s \in Sessions : /\ command'[s] = NotStarted /\ session'[s] = Idle
                                 /\ analysing'[s] = Analysis!Idle
                                 /\ \A t \in Txs : task'[s][t] = Analysis!Off
      BY <1>6 DEF ProcessEnds, Crash, Analysis!ProcessEnds
    <2>2. \A s \in Sessions : NoAnalysis(s)'
      BY <2>1, IdleNoAnalysis DEF NoAnalysis
    <2>3. Idle.pc = "idle" /\ Idle.wallet = Unbound /\ NotStarted.pc = "idle"
      BY DEF Idle, NotStarted
    <2>4. \A s \in Sessions : Phase(s)'
      BY <2>1, <2>2, <2>3 DEF Phase, Begun
    <2>5. OnlyTarget'
      BY <2>1, <2>3 DEF OnlyTarget, PhaseInv
    <2>6. QED
      BY <2>4, <2>5 DEF PhaseInv
  <1>7. CASE UNCHANGED commandVars
    BY <1>1, <1>7 DEF commandVars, vars, analysisVars, ownVars
  <1>8. QED
    BY <1>2, <1>3, <1>4, <1>5, <1>6, <1>7 DEF CommandNext

-----------------------------------------------------------------------------

LEMMA CandidatesStay ==
    ASSUME NEW t \in Txs
    PROVE  Rows!Candidates(t)' = Rows!Candidates(t)
  BY DEF Rows!Candidates

(***************************************************************************)
(* The analysis of a command starts from all that was ingested and is      *)
(* still bound.                                                            *)
(***************************************************************************)
LEMMA IngestedIsStored ==
    ASSUME WholeInv, PhaseInv, NEW s \in Sessions, command[s].pc = "read",
           NEW t \in TxsOf(Target), <<Target, t>> \notin unlisted,
           transactionTable[t] # Unbound, TxBlock[t] <= session[s].latest
    PROVE  t \in Stored
  <1>1. session[s].pc = "done" /\ session[s].list = {Target}
    BY DEF PhaseInv, Phase
  <1>2. Covered(Target, session[s].latest)
    BY <1>1 DEF WholeInv, CommandInv, IngestInv, SessionInv, Progress
  <1>3. transactionTable[t] # Absent
    BY <1>2 DEF Covered, Kept
  <1>4. QED
    BY <1>3 DEF PhaseInv, OnlyTarget, Stored, TxsOf

LEMMA SoundStart ==
    ASSUME WholeInv, PhaseInv, NEW s \in Sessions, command[s].pc = "read",
           Analysis!Begin(s, command[s].from, FALSE, Stored), Goes(s, "analysis"),
           UNCHANGED <<session, transactionTable, unlisted>>,
           \A r \in Sessions \ {s} : ~ InProgress(r)
    PROVE  Sound(s)'
  <1> DEFINE from == command[s].from
  <1>1. from \in Timestamps /\ Stored \in SUBSET Txs
    BY WholeTypes DEF Asked, Stored
  <1>2. Rows!Begin(s, from, FALSE, Stored)
    BY SameAnalysis
  <1>3. \A r \in Sessions \ {s} : ~ Rows!Busy(r)
    BY NoAnalysisRests DEF PhaseInv, Phase, InProgress
  <1>4. Rows!ByItself(s)'
    BY <1>1, <1>2, <1>3, RowsAssumptions, WholeTypes, Rows!ByItselfStart
  <1>5. /\ analysing'[s].pc = "processing"
        /\ \A t \in Txs : task'[s][t].pc \in {"off", "receipt"}
    <2>1. Rows!TypeInv
      BY WholeTypes
    <2>2. \A stored : Rows!Begin(s, from, FALSE, stored) =>
              /\ analysing'[s].pc = "processing"
              /\ \A t \in Txs : task'[s][t].pc \in {"off", "receipt"}
      <3> HIDE DEF from
      <3>1. QED
        BY <1>1, <2>1, RowsAssumptions, Rows!BeginEffect
    <2>3. QED
      BY <1>2, <2>2
  <1>6. command'[s].pc = "analysis" /\ command'[s].from = from
    BY GoesOnly
  <1>7. ASSUME NEW t \in TxsOf(Target), <<Target, t>> \notin unlisted,
               transactionTable[t] # Unbound,
               from < TxBlock[t], TxBlock[t] <= session[s].latest
        PROVE  task'[s][t].pc # "off"
    <2>1. t \in Stored /\ t \in Txs
      BY <1>7, IngestedIsStored DEF TxsOf
    <2>2. task' = [task EXCEPT ![s] = [u \in Txs |->
                      IF u \in Stored /\ TxBlock[u] > from
                      THEN [Rows!Off EXCEPT !.pc = "receipt"] ELSE Rows!Off]]
      BY <1>2 DEF Rows!Begin
    <2>3. TxBlock[t] > from
      BY <1>1, <1>7, <2>1, TxAssumption, AnalysisAssumption
    <2>4. task'[s][t] = [Rows!Off EXCEPT !.pc = "receipt"]
      BY <2>1, <2>2, <2>3, WholeTypes DEF Rows!TypeInv
    <2>5. QED
      BY <2>4 DEF Rows!Off
  <1> HIDE DEF from
  <1>8. QED
    BY <1>4, <1>5, <1>6, <1>7 DEF Sound

LEMMA SoundKept ==
    ASSUME WholeInv, NEW s \in Sessions, Sound(s),
           UNCHANGED <<analysisVars, priced, unlisted, session, transactionTable>>,
           command'[s].from = command[s].from,
           command'[s].pc # "analysis" => command[s].pc # "analysis" \/ analysing[s].pc = "done"
    PROVE  Sound(s)'
  <1>1. Rows!ByItself(s)'
    <2>1. UNCHANGED Rows!vars
      BY DEF analysisVars, Rows!vars
    <2>2. QED
      BY <2>1, RowsAssumptions, WholeTypes, Rows!ByItselfStep DEF Sound
  <1>2. QED
    BY <1>1, CandidatesStay DEF Sound, PriceKnown, analysisVars

LEMMA SoundLate ==
    ASSUME WholeInv, NEW s \in Sessions, Sound(s), NEW t \in Txs, LatePrice(s, t)
    PROVE  Sound(s)'
  <1>1. /\ Rows!LatePrice(s, t) /\ UNCHANGED <<vars, command, priced, analysing>>
        /\ \A u \in Txs : task'[s][u].pc = task[s][u].pc
    BY LateOnly
  <1>2. Rows!ByItself(s)'
    BY <1>1, RowsAssumptions, WholeTypes, Rows!ByItselfStep DEF Sound
  <1>3. QED
    BY <1>1, <1>2, CandidatesStay DEF Sound, PriceKnown, vars, TxsOf

(***************************************************************************)
(* A step of the analysis.  A transaction that fails calmly had no main    *)
(* token or no price.                                                      *)
(***************************************************************************)
LEMMA SoundAnalyses ==
    ASSUME WholeInv, NEW s \in Sessions, command[s].pc \in Begun, Sound(s),
           Analyses(s), command'[s].calm
    PROVE  Sound(s)'
  <1>1. /\ Rows!SessionStep(s) /\ UNCHANGED <<session, transactionTable, unlisted, priced>>
        /\ command'[s].pc = command[s].pc /\ command'[s].from = command[s].from
    <2>1. /\ Rows!SessionStep(s) /\ UNCHANGED <<session, transactionTable, unlisted, priced>>
          /\ \E calm \in BOOLEAN : command' = [command EXCEPT ![s].calm = calm]
      BY AnalysesMove
    <2>2. QED
      BY <2>1, WholeTypes DEF Commands
  <1>2. Rows!ByItself(s)'
    BY <1>1, RowsAssumptions, WholeTypes, Rows!ByItselfStep DEF Sound
  <1>3. command[s].pc = "analysis"
    <2>1. Rows!Busy(s)
      BY <1>1, RowsAssumptions, WholeTypes, Rows!StepsAreBusy
    <2>2. QED
      BY <2>1 DEF Sound, Begun, Rows!ByItself, Rows!Settled, Rows!Busy
  <1>4. SUFFICES /\ analysing'[s].pc # "failed"
                 /\ \A u \in Txs : task'[s][u].pc = "failed" =>
                        \/ task[s][u].pc = "failed"
                        \/ Rows!Candidates(u) = {} \/ ~ PriceKnown(u)
                 /\ \A u \in Txs : task'[s][u].pc = "off" => task[s][u].pc = "off"
    BY <1>1, <1>2, <1>3, CandidatesStay DEF Sound, PriceKnown, TxsOf
  <1>5. ASSUME NEW t \in Txs, AnalyseTransaction(s, t)
        PROVE  /\ analysing'[s].pc # "failed"
               /\ \A u \in Txs : task'[s][u].pc = "failed" =>
                      \/ task[s][u].pc = "failed"
                      \/ Rows!Candidates(u) = {} \/ ~ PriceKnown(u)
               /\ \A u \in Txs : task'[s][u].pc = "off" => task[s][u].pc = "off"
    <2>1. Rows!TaskStep(s, t)
      BY <1>5, SameAnalysis DEF AnalyseTransaction
    <2>2. /\ ~ Rows!Ended(s, t)
          /\ \A u \in Txs : u # t => task'[s][u] = task[s][u]
          /\ task'[s][t].pc # "off"
          /\ ~ analysing[s].concurrent => analysing' = analysing
      BY <2>1, RowsAssumptions, WholeTypes, Rows!TaskMoves
    <2>3. ~ analysing[s].concurrent
      BY <2>2 DEF Sound, Rows!ByItself, Rows!OneByOne, Rows!Alone
    <2>4. task'[s][t].pc = "failed" => Rows!Candidates(t) = {} \/ ~ PriceKnown(t)
      <3> DEFINE unpriced == task[s][t].pc = "price" /\ NeedsPrice(s, t) /\ ~ PriceKnown(t)
                 failed == task'[s][t].pc = "failed"
                 calm == command[s].calm /\ (failed => unpriced \/ Analysis!Candidates(t) = {})
      <3>1. command' = [command EXCEPT ![s].calm = calm]
        BY <1>5, WholeTypes DEF AnalyseTransaction
      <3>2. command'[s].calm = calm
        <4> HIDE DEF calm
        <4>1. QED
          BY <3>1, WholeTypes DEF Commands
      <3>3. QED
        BY <3>2, SameRows
    <2>5. QED
      BY <2>2, <2>3, <2>4 DEF Sound
  <1>6. ASSUME Analysis!LoadWallet(s) \/ Analysis!SumRows(s) \/ Analysis!SaveWallet(s)
        PROVE  task' = task /\ analysing'[s].pc # "failed"
    <2>1. Rows!LoadWallet(s) \/ Rows!SumRows(s) \/ Rows!SaveWallet(s)
      BY <1>6, SameAnalysis
    <2>2. \E to : Rows!SessionMoves(s, to) /\ to.pc # "failed"
      <3>1. CASE Rows!LoadWallet(s)
        BY <3>1, RowsAssumptions, WholeTypes, Rows!LoadEffect
      <3>2. CASE Rows!SumRows(s)
        BY <3>2, RowsAssumptions, WholeTypes, Rows!SumEffect
      <3>3. CASE Rows!SaveWallet(s)
        <4>1. Rows!SessionMoves(s, [analysing[s] EXCEPT !.pc = "done"])
          BY <3>3 DEF Rows!SaveWallet
        <4>2. [analysing[s] EXCEPT !.pc = "done"].pc = "done"
          BY RowsAssumptions, WholeTypes, Rows!SettleEffect
        <4>3. QED
          BY <4>1, <4>2
      <3>4. QED
        BY <2>1, <3>1, <3>2, <3>3
    <2>3. QED
      BY <2>2, WholeTypes DEF Rows!SessionMoves
  <1>7. ~ AnalysisFails(s)
    BY WholeTypes DEF AnalysisFails, Commands
  <1>8. QED
    BY <1>5, <1>6, <1>7 DEF Analyses, AnalysisLoad, AnalysisSum, AnalysisSave


LEMMA IsCalm ==
    ASSUME WholeInv, ReportInv, NEW s \in Sessions, InProgress(s), command[s].calm
    PROVE  /\ \A r \in Sessions \ {s} : ~ InProgress(r)
           /\ command[s].pc \in Begun => Sound(s)
  BY DEF ReportInv, CalmInv

(***************************************************************************)
(* Steps of the calm command itself.                                       *)
(***************************************************************************)
LEMMA CalmGoes ==
    ASSUME WholeInv, ReportInv, NEW s \in Sessions, CommandStep(s),
           InProgress(s)', command'[s].calm
    PROVE  /\ InProgress(s) /\ command[s].calm
           /\ command'[s].pc \in Begun => Sound(s)'
  <1>t. PhaseInv
    BY DEF ReportInv
  <1>1. InProgress(s)
    BY <1>t, IdleRests
  <1>2. CASE RefreshPrices(s)
    <2>1. ~ Fails(s)
      BY FailsOnly
    <2>2. Goes(s, "stream")
      BY <1>2, <2>1 DEF RefreshPrices
    <2>3. QED
      BY <1>1, <2>2, GoesOnly DEF Begun
  <1>3. CASE Streams(s)
    <2>1. UNCHANGED command /\ Running(s)
      BY <1>3, <1>t, StreamsMove, StreamMoves, WholeTypes DEF PhaseInv, StreamEffect
    <2>2. command[s].pc \notin Begun
      BY <1>t, <2>1 DEF PhaseInv, Phase, Running
    <2>3. QED
      BY <1>1, <2>1, <2>2
  <1>4. CASE StreamReturns(s)
    <2>1. ~ Fails(s)
      BY FailsOnly
    <2>2. Goes(s, "read")
      BY <1>4, <2>1 DEF StreamReturns
    <2>3. QED
      BY <1>1, <2>2, GoesOnly DEF Begun
  <1>5. CASE ReadTransactions(s)
    <2>1. ~ Fails(s)
      BY FailsOnly
    <2>2. /\ command[s].pc = "read" /\ Goes(s, "analysis")
          /\ UNCHANGED <<session, transactionTable, unlisted>>
          /\ Analysis!Begin(s, command[s].from, FALSE, Stored)
      BY <1>5, <2>1 DEF ReadTransactions, vars
    <2>3. command[s].calm
      BY <2>2, GoesOnly
    <2>4. \A r \in Sessions \ {s} : ~ InProgress(r)
      BY <1>1, <2>3, IsCalm
    <2>5. QED
      BY <1>1, <1>t, <2>2, <2>3, <2>4, SoundStart
  <1>6. CASE Analyses(s)
    <2>1. \E calm \in BOOLEAN : /\ calm => command[s].calm
                                /\ command' = [command EXCEPT ![s].calm = calm]
      BY <1>6, AnalysesMove
    <2>2. command'[s].pc = command[s].pc /\ command[s].calm
      BY <2>1, WholeTypes DEF Commands
    <2>3. command[s].pc \in Begun => Sound(s)'
      BY <1>1, <1>6, <2>2, IsCalm, SoundAnalyses
    <2>4. QED
      BY <1>1, <2>2, <2>3
  <1>7. CASE AnalysisReturns(s) \/ ReadReport(s)
    <2>1. ~ Fails(s)
      BY FailsOnly
    <2>2. /\ command[s].pc \in Begun /\ UNCHANGED <<vars, analysisVars, priced>>
          /\ \E to \in Begun : Goes(s, to)
          /\ command[s].pc = "analysis" => analysing[s].pc \in {"done", "failed"}
      BY <1>7, <2>1 DEF AnalysisReturns, ReadReport, Begun
    <2>3. command[s].calm /\ command'[s].from = command[s].from
      BY <2>2, GoesOnly
    <2>4. Sound(s)
      BY <1>1, <2>2, <2>3, IsCalm
    <2>5. command[s].pc = "analysis" => analysing[s].pc = "done"
      BY <2>2, <2>4 DEF Sound
    <2>6. Sound(s)'
      BY <2>2, <2>3, <2>4, <2>5, SoundKept DEF vars
    <2>7. QED
      BY <1>1, <2>3, <2>6
  <1>8. CASE Apologise(s)
    <2>1. command'[s] = NotStarted
      BY <1>8, WholeTypes DEF Apologise, Ends
    <2>2. QED
      BY <2>1 DEF InProgress, NotStarted
  <1>9. QED
    BY <1>2, <1>3, <1>4, <1>5, <1>6, <1>7, <1>8 DEF CommandStep, Streams, Analyses

LEMMA CalmStep ==
    ASSUME WholeInv, ReportInv, [CommandNext]_commandVars
    PROVE  \A s \in Sessions : CalmInv(s)'
  <1>1. SUFFICES ASSUME NEW s \in Sessions, InProgress(s)', command'[s].calm
                 PROVE  /\ \A r \in Sessions \ {s} : ~ InProgress(r)'
                        /\ command'[s].pc \in Begun => Sound(s)'
    BY DEF CalmInv
  <1>t. /\ PhaseInv /\ OnlyTarget
        /\ \A r \in Sessions : command[r] \in Commands
    BY WholeTypes DEF ReportInv, PhaseInv
  <1>2. ASSUME NEW r \in Sessions, NEW from \in Timestamps, Start(r, from)
        PROVE  /\ \A q \in Sessions \ {s} : ~ InProgress(q)'
               /\ command'[s].pc \in Begun => Sound(s)'
    <2> DEFINE others == {q \in Sessions \ {r} : InProgress(q)}
    <2>1. command' = [q \in Sessions |->
                         IF q = r
                         THEN [pc |-> "prices", from |-> from, calm |-> others = {}]
                         ELSE [command[q] EXCEPT !.calm = @ /\ q \notin others]]
      BY <1>2 DEF Start
    <2>2. s # r => command'[s].pc = command[s].pc /\ s \notin others
      BY <1>1, <1>t, <2>1 DEF Commands
    <2>3. s = r
      BY <1>1, <2>2 DEF InProgress
    <2>4. command'[s].pc = "prices" /\ others = {}
      BY <1>1, <2>1, <2>3
    <2>5. \A q \in Sessions \ {s} : command'[q].pc = command[q].pc
      BY <1>t, <2>1, <2>3 DEF Commands
    <2>6. QED
      BY <2>3, <2>4, <2>5 DEF InProgress, Begun
  <1>3. ASSUME UNCHANGED <<analysisVars, priced, unlisted, session, transactionTable, command>>
        PROVE  /\ \A q \in Sessions \ {s} : ~ InProgress(q)'
               /\ command'[s].pc \in Begun => Sound(s)'
    <2>1. InProgress(s) /\ command[s].calm
      BY <1>1, <1>3 DEF InProgress
    <2>2. command[s].pc \in Begun => Sound(s)'
      BY <1>3, <2>1, IsCalm, SoundKept
    <2>3. QED
      BY <1>3, <2>1, <2>2, IsCalm DEF InProgress
  <1>4. ASSUME NEW r \in Sessions, CommandStep(r)
        PROVE  /\ \A q \in Sessions \ {s} : ~ InProgress(q)'
               /\ command'[s].pc \in Begun => Sound(s)'
    <2>1. \A q \in Sessions \ {r} : command'[q] = command[q]
      BY <1>4, <1>t, CommandsApart DEF Apart
    <2>2. InProgress(r)
      BY <1>4, <1>t, IdleRests
    <2>3. r = s
      BY <1>1, <2>1, <2>2, IsCalm DEF InProgress
    <2>4. /\ InProgress(s) /\ command[s].calm
          /\ command'[s].pc \in Begun => Sound(s)'
      BY <1>1, <1>4, <2>3, CalmGoes
    <2>5. QED
      BY <2>1, <2>3, <2>4, IsCalm DEF InProgress
  <1>5. ASSUME NEW r \in Sessions, NEW t \in Txs, LatePrice(r, t)
        PROVE  /\ \A q \in Sessions \ {s} : ~ InProgress(q)'
               /\ command'[s].pc \in Begun => Sound(s)'
    <2>1. InProgress(r)
      BY <1>5, <1>t, IdleRests
    <2>2. command' = command
      BY <1>5, LateOnly
    <2>3. InProgress(s) /\ command[s].calm
      BY <1>1, <2>2 DEF InProgress
    <2>4. r = s
      BY <2>1, <2>3, IsCalm
    <2>5. command[s].pc \in Begun => Sound(s)'
      BY <1>5, <2>3, <2>4, IsCalm, SoundLate
    <2>6. QED
      BY <2>2, <2>3, <2>5, IsCalm DEF InProgress
  <1>6. CASE BlockAppears
    BY <1>3, <1>6 DEF BlockAppears, ChainGrows, ownVars
  <1>7. CASE ProcessEnds
    <2>1. command'[s] = NotStarted
      BY <1>7 DEF ProcessEnds
    <2>2. QED
      BY <1>1, <2>1 DEF InProgress, NotStarted
  <1>8. CASE UNCHANGED commandVars
    BY <1>3, <1>8 DEF commandVars, vars, ownVars
  <1>9. QED
    BY <1>2, <1>4, <1>5, <1>6, <1>7, <1>8 DEF CommandNext

LEMMA ReportInit == CommandInit => ReportInv
  <1> SUFFICES ASSUME CommandInit PROVE ReportInv
    OBVIOUS
  <1>1. /\ transactionTable = [t \in Txs |-> Absent]
        /\ session = [s \in Sessions |-> Idle]
        /\ analysing = [s \in Sessions |-> Analysis!Idle]
        /\ task = [s \in Sessions |-> [t \in Txs |-> Analysis!Off]]
        /\ command = [s \in Sessions |-> NotStarted]
    BY DEF CommandInit, Init, Analysis!Init
  <1>2. Idle.pc = "idle" /\ Idle.wallet = Unbound /\ NotStarted.pc = "idle"
    BY DEF Idle, NotStarted
  <1>3. \A s \in Sessions : NoAnalysis(s)
    BY <1>1, IdleNoAnalysis DEF NoAnalysis
  <1>4. \A s \in Sessions : Phase(s)
    BY <1>1, <1>2, <1>3 DEF Phase, Begun
  <1>5. OnlyTarget
    BY <1>1, <1>2 DEF OnlyTarget
  <1>6. \A s \in Sessions : CalmInv(s)
    BY <1>1, <1>2 DEF CalmInv, InProgress
  <1>7. QED
    BY <1>4, <1>5, <1>6 DEF ReportInv, PhaseInv

LEMMA ReportInvariant == CommandSpec => []ReportInv
  <1>1. WholeInv /\ ReportInv /\ [CommandNext]_commandVars => ReportInv'
    BY PhaseStep, CalmStep DEF ReportInv
  <1>2. QED
    BY <1>1, ReportInit, WholeInvariant, PTL DEF CommandSpec

LEMMA CompleteAtReport ==
    ASSUME WholeInv, NEW s \in Sessions, Sound(s), command[s].pc = "report"
    PROVE  /\ walletRow.summary = Analysis!TotalOf(tokenTable)
           /\ \A t \in TxsOf(Target) : MustCount(s, t) =>
                 /\ task[s][t].pc = "saved"
                 /\ \A e \in Analysis!Entries :
                       /\ e[2] \in Analysis!Counted(t, task[s][t].at)
                       /\ Analysis!Awaited(e[2])
                       => Analysis!RowOf(task[s][t].token)[e] > 0
  <1>1. /\ analysing[s].pc = "done"
        /\ Rows!Settled(s) /\ \A t \in Txs : Rows!SavedIn(s, t)
    BY DEF Sound, Rows!ByItself
  <1>2. walletRow.summary = Analysis!TotalOf(tokenTable)
    BY <1>1, SameRows DEF Rows!Settled
  <1>3. ASSUME NEW t \in TxsOf(Target), MustCount(s, t)
        PROVE  /\ task[s][t].pc = "saved"
               /\ \A e \in Analysis!Entries :
                     /\ e[2] \in Analysis!Counted(t, task[s][t].at)
                     /\ Analysis!Awaited(e[2])
                     => Analysis!RowOf(task[s][t].token)[e] > 0
    <2>1. t \in Txs
      BY DEF TxsOf
    <2>2. Rows!Ended(s, t)
      BY <1>1, <2>1 DEF Rows!Settled
    <2>3. Rows!Candidates(t) # {} /\ PriceKnown(t)
      BY <1>3, SameRows DEF MustCount
    <2>4. task[s][t].pc # "off" /\ task[s][t].pc # "failed"
      BY <1>3, <2>1, <2>3 DEF Sound, MustCount
    <2>5. task[s][t].pc = "saved"
      BY <2>2, <2>4 DEF Rows!Ended
    <2>6. QED
      BY <1>1, <2>1, <2>5, SameRows DEF Rows!SavedIn
  <1>4. QED
    BY <1>2, <1>3

(***************************************************************************)
(* When the analysis of a calm command has returned, every transaction     *)
(* that the explorer listed up to the block ingested, newer than the time  *)
(* asked for, with a main token and a price, counts in a row unless the    *)
(* mapper has detached it, and the summary is the sum of the rows          *)
(* (src/app.ts lines 42-50).  For any number of commands before it,        *)
(* whatever they failed at and however often the process ended, and for    *)
(* both readings of the mapper and of the driver.  It is about the tables: *)
(* the command then reads them and cannot deliver what it has read.        *)
(***************************************************************************)
THEOREM CalmRowsAreComplete == CommandSpec => []CalmRowsComplete
  <1>1. WholeInv /\ ReportInv => CalmRowsComplete
    <2> SUFFICES ASSUME WholeInv, ReportInv, NEW s \in Sessions,
                        command[s].pc = "report", command[s].calm
                 PROVE  /\ walletRow.summary = Analysis!TotalOf(tokenTable)
                        /\ \A t \in TxsOf(Target) : MustCount(s, t) =>
                              /\ task[s][t].pc = "saved"
                              /\ \A e \in Analysis!Entries :
                                    /\ e[2] \in Analysis!Counted(t, task[s][t].at)
                                    /\ Analysis!Awaited(e[2])
                                    => Analysis!RowOf(task[s][t].token)[e] > 0
      BY DEF CalmRowsComplete
    <2>1. Sound(s)
      BY IsCalm DEF InProgress, Begun
    <2>2. QED
      BY <2>1, CompleteAtReport
  <1>2. QED
    BY <1>1, WholeInvariant, ReportInvariant, PTL

=============================================================================
