--------------------------- MODULE WalletAnalysis ---------------------------
(***************************************************************************)
(* WalletService.createWalletTradingHistory: every stored transaction of a *)
(* wallet is decoded to a list of transfers and added to the row of the    *)
(* token it traded (TokenHistoryService, TokenHistoryRepository), one      *)
(* after the other or all at once; then the wallet's summary is computed   *)
(* from the token rows.                                                    *)
(*                                                                         *)
(* The columns of a token row (EthGained, EthSpent, USDGained, USDSpent,   *)
(* performanceUSD) are sums over transfers, so a row is modelled by how    *)
(* often each transfer has been added to each column.  Of the summary, the *)
(* performance is kept; the counts and lastAnalysisTimestamp are left out. *)
(*                                                                         *)
(* A session is one call; sessions share the database only.  One action is *)
(* the code between two awaits.                                            *)
(***************************************************************************)
EXTENDS Integers, FiniteSets, FiniteSetsExt, Sequences

CONSTANTS
    Sessions,
    Tokens,
    Transactions,   \* the stored transactions bound to the wallet
    TimeOf,         \* timestamp of each of them
    Summary,        \* the transfers each is decoded to, aggregated
    Timestamps,     \* where analyses may start from
    MaxAnalyses,    \* bound on the number of analyses
    NoRow           \* tokenTable: no row of this token

Transfers == [ token : Tokens,
               side  : {"IN", "OUT", "NONE"},             \* status
               unit  : {"ETH", "USD", "DAI", "OTHER"} ]   \* what the symbol contains

ASSUME SummaryAssumption ==
    /\ Summary \in [Transactions -> Seq(Transfers)]
    /\ TimeOf \in [Transactions -> Nat]
    /\ Timestamps \subseteq Nat
    /\ MaxAnalyses \in Nat
    /\ IsFiniteSet(Tokens)

VARIABLES
    tokenTable,    \* row of each token for this wallet
    walletRow,     \* startAnalysisTimestamp and the summary of the wallet's row
    session,       \* where each call of createWalletTradingHistory is
    task,          \* where each session is with each transaction
    analyses,      \* number of analyses started
    applied,       \* history: the analyses that have saved each entry
    overlap        \* history: have two tasks ever been in progress at once?

vars == <<tokenTable, walletRow, session, task, analyses, applied, overlap>>

(***************************************************************************)
(* An entry: a transfer, by its transaction and place, in a column of a    *)
(* row.  The direction of the other side of the fallback is the opposite   *)
(* of the only transfer that has one.                                      *)
(***************************************************************************)
Places == UNION {{t} \X DOMAIN Summary[t] : t \in Transactions}

Side(p) ==
    LET own == Summary[p[1]][p[2]].side
    IN  IF own # "NONE" THEN own
        ELSE IF \E i \in DOMAIN Summary[p[1]] : Summary[p[1]][i].side = "IN" THEN "OUT" ELSE "IN"

Entries == {"amount", "performanceUSD"} \X Places

Column(e) == IF e[1] = "amount" THEN <<Summary[e[2][1]][e[2][2]].unit, Side(e[2])>>
                                ELSE <<"performanceUSD">>

Counts == [Entries -> Nat]

ASSUME NoRowAssumption == NoRow \notin Counts

Nothing == [e \in Entries |-> 0]

\* Mutant of Plus: a transfer is taken off the columns.
MinusTransfers(count, places) ==
    [e \in Entries |-> IF e[2] \in places THEN count[e] - 1 ELSE count[e]]

Plus(count, places) == [e \in Entries |-> IF e[2] \in places THEN count[e] + 1 ELSE count[e]]

WalletRows == [start : Nat, summary : [Places -> Nat]]

SessionStates ==
    [ pc         : {"idle", "processing", "loaded", "summed", "done", "failed"},
      id         : 0 .. MaxAnalyses,
      concurrent : BOOLEAN,
      from       : Nat,
      wallet     : WalletRows ]

(***************************************************************************)
(* A task: `at` is the transfer the search for the main token looks at;    *)
(* token and counted are the TokenHistory object in memory; `late` are     *)
(* transfers whose price has been asked for but is not awaited; `seen` is  *)
(* the row save() has found.                                               *)
(***************************************************************************)
TaskStates ==
    [ pc      : {"off", "receipt", "find", "price", "select", "insert", "update",
                 "saved", "failed"},
      at      : Nat,
      token   : Tokens \cup {NoRow},
      counted : Counts,
      late    : SUBSET Places,
      seen    : Counts \cup {NoRow} ]

TypeOK == /\ tokenTable \in [Tokens -> Counts \cup {NoRow}]
          /\ walletRow \in WalletRows
          /\ session \in [Sessions -> SessionStates]
          /\ task \in [Sessions -> [Transactions -> TaskStates]]
          /\ analyses \in 0 .. MaxAnalyses
          /\ applied \in [Tokens -> [Entries -> SUBSET (1 .. MaxAnalyses)]]
          /\ overlap \in BOOLEAN

Off == [pc |-> "off", at |-> 0, token |-> NoRow, counted |-> Nothing, late |-> {},
        seen |-> NoRow]

Idle == [ pc |-> "idle", id |-> 0, concurrent |-> FALSE, from |-> 0,
          wallet |-> [start |-> 0, summary |-> [p \in Places |-> 0]] ]

Init == /\ tokenTable = [k \in Tokens |-> NoRow]
        /\ walletRow = Idle.wallet
        /\ session = [s \in Sessions |-> Idle]
        /\ task = [s \in Sessions |-> [t \in Transactions |-> Off]]
        /\ analyses = 0
        /\ applied = [k \in Tokens |-> [e \in Entries |-> {}]]
        /\ overlap = FALSE

-----------------------------------------------------------------------------

Ended(s, t) == task[s][t].pc \in {"off", "saved", "failed"}

InProgress(s, t) == ~ Ended(s, t) /\ task[s][t].pc # "receipt"

Busy(s) == \/ session[s].pc \in {"processing", "loaded", "summed"}
           \/ \E t \in Transactions : ~ Ended(s, t)

(***************************************************************************)
(* createWalletTradingHistory: of the transactions stored for the wallet,  *)
(* those newer than `from` are read.                                       *)
(***************************************************************************)
Begin(s, from, concurrent, stored) ==
    /\ ~ Busy(s)
    /\ analyses < MaxAnalyses
    /\ analyses' = analyses + 1
    /\ session' = [session EXCEPT ![s] = [Idle EXCEPT !.pc = "processing",
                                                      !.id = analyses + 1,
                                                      !.concurrent = concurrent,
                                                      !.from = from]]
    /\ task' = [task EXCEPT ![s] = [t \in Transactions |->
                   IF t \in stored /\ TimeOf[t] > from THEN [Off EXCEPT !.pc = "receipt"]
                                                       ELSE Off]]
    /\ overlap' = (overlap \/ concurrent \/ \E r \in Sessions \ {s} : Busy(r))
    /\ UNCHANGED <<tokenTable, walletRow, applied>>

\* Mutant of MayStart: the iterative loop does not await a transaction.
MayStartAny(s, t) == session[s].pc = "processing"

(***************************************************************************)
(* processTransactionsConcurrently maps over all of them at once;          *)
(* processTransactionsIteratively takes one at a time, the newest first.   *)
(***************************************************************************)
MayStart(s, t) ==
    session[s].concurrent
        \/ \A u \in Transactions \ {t} : /\ ~ InProgress(s, u)
                                         /\ TimeOf[u] > TimeOf[t] => Ended(s, u)

Move(s, t, to) ==
    /\ task' = [task EXCEPT ![s][t] = to]
    /\ UNCHANGED <<walletRow, analyses, overlap>>

\* Mutant of Throws: a transaction that failed is tried again for ever.
ThrowsRetries(s, t) ==
    /\ Move(s, t, [Off EXCEPT !.pc = "receipt"])
    /\ UNCHANGED <<session, tokenTable, applied>>

(***************************************************************************)
(* A task throws.  The loop logs it and goes on; in concurrent mode the    *)
(* promise is returned without an await inside try, so the first rejection *)
(* ends the call while the other tasks go on.                              *)
(***************************************************************************)
Throws(s, t) ==
    /\ Move(s, t, [task[s][t] EXCEPT !.pc = "failed"])
    /\ session' = IF session[s].concurrent /\ session[s].pc = "processing"
                  THEN [session EXCEPT ![s].pc = "failed"]
                  ELSE session
    /\ UNCHANGED <<tokenTable, applied>>

-----------------------------------------------------------------------------
(***************************************************************************)
(* findMainTokenTradedOnTransaction.  Candidates are the transfers from or *)
(* to the wallet in a currency (containsUsdOrEth).                         *)
(***************************************************************************)
Candidates(t) == {i \in DOMAIN Summary[t] : /\ Summary[t][i].side # "NONE"
                                            /\ Summary[t][i].unit # "OTHER"}

(***************************************************************************)
(* What the main transfer leaves: the transfers with a direction or, if    *)
(* there is none, those of other tokens, taken for the other side of the   *)
(* trade.  Of these the symbols with "usd" or "eth" are counted.           *)
(***************************************************************************)
Directed(t, main) == {i \in DOMAIN Summary[t] \ {main} : Summary[t][i].side # "NONE"}

Fallback(t, main) == {i \in DOMAIN Summary[t] \ {main} :
                         Summary[t][i].token # Summary[t][main].token}

Counted(t, main) ==
    {<<t, i>> : i \in {j \in IF Directed(t, main) # {} THEN Directed(t, main)
                                                       ELSE Fallback(t, main) :
                          Summary[t][j].unit \in {"ETH", "USD"}}}

(***************************************************************************)
(* The prices of the fallback's ETH transfers are not awaited.             *)
(***************************************************************************)
NotAwaited(t, main) ==
    IF Directed(t, main) # {}
    THEN {}
    ELSE {p \in Counted(t, main) : Summary[t][p[2]].unit = "ETH"}

(***************************************************************************)
(* The receipt and the token details arrive.  If anything fails on the way *)
(* the summary is empty; without a candidate there is no main token.       *)
(***************************************************************************)
ReceiptArrives(s, t) ==
    /\ task[s][t].pc = "receipt"
    /\ MayStart(s, t)
    /\ \/ /\ Candidates(t) # {}
          /\ Move(s, t, [task[s][t] EXCEPT !.pc = "find", !.at = Min(Candidates(t))])
          /\ UNCHANGED <<session, tokenTable, applied>>
       \/ Throws(s, t)

(***************************************************************************)
(* The main transfer is found; the object in memory is the row read, or a  *)
(* new one.                                                                *)
(***************************************************************************)
MainFound(t, main, row) ==
    [ pc      |-> IF Directed(t, main) # {} THEN "price" ELSE "select",
      at      |-> main,
      token   |-> Summary[t][main].token,
      counted |-> IF Directed(t, main) # {}
                  THEN row
                  ELSE Plus(row, Counted(t, main) \ NotAwaited(t, main)),
      late    |-> NotAwaited(t, main),
      seen    |-> NoRow ]

(***************************************************************************)
(* findOneBy for the transfer at hand: its row is there; or there is a     *)
(* next candidate to try; or the first candidate gets a new row.           *)
(***************************************************************************)
FindRow(s, t) ==
    /\ task[s][t].pc = "find"
    /\ LET at == task[s][t].at
           row == tokenTable[Summary[t][at].token]
           others == {i \in Candidates(t) : i > at}
       IN  \/ /\ row # NoRow
              /\ Move(s, t, MainFound(t, at, row))
           \/ /\ row = NoRow /\ others # {}
              /\ Move(s, t, [task[s][t] EXCEPT !.at = Min(others)])
           \/ /\ row = NoRow /\ others = {}
              /\ Move(s, t, MainFound(t, Min(Candidates(t)), Nothing))
    /\ UNCHANGED <<session, tokenTable, applied>>

FindFails(s, t) == task[s][t].pc = "find" /\ Throws(s, t)

(***************************************************************************)
(* updateTokenHistoryBasedOnPairType: the prices of the directed ETH       *)
(* transfers are awaited one by one; all of it happens in memory.          *)
(***************************************************************************)
PricesArrive(s, t) ==
    /\ task[s][t].pc = "price"
    /\ Move(s, t, [task[s][t] EXCEPT !.pc = "select",
                                     !.counted = Plus(@, Counted(t, task[s][t].at))])
    /\ UNCHANGED <<session, tokenTable, applied>>

PriceFails(s, t) ==
    /\ task[s][t].pc = "price"
    /\ \E p \in Counted(t, task[s][t].at) : Summary[t][p[2]].unit = "ETH"
    /\ Throws(s, t)

(***************************************************************************)
(* A price nobody awaits arrives and changes the object in memory, saved   *)
(* or not.  (If it is refused, see ProcessEnds.)                           *)
(***************************************************************************)
LatePrice(s, t) ==
    /\ \E p \in task[s][t].late :
          Move(s, t, [task[s][t] EXCEPT !.counted = Plus(@, {p}), !.late = @ \ {p}])
    /\ UNCHANGED <<session, tokenTable, applied>>

(***************************************************************************)
(* saveOrUpdateTokenHistory: save() reads the row, then inserts the object *)
(* or updates the columns in which it differs from what was read.  An      *)
(* insert finds the row there if another task inserted it in between:      *)
(* ER_DUP_ENTRY, and save() is called again.  Rows are never deleted, so   *)
(* the second call updates.                                                *)
(***************************************************************************)
SaveSelect(s, t) ==
    /\ task[s][t].pc = "select"
    /\ LET row == tokenTable[task[s][t].token]
       IN  Move(s, t, [task[s][t] EXCEPT !.pc = IF row = NoRow THEN "insert" ELSE "update",
                                         !.seen = row])
    /\ UNCHANGED <<session, tokenTable, applied>>

\* Mutant of DuplicateEntry: the retry counts the transfers again.
DuplicateEntryRecounts(s, t) ==
    /\ task[s][t].pc = "insert"
    /\ tokenTable[task[s][t].token] # NoRow
    /\ Move(s, t, [task[s][t] EXCEPT !.pc = "price"])
    /\ UNCHANGED <<session, tokenTable, applied>>

DuplicateEntry(s, t) ==
    /\ task[s][t].pc = "insert"
    /\ tokenTable[task[s][t].token] # NoRow
    /\ Move(s, t, [task[s][t] EXCEPT !.pc = "select"])
    /\ UNCHANGED <<session, tokenTable, applied>>

ChangedColumns(from, to) == {Column(e) : e \in {f \in Entries : from[f] # to[f]}}

Written(from, to, row) ==
    [e \in Entries |-> IF Column(e) \in ChangedColumns(from, to) THEN to[e] ELSE row[e]]

SaveWrite(s, t) ==
    /\ LET token == task[s][t].token
           row == tokenTable[token]
       IN  /\ \/ /\ task[s][t].pc = "insert" /\ row = NoRow
                 /\ tokenTable' = [tokenTable EXCEPT ![token] = task[s][t].counted]
              \/ /\ task[s][t].pc = "update"
                 /\ tokenTable' = [tokenTable EXCEPT
                                      ![token] = Written(task[s][t].seen, task[s][t].counted, row)]
           /\ applied' = [applied EXCEPT ![token] =
                 [e \in Entries |-> IF e[2] \in Counted(t, task[s][t].at)
                                    THEN @[e] \cup {session[s].id}
                                    ELSE @[e]]]
    /\ Move(s, t, [task[s][t] EXCEPT !.pc = "saved", !.seen = NoRow])
    /\ UNCHANGED session

SaveFails(s, t) == task[s][t].pc \in {"select", "insert", "update"} /\ Throws(s, t)

TaskStep(s, t) ==
    \/ ReceiptArrives(s, t)
    \/ FindRow(s, t)    \/ FindFails(s, t)
    \/ PricesArrive(s, t)  \/ PriceFails(s, t)
    \/ SaveSelect(s, t) \/ DuplicateEntry(s, t) \/ SaveWrite(s, t) \/ SaveFails(s, t)

-----------------------------------------------------------------------------

SessionMoves(s, to) ==
    /\ session' = [session EXCEPT ![s] = to]
    /\ UNCHANGED <<tokenTable, task, analyses, applied, overlap>>

\* Mutant of LoadWallet: the promises of the transactions are not awaited.
LoadWalletEarly(s) ==
    /\ session[s].pc = "processing"
    /\ SessionMoves(s, [session[s] EXCEPT
           !.pc = "loaded",
           !.wallet = IF walletRow.start < session[s].from
                      THEN [walletRow EXCEPT !.start = session[s].from]
                      ELSE walletRow])
    /\ UNCHANGED walletRow

(***************************************************************************)
(* All tasks have settled: findOneByAddress, then updateWalletTimestamps.  *)
(***************************************************************************)
LoadWallet(s) ==
    /\ session[s].pc = "processing"
    /\ \A t \in Transactions : Ended(s, t)
    /\ SessionMoves(s, [session[s] EXCEPT
           !.pc = "loaded",
           !.wallet = IF walletRow.start < session[s].from
                      THEN [walletRow EXCEPT !.start = session[s].from]
                      ELSE walletRow])
    /\ UNCHANGED walletRow

(***************************************************************************)
(* updateWalletSummary: the sum over the wallet's token rows.              *)
(***************************************************************************)
TotalOf(table) ==
    [p \in Places |->
        MapThenSumSet(LAMBDA k : table[k][<<"performanceUSD", p>>],
                      {k \in Tokens : table[k] # NoRow})]

SumRows(s) ==
    /\ session[s].pc = "loaded"
    /\ SessionMoves(s, [session[s] EXCEPT !.pc = "summed", !.wallet.summary = TotalOf(tokenTable)])
    /\ UNCHANGED walletRow

SaveWallet(s) ==
    /\ session[s].pc = "summed"
    /\ walletRow' = session[s].wallet
    /\ SessionMoves(s, [session[s] EXCEPT !.pc = "done"])

(***************************************************************************)
(* An error in any of these is logged and the call returns.                *)
(***************************************************************************)
SummaryFails(s) ==
    /\ \/ session[s].pc = "processing" /\ \A t \in Transactions : Ended(s, t)
       \/ session[s].pc \in {"loaded", "summed"}
    /\ SessionMoves(s, [session[s] EXCEPT !.pc = "failed"])
    /\ UNCHANGED walletRow

SessionStep(s) == \/ \E t \in Transactions : TaskStep(s, t)
                  \/ LoadWallet(s) \/ SumRows(s) \/ SaveWallet(s) \/ SummaryFails(s)

(***************************************************************************)
(* The process is killed, or ends by itself because the price nobody       *)
(* awaits was refused: nothing handles that rejection.                     *)
(***************************************************************************)
ProcessEnds ==
    /\ session' = [s \in Sessions |-> Idle]
    /\ task' = [s \in Sessions |-> [t \in Transactions |-> Off]]
    /\ UNCHANGED <<tokenTable, walletRow, analyses, applied, overlap>>

Next ==
    \/ \E s \in Sessions :
          \/ \E from \in Timestamps, concurrent \in BOOLEAN :
                Begin(s, from, concurrent, Transactions)
          \/ SessionStep(s)
          \/ \E t \in Transactions : LatePrice(s, t)
    \/ ProcessEnds

(***************************************************************************)
(* The awaited calls of a session settle.                                  *)
(***************************************************************************)
Spec == Init /\ [][Next]_vars /\ \A s \in Sessions : WF_vars(SessionStep(s))

-----------------------------------------------------------------------------

RowOf(k) == IF tokenTable[k] = NoRow THEN Nothing ELSE tokenTable[k]

(***************************************************************************)
(* Whatever runs at once, fails or is retried, an analysis adds a transfer *)
(* at most once to a column of a row, and only if it saved its transaction.*)
(* (Analysing a period again adds it again: line 40 reads all of it.)      *)
(***************************************************************************)
NothingCountedTwice ==
    \A k \in Tokens : \A e \in Entries : RowOf(k)[e] <= Cardinality(applied[k][e])

(***************************************************************************)
(* As long as no two tasks were ever in progress together, no awaited      *)
(* update is lost: whatever failed in between, in a transaction or in the  *)
(* process, the rows hold exactly the transactions that were saved, all of *)
(* each and none in part.                                                  *)
(***************************************************************************)
Awaited(p) == \A main \in Candidates(p[1]) : p \notin NotAwaited(p[1], main)

NoUpdateLost ==
    ~ overlap => \A k \in Tokens : \A e \in Entries :
                     Awaited(e[2]) => RowOf(k)[e] = Cardinality(applied[k][e])

(***************************************************************************)
(* The same for every transfer, when an analysis is done and no price is   *)
(* outstanding.  (Lines 36-42: transfers are processed, then the token     *)
(* history is saved.)                                                      *)
(***************************************************************************)
TransfersBeforeSave ==
    /\ ~ overlap
    /\ \E s \in Sessions : session[s].pc = "done"
    /\ \A s \in Sessions, t \in Transactions : Ended(s, t) /\ task[s][t].late = {}
    => \A k \in Tokens : \A e \in Entries : RowOf(k)[e] = Cardinality(applied[k][e])

(***************************************************************************)
(* If no other call was made meanwhile, the summary of an analysis that    *)
(* ended well is the sum of the rows, in both modes: no task still writes  *)
(* a row when it is computed.                                              *)
(***************************************************************************)
SummaryIsSum ==
    (\E s \in Sessions : /\ session[s].pc = "done"
                         /\ \A r \in Sessions \ {s} : session[r].pc = "idle")
        => walletRow.summary = TotalOf(tokenTable)

(***************************************************************************)
(* Every analysis ends, whatever fails, in both modes.                     *)
(***************************************************************************)
AnalysisEnds ==
    \A s \in Sessions : session[s].pc = "processing" ~> session[s].pc # "processing"

=============================================================================
