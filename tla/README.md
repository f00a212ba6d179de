# Formal models of analyse-account

analyse-account ingests the on-chain history of Ethereum wallets into a MySQL database and
computes from it how each wallet performed on the tokens it traded. This directory holds TLA+
models of the parts whose correctness depends on the order of things: what happens between two
`await`s, after a failure, after a crash, and when several users ask for an analysis at once.
`tlc` checks the models on small instances, `tlapm` checks the proofs of the `*_proofs` modules.
Paths below are relative to the repository.

## 1. Inventory

One Node.js process serves either one CLI run (`src/app.ts`, `handleCliMode`) or any number of
Discord interactions at once (`src/discord/Analysewallet.ts`). Both do the same: refresh the
ETH price table, ingest the wallet's transactions, analyse them, read the wallet row for a report
(which they cannot deliver, see finding 6).
The container of `src/ioc_container/container.ts` makes new (transient) service objects for every
request, so **sessions share nothing but the database** and the remote services. Inside one
object, calls interleave at every `await`.

| Component | State | Operations | What makes it correct | Modelled by |
|---|---|---|---|---|
| `jsonRpcProvider/JsonRpcProviderManager` | index of the current provider, shared by the calls in flight; per call: attempts, timer | `callProviderMethod`, `callProviderMethodWithTimeout`, `getCurrentProvider` | a call that gives up has tried what it says it tried; a late answer never settles a later attempt; every call ends | `RpcProviderManager` |
| `streamer/TransactionStreamerService` | wallet list; tables `wallet` (cursor `lastBlockUpdated`) and `transaction` | `setWalletList`, `addWallets`, `buildWalletTransactionHistory`, `saveHistoryToDB` | the cursor never passes a transaction the database does not hold; a pass resumes after the cursor | `TransactionStreamer` |
| `blockchainProvider/EtherscanApiService` | per call: two paged streams | `constructGlobalTransactionHistory`, `getTransactions`, `fetchTransactionsPage` | the whole history or an error; ordered, no hash twice | `EtherscanHistory`, `HistoryFetch` |
| `wallet/WalletService` | wallet row (summary, timestamps) | `createWalletTradingHistory`, concurrent or iterative | the summary is the sum of the token rows; every analysis ends, whatever fails | `WalletAnalysis` |
| `tokenHistory/TokenHistoryService`, `TokenHistoryRepository` | table `token_history` | `updateWalletTokenHistory`, `saveOrUpdateTokenHistory` | no update of a row is lost, none is counted twice; amounts are complete when the row is saved | `WalletAnalysis` |
| `transaction/TransactionService` | none | `getTransactionTransferSummaryFromLog`, `aggregateTransferTransactions`, `findMainTokenTradedOnTransaction` | aggregation preserves the totals; the main token is well defined | `TransferDecoding`; the choice of the main token: `WalletAnalysis` |
| `ethOhlc/EthOhlcService` | table `eth_ohlc` | `getEthOhlc` (chunks of 2500 minutes), `getETHtoUSD` | no gap below the last record; the prices below it are final; a call that went through is complete | `EthOhlcIngest` |
| `token/TokenService` | table `token` | single and batched reads of metadata | every token has an entry, whole, its own or the default; a default is never stored | `TokenMetadata` |
| `utils/moneyScale`, `utils/tokenUnits` | none | scaling, rounding, sums | exact up to the stated rounding | `Amounts` |
| `app.ts`, `discord/Analysewallet.ts` | per command: how far it is | a request, the read for its report, its apology | when its analysis has returned the rows are complete, unless something it awaited failed | `AnalyseCommand` |
| `config`, `logger`, `error`, `performance`, `migrations`, ABIs, `downloadEthPrice` | | | | not modelled: stateless plumbing, data, a stand-alone script |

How they interact: the streamer asks the RPC manager for the last block, asks the Etherscan
service for the history of `[cursor + 1, last block]`, saves the rows one by one, then the
cursor. The analysis reads the transactions bound to the wallet, gets their receipts through the
RPC manager and token metadata through the token service, and adds each to a token row, with
prices from the OHLC table.

Where the difficulty lies: `await` points inside read-modify-write sequences (RPC index, token
rows, wallet row); partial failure (one await of many rejects, and the code before it has already
written); crash between two saves; retry and timeout racing a late answer; remote lists that grow
while they are paged, or lose an item to a reorganisation; a row two services save whole; bounds (MAX_PAGES, attempts, the first block of a range). The full list,
each at its line, is `hazards` in `PROJECT.json`.

## 2. Modules

- **`RpcProviderManager`**: `callProviderMethod` for any number of overlapping callers. One
  action per stretch of code between two awaits: `Enter` and `Retry` (a turn of the loop up to
  the request), `ProviderAnswers` (the promise settles: success, failure, a receipt without
  logs, or nothing because the timer fired before), `Timeout`, `GiveUp`. `tried` and `disturbed`
  are history variables of the properties. `RpcProviderManager_proofs` holds its theorems.
- **`TransactionStreamer`**: any number of sessions over one database. `session[s]` is the
  local state of one run of `buildWalletTransactionHistory`; `walletTable` and
  `transactionTable` are the two tables, reduced to the cursor and to the wallet a row is bound
  to. Every awaited call has an action for its success and one for its failure; `Crash` forgets
  the sessions and keeps the tables. Three constants choose between readings of what lies
  outside the repository: `BigintAsText` (does the driver return BIGINT as text),
  `EmptyUnbinds` (does saving an entity with `transactions: []` detach the rows) and
  `ExplorerMayLag`. `MCTransactionStreamer` gives the instances,
  `TransactionStreamer_proofs` the theorems.
- **`EtherscanHistory`**: `constructGlobalTransactionHistory` as two streams of page requests
  over lists that grow meanwhile (`Index`) or lose an item, which moves the others up across the
  borders of the pages (`Reorganise`), `Promise.all`, and the merge (stable sort, first item per
  hash). `MCEtherscanHistory` gives the lists, `EtherscanHistory_proofs` the theorems.
- **`HistoryFetch`**: the abstract promise of that call, in terms of sets of hashes.
  `EtherscanHistory` is shown to implement it (`WholeHistoryOrError`, with the refinement
  mapping `listed <- ListedHashes(indexed)`, `dropped <- ` the items taken away, `result <- HashesOf(history)`), and
  `TransactionStreamer!FetchHistory` is written from it: `wanted` is its `promised` and
  `unlisted` what it allows to be missing. After a reorganisation the contract promises nothing
  but that the call settles and returns what was listed at some time.
- **`WalletAnalysis`**: `createWalletTradingHistory` for any number of sessions over the tables
  `token_history` (`tokenTable`) and `wallet` (`walletRow`). `session[s]` is the call,
  `task[s][t]` its work on one transaction: receipt and token details (`ReceiptArrives`), the
  search for the main token with its reads (`FindRow`), the prices (`PricesArrive`), and `save()`
  as a read (`SaveSelect`) and a write of the columns that differ from what was read
  (`SaveWrite`), with its retry (`DuplicateEntry`). All tasks of a concurrent call run at once; an
  iterative call has one in progress. `LatePrice` is the price that line 152 of
  `TokenHistoryService.ts` does not await. A column is a sum over transfers, so the model keeps how
  often each transfer was added to each column: that tells a lost update, a double one and a
  partial one apart. The list of transfers of a transaction is the constant `Summary`. `applied`
  (which analyses have brought each transfer to each column) and `overlap` (did two tasks ever run
  together) are history variables. `MCWalletAnalysis` gives the instances,
  `WalletAnalysis_proofs` the theorems.
- **`EthOhlcIngest`**: `getEthOhlc` for any number of sessions over the table of candles, while the
  clock runs. A request is answered by a prefix of what it asks for (`DataArrives`), candle after
  candle is saved by a read and a write (`SaveSelect`, `SaveCandle`), a duplicate leaves both loops
  (`DuplicateEntry`), and `ChunkDone` moves on to the next chunk. A candle is `closed` or, read in
  its own minute, `open`. `asText` is the reading of BIGINT columns as text, chosen at the start;
  `gap` and `overlap` are history variables: did a call go on behind a service that lagged, did
  two calls run together. `EthOhlcIngest_proofs` holds its theorems.
- **`AnalyseCommand`**: a command as a whole: it extends `TransactionStreamer`, whose variables and
  actions it uses directly, and holds an instance of `WalletAnalysis` over the same tables. `command[s]` says where the command of session `s`
  is; `Start` to `ReadReport` are the lines of `execute` and `handleCliMode`, with the handler's catch
  (`Fails`, `Apologise`) and the rejection nobody handles (`ProcessEnds`). No action delivers a
  report: `ReadReport` always ends in the catch (finding 6). The two services meet in
  the wallet's row: each service reads it whole and saves it whole, so `kept[s]` holds, of what a
  session read, the part the other service owns, and `StreamCreate`, `StreamAdvance` and
  `AnalysisSave` write it back. They meet in the transaction rows (`Stored`: what the analysis
  reads is what is bound to the wallet), and in the price table, here no more than the minute of its
  last candle (`RefreshPrices`, `PriceKnown`). A save of the wallet's row is one step here;
  nothing it writes can come from another session. `MCAnalyseCommand` gives the instance; its variable
  `reading` holds the values of `BigintAsText` and `EmptyUnbinds` that a behaviour has from its
  start, with an instance of the module for each. `AnalyseCommand_proofs` holds its theorems.
- **`TokenMetadata`**: `getTokenDetailsBatch` with its loops: the first log of each token, table
  reads, one call per batch, the writes of what it resolved, and the single look up of the rest. An
  entry's fields are the token's own or the default.
- **`Amounts`**: the arithmetic of `tokenUnits` and `moneyScale`: rescaling, adding, and decimal
  texts with their digits.
- **`TransferDecoding`** composes the two: when a look up is done, `Decode` turns the value and
  the logs of the transaction into transfers and aggregates them (`Aggregated`, folded over the
  list); `transfers` keeps the list for comparison. `MCTransferDecoding` gives the instance,
  `TransferDecoding_proofs` the theorems about this module and about `TokenMetadata`.
- **`InductionLemmas`** models nothing: induction, recursion and sorting, for the proofs.

What the code computes in loops over a list (the sort and the merge, the aggregation, the powers of
ten) is written with functions and folds, so that it can be proved about.

Operators named after another with a comment "Mutant of" are that operator with a plausible bug;
each property fails when the operator is replaced by its mutant.

## 3. Runs

| Run | Instance | What it shows |
|---|---|---|
| `rpc` | 3 providers, 2 callers, unbounded answers in flight per caller's call | an undisturbed call that gives up tried all providers and none twice; late answers are ignored; calls settle even if no provider answers |
| `rpc_rotation` (violation) | 2 providers, 2 callers | "All providers failed" although one was never asked |
| `streamer_alone` | 1 session, 2 wallets, 3 transactions in 3 blocks, lagging explorer | cursor and history agree in every state, through every failure and crash; a finished pass is complete; the cursor only moves back to 0; a pass is refused only if nothing is new; every pass ends |
| `commands` | 2 commands for one wallet, 2 transactions, one with a price nobody awaits; 2 analyses, a command beside another only up to the first; columns read as numbers and rows left bound, or columns read as text and rows detached | under both readings, no cursor passes a transaction that is in no row, although the analysis writes back a cursor it read before; when the analysis of an undisturbed command has returned its rows are complete, whatever failed or crashed before it; no deadlock |
| `streamer_text`, `streamer_unbound`, `streamer_shared` (violations) | 1 session | see findings |
| `history` | 16 pairs of lists of 0 to 4 items, pages of 2, at most 2 pages, 1 item dropped | whole history or error, ordered, each hash once; the truncation guard refuses exactly the ranges that fill every page; both streams end |
| `analysis` | 1 session, 2 analyses from two timestamps, iterative or concurrent; a swap of three transfers, a trade decided by the fallback, a mint without main token | without overlap the rows hold exactly the transactions saved, through every failure and end of the process; the summary is their sum; no transfer is counted twice in either mode; every analysis ends |
| `analysis_late` (violation) | as `analysis` | an analysis ends with a fallback transfer missing from its row |
| `ohlc` | 2 sessions, chunks of 2 minutes, 5 minutes | the table only ever grows by the next minute, whoever writes and whatever fails; below the last one prices are final unless two calls overlapped; a call that went through has left nothing out; every call ends |
| `decoding` | 2 transactions, 4 tokens (two stored ones, one that is not, one without metadata), batches of 2, amounts that are cut at the scales used | each token gets its own entry or the default, whole; nothing a batch brought is lost; no default is stored; aggregation conserves sums and directions; amounts are never rounded up, less than one digit off, and survive the database; every look up ends |

Bounds. Three providers are the least for which an index moved by another call can skip one provider
and still leave one to try. Two wallets and three blocks give a wallet with transactions before, at
and after a cursor, a list with a wallet after the failing one, and a node that lags a cursor by
more than one block; two sessions are enough for any pair of reads and writes of one row to cross.
Lists of up to two pages of two items end before, at and after the end of a page and reach the
truncation guard; two hashes share a timestamp so that ties occur; one dropped item (`MaxDropped`)
moves another across a border of pages, and may be a hash the other stream has read. The
transactions of the analysis share their tokens, so that rows are created, found, raced for and
updated, and two analyses let the second one find what the first has left; `MaxAnalyses` bounds
nothing else. In `commands` two commands are the least for one to read the wallet's row before and
save it after a step of the other; of the two analyses (`MaxAnalyses`), one may run beside another
command (`MaxBeside`), and the second finds what crashes and failures of any number of commands have
left. A command beside another is bounded there and nowhere else: the prices and the streamer run at
any time. The two readings of `commands` are the one in which a wallet can be resumed and the one of
`streamer_text` and `streamer_unbound` together. The two mixed ones hold as well: with `Readings`
widened to all four the instance has 3.3 million states and takes about five minutes, and the theorems
about `CursorCovers` and `CalmRowsComplete` cover them. Five minutes in chunks of two give a call of up to two chunks, one that ends inside a
chunk, and time for the present to move while a call runs. Batches of two split the three tokens of
one transaction, and the token both transactions touch is read, stored and raced for; scale and
digits (4, 2, 1 in place of 18, 18, 3) are such that every cut and every padding occurs. Runs other
than `commands` switch off the deadlock check because the systems really stop: every call is
settled, the chain, the clock or the number of analyses is at its bound.

Fairness. `RpcProviderManager` assumes that timers fire and continuations run (weak fairness of
each caller's `CallStep`) and nothing of the providers. `EtherscanHistory` assumes that every
request settles; `fetch` has time limits of its own although the code sets none.
`WalletAnalysis` assumes that the awaited calls of a session settle, well or badly (weak fairness
of `SessionStep`), and nothing about the price that is not awaited. `EthOhlcIngest` and
`TokenMetadata` assume the same of their sessions and look ups.
`TransactionStreamer` has two specifications: `Spec` assumes nothing, and all but one of its
properties are safety properties; `LiveSpec` adds that the awaited calls of a session settle, for
`StreamEnds`. The node and the explorer are asked through calls that end (`CallsSettle`,
`BothStreamsEnd`), the database through the driver's. `AnalyseCommand` assumes nothing.

## 4. Findings

1. `JsonRpcProviderManager.ts:65`: the rotation is shared, the attempts are not, so the error's
   text is wrong for overlapping calls (`rpc_rotation`).
2. `TransactionStreamerService.ts:65`: with a driver that returns BIGINT as text, a known wallet
   can never be resumed (`streamer_text`).
3. `TransactionStreamerService.ts:116`, `Transaction.ts:6`: a transaction belongs to one wallet
   only (`streamer_shared`).
4. `TransactionStreamerService.ts:70,89`: saving the cursor of a new wallet may detach its
   history (`streamer_unbound`).
5. `TokenHistoryService.ts:152`: a price is not awaited, the row is saved without the transfer
   (`analysis_late`).
6. `discord/Analysewallet.ts:68`, `app.ts:51`: no report is ever delivered. `JSON.stringify` throws a
   `TypeError` on a bigint; `performanceUSD` (`wallet/Wallet.ts:29-35`) and the money columns of the
   token rows are bigints once `ColumnNumericTransformer.from` has read them
   (`utils/moneyScale.ts:143-150`), and no `toJSON` is defined. A command does all its work on the
   tables and then apologises. No run shows this: it needs no order of events, and the model says it
   outright (`ReadReport`).

2 and 4 depend on libraries outside the repository; the models take that behaviour as a parameter
and the findings say so. `streamer_alone` and `streamer_shared` take the readings in which these two
do not occur, so that they show what goes right or wrong besides.

## 5. Proofs

**`RpcProviderManager_proofs`**, for every `N > 0` and every set of callers. `TypeCorrect` proves
typing with the fact that a request in flight belongs to an attempt its call has made.
`UndisturbedFailure` and `RetriesVisitNewProviders` rest on one invariant: an undisturbed call has
tried exactly the providers reached by turning the index from its first provider as many times as
it has failed, and the index stands on the next one; modular arithmetic (lemmas stated once) says
that N turns visit all of 0..N-1 and fewer never come back. `ResolvedByTheLastAttempt` needs that
the request of the current attempt names the provider of the call.

**`TransactionStreamer_proofs`**, for every set of wallets, sessions and transactions.
`TypeCorrect` proves typing. `CursorSafe` proves `CursorCovers` with no assumption on sessions,
sharing, driver or mapper: the invariant `IngestInv` adds to it what each session knows at each
await (everything before `from` is in the table while it fetches; everything up to `latest` is in
the table or still pending while it saves) and that rows are never deleted. `HistoryBound` and
`PassLeavesNoneOut` prove `CursorCoversOwn` and `PassComplete` from the same invariant under
`Exclusive`: no transaction shared, `EmptyUnbinds` false. `CursorNeverBack` and `ResumeSafe` assume a
single session (`Alone`); their invariant `FreshInv` says that between the read of the cursor and its
write the row still holds what was read. `ResumeSafe` says what becomes of a wallet with a cursor
under either reading of BIGINT columns: as numbers, `ResumesAfterCursor`; as text, `NeverResumes`, so
finding 2 is proved for every wallet, list and chain: a cursor past 0 never advances, unless its row
is taken for missing and made anew.

**`WalletAnalysis_proofs`**, for every finite set of tokens, and every set of transactions,
transfers and sessions. `TypeCorrect` is the typing; its one hard part is that the summary, a sum
over the rows of the table, is a number (`NumbersInv`). A column is compared with the analyses that
have brought a transfer to it. `CountedOnce` holds in both modes and with any overlap: `BoundInv`
says that the object in a task's memory, together with the prices still to come, exceeds what was
brought to the row by what the task itself counts at most, and `IdInv` that an analysis is not among
those before its task has saved. So a stale object, a retry or a second `save()` can lose amounts
but never invent them. `UpdatesKept` needs that no tasks overlap: `ExactInv` says that there is one
task in progress at most, that its object is the row plus what it counts (`OneByOne`), and that the
rows hold what was saved (`RowsExact`). `SummarySound` rests on `SumInv`: an analysis that has got
past its tasks has none left that could write a row. All but the last are also proved for
`OpenNext`, which adds to the steps of the module that a call starts from any set of transactions
(`Starts`), that a call is dropped with its objects and that somebody else writes the wallet's row:
what the analysis does inside a command. `ByItself` says what one call knows if no other writes:
what it has saved is in its row, and what it sums up is all of it.

**`AnalyseCommand_proofs`**, for every set of commands on a wallet. `CursorSafeBesideAnalysis` proves
that the streamer's `CursorCovers` survives the analysis, which saves the whole row with the cursor
it read. `CommandInv` adds to the streamer's `TypeInv` and `IngestInv` that every cursor held in
memory (`kept`) is covered, too: it was covered when it was read (or it is the 0 of a fresh row), and
as rows are never deleted it stays so however old it gets. `HistoryBoundBesideAnalysis` is the same
for `CursorCoversOwn` under `Exclusive`. Steps of the streamer are the streamer's own lemmas
(`TypeStep`, `IngestStep`). For the analysis, `Rows` is an instance of `WalletAnalysis_proofs` over
the tables of the command: every step of a command is an `OpenNext` step of it, so its lemmas carry
`CommandTypes`, `CountedOnceBesideStreamer` and `UpdatesKeptBesideStreamer` over, and `WholeInv`
holds the invariants of both services.

`CalmRowsAreComplete` proves `CalmRowsComplete` from them, under every reading of driver and mapper.
`PhaseInv` places the two services: neither is at work before its command calls it or after it has
returned, whatever became of other commands, and the transactions are bound to the wallet, detached
or not there. `CalmInv` says that an undisturbed command is alone, that its analysis is `ByItself`,
and that every transaction it owes its rows has a task, which fails for want of a main token or of a
price and for nothing else (`Sound`). It begins to hold when the analysis reads the transactions:
`IngestInv` then says that all that was ingested is stored (`IngestedIsStored`). A row the mapper has
detached (finding 4) is out of the analysis' sight and nothing it could owe; the theorem says that
all the others are counted.

**`EthOhlcIngest_proofs`**, for every number of sessions, length of chunk and clock. `TypeCorrect`
proves typing, with where a call is between its start and end. `TableGrows` and `PassFills` rest on
`FillInv`: the table has no hole, and every minute before the one a session is about to ask for or
save is in it. So whichever session writes next, in whatever order, it writes the next minute or
one that is there. `PricesKnown` adds `FinalInv`, for calls that do not overlap: only the last
minute of the table may be open, and a call asks for it again.

**`EtherscanHistory_proofs`**, for every page size, number of pages and lists. `GuardExact` is the
arithmetic of the pages through growth and reorganisations. `PagesWhole` says that a stream holds a
prefix of the list that includes what was listed when the call began, unless an item was dropped.
`MergedHistory` is about the merge: the stable sort numbers the items by how many come before
them, which is a permutation in order of time for any two lists, and of each hash the first is kept.
`HistoryTypes` needs that, too. `WholeOrError` is the refinement of `HistoryFetch`, initial states
and steps: `SettledInv` says when `Promise.all` has settled and with what, `HeardInv` that a stream
has read nothing that the explorer never listed, and together with the pages `ResolvedInv` follows,
that a resolved call has what it was promised and nothing else.

**`TransferDecoding_proofs`**, for every list of logs, set of tokens, amounts, decimals and length
of batch, and any number of look ups. One invariant, `LookupInv`, gives the three theorems about
`TokenMetadata` (`TableTrue`, `EntriesWhole`, `AnswersKept`): the tokens waiting for a table read, in
the batch at hand and waiting for a single look up are apart and without repetition (`Apart`), and
exactly the tokens gone through that are in none of the lists have an entry (`Entries`). `DecodingInv`
adds that the rows a look up ends with are those of its transfers (`Decoded`), by induction on the
places of the list: one row for each key, and for each token the sum of its transfers. `NothingLost`
and `DirectionStays` are about these rows, `NothingOverstated` and `ColumnsExact` about the
arithmetic on their amounts: cutting and padding for any number of decimals, and the way through a
DECIMAL column, as facts about division by powers of ten.

**`InductionLemmas`** holds what the last two and the sums of `WalletAnalysis` are proved with.
The induction theorems of the library take an operator as a parameter, which the provers cannot
instantiate; the same is said here of sets and functions. A set that holds 0 and is closed under
successor is `Nat`, because of the cardinality of intervals; from this it follows that there are
functions that satisfy the equations of recursion over numbers, subsets of a finite set and places
of a sequence, as the folds of the community modules choose them, and that a finite set with a
strict total order can be numbered in that order.

All theorems rest on the named assumptions about the constants in the modules, which the runs
evaluate: that the constants are numbers and sequences of the right kind, that the values for "no
row" are no rows, and that the sets of tokens the sums range over are finite. Some have a hypothesis
of their own: `Exclusive` or `Alone`.

Every safety property of the passing runs is stated by a theorem. Only model-checked is liveness,
which the prover cannot do: `CallsSettle`, `StreamEnds`, `BothStreamsEnd`, `AnalysisEnds`,
`PassEnds`, `LookupEnds` and the fairness part of `WholeHistoryOrError`; so is that `commands` never
deadlocks.

## 6. Not modelled

Listed with reasons in `components` of `PROJECT.json`. Inside the modelled parts: `callNumber`
and log messages; the content of a transaction row except its key and wallet; the summary columns
of a wallet row; building URLs and validating the shape of a response (one failure action stands
for all of it); `pair`, `lastTxBlock`, `numberOfTx` and the
counts of the summary; the parameters of `getEthOhlc` that no caller passes; the casing and checking
of token addresses; rejected inputs of the arithmetic and binary floating point; reading the
arguments of a command and loading the Discord commands; commands for different wallets
(`AnalyseCommand` takes one wallet, sharing of a transaction is in `TransactionStreamer`).
`WalletAnalysis` takes the aggregated transfers of a transaction as a constant, so a look up that
differs between two analyses of one transaction is not seen there. `AnalyseCommand` runs the
iterative mode, the one its callers choose; the concurrent mode is in `WalletAnalysis`.

What is left is not the order of things: configuration, logging, ABIs, migrations and the
registration of the Discord command keep no state that later steps read, and the price download
script runs on its own.

## 7. What could come next

- Decoding and analysis composed, in which a token that resolves to the default at one time and to
  its own metadata at another changes what is counted.
- `CalmRowsAreComplete` for commands on different wallets, with `Exclusive` in place of the one
  wallet.
