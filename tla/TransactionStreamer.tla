------------------------- MODULE TransactionStreamer -------------------------
(***************************************************************************)
(* TransactionStreamerService: ingestion of the on-chain history of a list *)
(* of wallets into the database, resumed from a cursor kept with each      *)
(* wallet (Wallet.lastBlockUpdated).                                       *)
(*                                                                         *)
(* Every session (a CLI run, or one Discord interaction) has a streamer of *)
(* its own; only the database is shared.  A session gives way to the       *)
(* others at each await, so one action is the code between two awaits,     *)
(* together with the outcome of the awaited call.  A crash of the process  *)
(* loses every session and keeps the database.                             *)
(*                                                                         *)
(* Both callers in src/app.ts and src/discord/Analysewallet.ts call        *)
(* buildWalletTransactionHistory() without arguments: the last block comes *)
(* from the node and a new wallet starts at block 0.                       *)
(***************************************************************************)
EXTENDS Integers, FiniteSets

CONSTANTS
    Wallets,
    Sessions,
    Lists,           \* the wallet lists sessions are started with
    Txs,             \* hashes of the transactions the chain will ever hold
    TxBlock,         \* block of each of them
    TxWallets,       \* wallets the explorer lists each of them under
    MaxBlock,        \* bound on the growth of the chain
    BigintAsText,    \* does the MySQL driver return BIGINT columns as text?
    EmptyUnbinds,    \* does saving `transactions: []` detach a wallet's transactions?
    ExplorerMayLag,  \* may the explorer list less of a block than the node has?
    Absent,          \* transactionTable: no row with this hash
    Unbound          \* transactionTable: a row whose wallet is NULL

ASSUME TxAssumption ==
    /\ MaxBlock \in Nat \ {0}
    /\ TxBlock \in [Txs -> 1 .. MaxBlock]
    /\ TxWallets \in [Txs -> SUBSET Wallets]
ASSUME ListAssumption == Lists \subseteq SUBSET Wallets
ASSUME FlagAssumption == /\ BigintAsText \in BOOLEAN
                         /\ EmptyUnbinds \in BOOLEAN
                         /\ ExplorerMayLag \in BOOLEAN
ASSUME OwnerAssumption == Absent \notin Wallets /\ Unbound \notin Wallets /\ Absent # Unbound

VARIABLES
    head,              \* highest block of the chain
    walletTable,       \* lastBlockUpdated of each wallet's row, or NoRow
    transactionTable,  \* wallet of each transaction's row, Unbound or Absent
    session,           \* the state of each session
    unlisted           \* history: <<w, t>>, t in a range fetched for w but not listed yet

vars == <<head, walletTable, transactionTable, session, unlisted>>

NoRow == -1

(***************************************************************************)
(* lastBlockUpdated + 1 when the column arrives as text: "100" + 1 is the  *)
(* text "1001", which is no safe integer.                                  *)
(***************************************************************************)
Text == -1

(***************************************************************************)
(* A session: where it is; its walletList, and the wallets of it that are  *)
(* still to do; the wallet at hand with constStartBlock (`from`), `latest` *)
(* and the transactions fetched for it but not saved yet.                  *)
(***************************************************************************)
States == [ pc      : {"idle", "listed", "loop", "create", "fetch", "save", "done", "failed"},
            list    : SUBSET Wallets,
            todo    : SUBSET Wallets,
            wallet  : Wallets \cup {Unbound},
            from    : Nat \cup {Text},
            latest  : Nat,
            pending : SUBSET Txs ]

TypeOK == /\ head \in 0 .. MaxBlock
          /\ walletTable \in [Wallets -> Nat \cup {NoRow}]
          /\ transactionTable \in [Txs -> Wallets \cup {Absent, Unbound}]
          /\ session \in [Sessions -> States]
          /\ unlisted \subseteq Wallets \X Txs

Idle == [ pc |-> "idle", list |-> {}, todo |-> {}, wallet |-> Unbound,
          from |-> 0, latest |-> 0, pending |-> {} ]

Init == /\ head = 1
        /\ walletTable = [w \in Wallets |-> NoRow]
        /\ transactionTable = [t \in Txs |-> Absent]
        /\ session = [s \in Sessions |-> Idle]
        /\ unlisted = {}

-----------------------------------------------------------------------------

TxsOf(w) == {t \in Txs : w \in TxWallets[t]}

Between(w, low, high) == {t \in TxsOf(w) : low <= TxBlock[t] /\ TxBlock[t] <= high}

Running(s) == session[s].pc \in {"listed", "loop", "create", "fetch", "save"}

(***************************************************************************)
(* Mutant of Abort: the error is caught per wallet and the loop goes on    *)
(* with the next one.                                                      *)
(***************************************************************************)
AbortGoesOn(s) ==
    /\ session' = [session EXCEPT ![s].pc = "loop", ![s].todo = @ \ {session[s].wallet},
                                  ![s].wallet = Unbound, ![s].pending = {}]
    /\ UNCHANGED <<head, walletTable, transactionTable, unlisted>>

(***************************************************************************)
(* Mutant of Abort: a wallet that failed is tried again at once.           *)
(***************************************************************************)
AbortRetries(s) ==
    /\ session' = [session EXCEPT ![s].pc = IF @ = "listed" THEN "failed" ELSE "loop",
                                  ![s].wallet = Unbound, ![s].pending = {}]
    /\ UNCHANGED <<head, walletTable, transactionTable, unlisted>>

(***************************************************************************)
(* An awaited call rejects: the error leaves buildWalletTransactionHistory *)
(* and the wallets after this one are not ingested.                        *)
(***************************************************************************)
Abort(s) ==
    /\ session' = [session EXCEPT ![s] = [Idle EXCEPT !.pc = "failed"]]
    /\ UNCHANGED <<head, walletTable, transactionTable, unlisted>>

(***************************************************************************)
(* setWalletList on the streamer of a new session.                         *)
(***************************************************************************)
SetWalletList(s, list) ==
    /\ ~ Running(s)
    /\ session' = [session EXCEPT ![s] = [Idle EXCEPT !.pc = "listed", !.list = list]]
    /\ UNCHANGED <<head, walletTable, transactionTable, unlisted>>

(***************************************************************************)
(* addWallets: on a wallet already in the list it throws, having added     *)
(* those before it.                                                        *)
(***************************************************************************)
AddWallets(s, wallets) ==
    /\ session[s].pc = "listed"
    /\ \E added \in SUBSET (wallets \ session[s].list) :
          /\ wallets \cap session[s].list = {} => added = wallets
          /\ session' = [session EXCEPT ![s].list = @ \cup added]
    /\ UNCHANGED <<head, walletTable, transactionTable, unlisted>>

(***************************************************************************)
(* getBlockNumber: the provider that answers may be behind the chain.      *)
(***************************************************************************)
GetLatest(s) ==
    /\ session[s].pc = "listed"
    /\ \E block \in 0 .. head :
          session' = [session EXCEPT ![s].pc = "loop",
                                     ![s].todo = session[s].list,
                                     ![s].latest = block]
    /\ UNCHANGED <<head, walletTable, transactionTable, unlisted>>

GetLatestFails(s) == session[s].pc = "listed" /\ Abort(s)

(***************************************************************************)
(* Mutant of ResumeBlock: re-read the last blocks, not clamped at 0.       *)
(***************************************************************************)
ResumeBlockOverlap(w) == walletTable[w] - 2

(***************************************************************************)
(* constStartBlock of a wallet loaded from its row.                        *)
(***************************************************************************)
ResumeBlock(w) == IF BigintAsText THEN Text ELSE walletTable[w] + 1

(***************************************************************************)
(* The next wallet of the list: its row is found and read.                 *)
(***************************************************************************)
LoadWallet(s, w) ==
    /\ session[s].pc = "loop"
    /\ w \in session[s].todo
    /\ walletTable[w] # NoRow
    /\ session' = [session EXCEPT ![s].pc = "fetch", ![s].wallet = w,
                                  ![s].from = ResumeBlock(w)]
    /\ UNCHANGED <<head, walletTable, transactionTable, unlisted>>

(***************************************************************************)
(* The next wallet of the list has no row, or findOneBy fails: the error   *)
(* is logged and the wallet treated as new.                                *)
(***************************************************************************)
TreatAsNew(s, w) ==
    /\ session[s].pc = "loop"
    /\ w \in session[s].todo
    /\ session' = [session EXCEPT ![s].pc = "create", ![s].wallet = w]
    /\ UNCHANGED <<head, walletTable, transactionTable, unlisted>>

(***************************************************************************)
(* What saving a wallet does to the transaction rows.  An entity with an   *)
(* empty `transactions` relation makes the mapper set the foreign key of   *)
(* the rows bound to it to NULL (if it is one that does so); an entity     *)
(* loaded without that relation leaves them alone.                         *)
(***************************************************************************)
SaveRelations(w, emptyRelation) ==
    [t \in Txs |-> IF EmptyUnbinds /\ emptyRelation /\ transactionTable[t] = w
                   THEN Unbound
                   ELSE transactionTable[t]]

(***************************************************************************)
(* save() of the fresh wallet object inserts the row or overwrites it.     *)
(***************************************************************************)
CreateWallet(s) ==
    /\ session[s].pc = "create"
    /\ walletTable' = [walletTable EXCEPT ![session[s].wallet] = 0]
    /\ transactionTable' = SaveRelations(session[s].wallet, TRUE)
    /\ session' = [session EXCEPT ![s].pc = "fetch", ![s].from = 0]
    /\ UNCHANGED <<head, unlisted>>

CreateFails(s) == session[s].pc = "create" /\ Abort(s)

(***************************************************************************)
(* Mutants of RangeAccepted: no comparison of the bounds; a range of one   *)
(* block refused.                                                          *)
(***************************************************************************)
RangeAcceptedAny(s) == session[s].from # Text
RangeAcceptedStrict(s) == session[s].from # Text /\ session[s].from < session[s].latest

(***************************************************************************)
(* The range check of EtherscanApiService.getTransactions.                 *)
(***************************************************************************)
RangeAccepted(s) == session[s].from # Text /\ session[s].from <= session[s].latest

RangeRejected(s) ==
    /\ session[s].pc = "fetch"
    /\ ~ RangeAccepted(s)
    /\ Abort(s)

(***************************************************************************)
(* constructGlobalTransactionHistory returns what the explorer lists of    *)
(* the range (HistoryFetch is its contract), or fails: an invalid address, *)
(* no API key, a refused request, a range that fills every page.           *)
(***************************************************************************)
FetchHistory(s) ==
    /\ session[s].pc = "fetch"
    /\ RangeAccepted(s)
    /\ LET wallet == session[s].wallet
           wanted == Between(wallet, session[s].from, session[s].latest)
       IN  \E listed \in IF ExplorerMayLag THEN SUBSET wanted ELSE {wanted} :
              /\ session' = [session EXCEPT ![s].pc = "save", ![s].pending = listed]
              /\ unlisted' = unlisted \cup ({wallet} \X (wanted \ listed))
    /\ UNCHANGED <<head, walletTable, transactionTable>>

FetchFails(s) ==
    /\ session[s].pc = "fetch"
    /\ RangeAccepted(s)
    /\ Abort(s)

(***************************************************************************)
(* saveHistoryToDB: one row at a time, oldest first.  The hash is the      *)
(* primary key, so a row that is there already gets this wallet.           *)
(***************************************************************************)
SaveTransaction(s, t) ==
    /\ session[s].pc = "save"
    /\ t \in session[s].pending
    /\ \A u \in session[s].pending : TxBlock[t] <= TxBlock[u]
    /\ transactionTable' = [transactionTable EXCEPT ![t] = session[s].wallet]
    /\ session' = [session EXCEPT ![s].pending = @ \ {t}]
    /\ UNCHANGED <<head, walletTable, unlisted>>

(***************************************************************************)
(* Mutant of SaveFails: the error of one row is caught and the row         *)
(* skipped.                                                                *)
(***************************************************************************)
SaveFailsSkipsRow(s) ==
    /\ session[s].pc = "save"
    /\ \E t \in session[s].pending : session' = [session EXCEPT ![s].pending = @ \ {t}]
    /\ UNCHANGED <<head, walletTable, transactionTable, unlisted>>

(***************************************************************************)
(* A field that is no safe integer, a row that cannot be saved, or a       *)
(* cursor that cannot be.                                                  *)
(***************************************************************************)
SaveFails(s) == session[s].pc = "save" /\ Abort(s)

(***************************************************************************)
(* Mutant of AdvanceCursor: the cursor is saved before the history.        *)
(***************************************************************************)
AdvanceCursorFirst(s) ==
    /\ session[s].pc = "save"
    /\ walletTable' = [walletTable EXCEPT ![session[s].wallet] = session[s].latest]
    /\ UNCHANGED <<head, transactionTable, session, unlisted>>

(***************************************************************************)
(* The history is saved: the cursor moves to `latest`, whatever the row    *)
(* holds by now, and the loop goes on.  The entity saved is the loaded one *)
(* or, when the pass started at 0, the fresh one with its empty relation.  *)
(***************************************************************************)
AdvanceCursor(s) ==
    /\ session[s].pc = "save"
    /\ session[s].pending = {}
    /\ walletTable' = [walletTable EXCEPT ![session[s].wallet] = session[s].latest]
    /\ transactionTable' = SaveRelations(session[s].wallet, session[s].from = 0)
    /\ session' = [session EXCEPT ![s].pc = "loop",
                                  ![s].todo = @ \ {session[s].wallet},
                                  ![s].wallet = Unbound,
                                  ![s].from = 0]
    /\ UNCHANGED <<head, unlisted>>

Finish(s) ==
    /\ session[s].pc = "loop"
    /\ session[s].todo = {}
    /\ session' = [session EXCEPT ![s].pc = "done"]
    /\ UNCHANGED <<head, walletTable, transactionTable, unlisted>>

SessionStep(s) ==
    \/ GetLatest(s)       \/ GetLatestFails(s)
    \/ \E w \in Wallets : LoadWallet(s, w) \/ TreatAsNew(s, w)
    \/ CreateWallet(s)    \/ CreateFails(s)
    \/ RangeRejected(s)   \/ FetchHistory(s)   \/ FetchFails(s)
    \/ \E t \in Txs : SaveTransaction(s, t)
    \/ SaveFails(s)
    \/ AdvanceCursor(s)
    \/ Finish(s)

(***************************************************************************)
(* The environment: users start sessions, the chain grows, and the process *)
(* crashes and is restarted.                                               *)
(***************************************************************************)
StartSession(s) == \E list \in Lists : SetWalletList(s, list) \/ AddWallets(s, list)

ChainGrows ==
    /\ head < MaxBlock
    /\ head' = head + 1
    /\ UNCHANGED <<walletTable, transactionTable, session, unlisted>>

Crash ==
    /\ session' = [s \in Sessions |-> Idle]
    /\ UNCHANGED <<head, walletTable, transactionTable, unlisted>>

Next == \/ \E s \in Sessions : StartSession(s) \/ SessionStep(s)
        \/ ChainGrows
        \/ Crash

Spec == Init /\ [][Next]_vars

(***************************************************************************)
(* The awaited calls of a session settle.                                  *)
(***************************************************************************)
LiveSpec == Spec /\ \A s \in Sessions : WF_vars(SessionStep(s))

-----------------------------------------------------------------------------

Cursor(w) == walletTable[w]

(***************************************************************************)
(* The cursor of a wallet never moves past a transaction that is not in    *)
(* the database, unless the explorer did not list it yet when its block    *)
(* was fetched: whatever fails or crashes, whichever sessions interleave.  *)
(***************************************************************************)
CursorCovers ==
    \A w \in Wallets : \A t \in TxsOf(w) :
        TxBlock[t] <= Cursor(w) /\ <<w, t>> \notin unlisted
            => transactionTable[t] # Absent

(***************************************************************************)
(* The same, for what the analysis reads: the row is bound to the wallet   *)
(* whose cursor has passed it.  (Comment of lines 85-86: the cursor may    *)
(* only advance once the history is durably saved.)                        *)
(***************************************************************************)
CursorCoversOwn ==
    \A w \in Wallets : \A t \in TxsOf(w) :
        TxBlock[t] <= Cursor(w) /\ <<w, t>> \notin unlisted
            => transactionTable[t] = w

(***************************************************************************)
(* When a pass has returned normally, every wallet of its list has all its *)
(* transactions up to the block the pass started from.                     *)
(***************************************************************************)
PassComplete ==
    \A s \in Sessions : session[s].pc = "done" =>
        \A w \in session[s].list : \A t \in TxsOf(w) :
            TxBlock[t] <= session[s].latest /\ <<w, t>> \notin unlisted
                => transactionTable[t] = w

(***************************************************************************)
(* One session at a time never moves a cursor back, except to 0 when the   *)
(* wallet is taken for a new one: a node that lags is refused by the range *)
(* check before the cursor is written.                                     *)
(***************************************************************************)
CursorOnlyResets ==
    [][\A w \in Wallets : walletTable'[w] < walletTable[w] => walletTable'[w] = 0]_walletTable

(***************************************************************************)
(* A pass that resumes after the stored cursor is refused only when there  *)
(* is no block after it.  (test/streamer-integrity.test.ts: "resumes       *)
(* ingestion after the persisted cursor range".)                           *)
(***************************************************************************)
ResumesAfterCursor ==
    [][\A s \in Sessions :
          RangeRejected(s) => Cursor(session[s].wallet) >= session[s].latest]_vars

(***************************************************************************)
(* A pass over a list ends, well or badly, whatever fails on the way and   *)
(* however the chain grows meanwhile.                                      *)
(***************************************************************************)
StreamEnds == \A s \in Sessions : session[s].pc = "loop" ~> ~ Running(s)

=============================================================================
