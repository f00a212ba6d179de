--------------------- MODULE TransactionStreamer_proofs ---------------------
(***************************************************************************)
(* Proofs about TransactionStreamer, for any wallets, sessions and         *)
(* transactions: what the order "save the history, then the cursor" keeps  *)
(* true across failures, crashes and concurrent sessions.                  *)
(***************************************************************************)
EXTENDS TransactionStreamer, TLAPS

(***************************************************************************)
(* A transaction row stays bound to the wallet it was saved for if no two  *)
(* tracked wallets share it and the mapper detaches nothing.               *)
(***************************************************************************)
Exclusive ==
    /\ ~ EmptyUnbinds
    /\ \A t \in Txs : \A v, w \in TxWallets[t] : v = w

Kept(w, t) ==
    /\ transactionTable[t] # Absent
    /\ Exclusive => transactionTable[t] = w

Covered(w, block) ==
    \A t \in TxsOf(w) : TxBlock[t] <= block /\ <<w, t>> \notin unlisted => Kept(w, t)

(***************************************************************************)
(* What a session knows at each of its waits: everything before the range  *)
(* it is about to fetch is kept, everything of the range is kept or still  *)
(* pending, and the wallets it is done with are covered.                   *)
(***************************************************************************)
Fetching(s) ==
    session[s].pc = "fetch" /\ session[s].from # Text =>
        Covered(session[s].wallet, session[s].from - 1)

Saving(s) ==
    session[s].pc = "save" =>
        /\ session[s].pending \subseteq TxsOf(session[s].wallet)
        /\ \A t \in TxsOf(session[s].wallet) :
              TxBlock[t] <= session[s].latest /\ <<session[s].wallet, t>> \notin unlisted
                  => Kept(session[s].wallet, t) \/ t \in session[s].pending

Progress(s) ==
    /\ session[s].pc \in {"loop", "create", "fetch", "save", "done"} =>
           \A w \in session[s].list \ session[s].todo : Covered(w, session[s].latest)
    /\ session[s].pc = "done" => session[s].todo = {}

SessionInv(s) == Fetching(s) /\ Saving(s) /\ Progress(s)

TypeInv == /\ TypeOK
           /\ \A s \in Sessions :
                 session[s].pc \in {"create", "fetch", "save"} => session[s].wallet \in Wallets

CoverInv == \A w \in Wallets : Covered(w, walletTable[w])

IngestInv == CoverInv /\ \A s \in Sessions : SessionInv(s)

-----------------------------------------------------------------------------

LEMMA IdleType == Idle \in States
  BY DEF Idle, States

(***************************************************************************)
(* A step of one session changes its own record only.                      *)
(***************************************************************************)
LEMMA StepTypes ==
    ASSUME TypeInv, NEW s \in Sessions, NEW after \in States,
           after.pc \in {"create", "fetch", "save"} => after.wallet \in Wallets,
           session' = [session EXCEPT ![s] = after],
           head' = head,
           walletTable' \in [Wallets -> Nat \cup {NoRow}],
           transactionTable' \in [Txs -> Wallets \cup {Absent, Unbound}],
           unlisted' \subseteq Wallets \X Txs
    PROVE  TypeInv'
  BY DEF TypeInv, TypeOK

LEMMA AbortTypes ==
    ASSUME TypeInv, NEW s \in Sessions, Abort(s)
    PROVE  TypeInv'
  <1>1. [Idle EXCEPT !.pc = "failed"] \in States
    BY DEF Idle, States
  <1>2. QED
    BY <1>1 DEF Abort, TypeInv, TypeOK, Idle, States

LEMMA SaveRelationsType ==
    ASSUME TypeOK, NEW w, NEW emptyRelation \in BOOLEAN
    PROVE  SaveRelations(w, emptyRelation) \in [Txs -> Wallets \cup {Absent, Unbound}]
  BY DEF SaveRelations, TypeOK

(***************************************************************************)
(* Type correctness: cursors are block numbers, and a session past the     *)
(* choice of a wallet works on a tracked one.                              *)
(***************************************************************************)
LEMMA TypeInit == ASSUME Init PROVE TypeInv
  BY IdleType, TxAssumption DEF Init, TypeInv, TypeOK, Idle, NoRow

LEMMA TypeStep ==
    ASSUME TypeInv, [Next]_vars
    PROVE  TypeInv'
  <1>t. /\ session \in [Sessions -> States]
        /\ head \in Nat
    BY TxAssumption DEF TypeInv, TypeOK
  <1>1. ASSUME NEW s \in Sessions, NEW list \in Lists, SetWalletList(s, list)
        PROVE  TypeInv'
    <2>1. [Idle EXCEPT !.pc = "listed", !.list = list] \in States
      BY ListAssumption DEF Idle, States
    <2>2. QED
      BY <1>1, <2>1 DEF SetWalletList, TypeInv, TypeOK, Idle, States
  <1>2. ASSUME NEW s \in Sessions, NEW list \in Lists, AddWallets(s, list)
        PROVE  TypeInv'
    <2>1. PICK added \in SUBSET list :
             session' = [session EXCEPT ![s].list = @ \cup added]
      BY <1>2 DEF AddWallets
    <2> DEFINE after == [session[s] EXCEPT !.list = @ \cup added]
    <2>2. after \in States /\ after.pc = "listed"
      <3>1. session[s].list \cup added \in SUBSET Wallets
        BY <1>t, ListAssumption DEF States
      <3>2. QED
        BY <1>2, <1>t, <3>1 DEF AddWallets, States
    <2>3. session' = [session EXCEPT ![s] = after]
      BY <2>1, <1>t
    <2> HIDE DEF after
    <2>4. QED
      BY <1>2, <2>2, <2>3, StepTypes DEF AddWallets, TypeInv, TypeOK
  <1>3. ASSUME NEW s \in Sessions, GetLatest(s) PROVE TypeInv'
    <2>1. PICK block \in 0 .. head :
             session' = [session EXCEPT ![s].pc = "loop",
                                        ![s].todo = session[s].list,
                                        ![s].latest = block]
      BY <1>3 DEF GetLatest
    <2> DEFINE after == [session[s] EXCEPT !.pc = "loop",
                                           !.todo = session[s].list,
                                           !.latest = block]
    <2>2. after \in States /\ after.pc = "loop"
      <3>1. block \in Nat /\ session[s].list \in SUBSET Wallets /\ session[s] \in States
        BY <1>t DEF States
      <3>2. QED
        BY <3>1 DEF States
    <2>3. session' = [session EXCEPT ![s] = after]
      BY <2>1, <1>t
    <2> HIDE DEF after
    <2>4. QED
      BY <1>3, <2>2, <2>3, StepTypes DEF GetLatest, TypeInv, TypeOK
  <1>4. ASSUME NEW s \in Sessions, NEW w \in Wallets, LoadWallet(s, w) PROVE TypeInv'
    <2>1. ResumeBlock(w) \in Nat \cup {Text}
      BY <1>4 DEF LoadWallet, ResumeBlock, TypeInv, TypeOK, NoRow, Text
    <2>2. QED
      <3> DEFINE after == [session[s] EXCEPT !.pc = "fetch", !.wallet = w,
                                             !.from = ResumeBlock(w)]
      <3>1. after \in States /\ after.wallet \in Wallets
        BY <2>1, <1>t DEF States
      <3>2. session' = [session EXCEPT ![s] = after]
        BY <1>4, <1>t DEF LoadWallet
      <3> HIDE DEF after
      <3>3. QED
        BY <1>4, <3>1, <3>2, StepTypes DEF LoadWallet, TypeInv, TypeOK
  <1>5. ASSUME NEW s \in Sessions, NEW w \in Wallets, TreatAsNew(s, w) PROVE TypeInv'
    <2> DEFINE after == [session[s] EXCEPT !.pc = "create", !.wallet = w]
    <2>1. after \in States /\ after.wallet \in Wallets
      BY <1>t DEF States
    <2>2. session' = [session EXCEPT ![s] = after]
      BY <1>5, <1>t DEF TreatAsNew
    <2> HIDE DEF after
    <2>3. QED
      BY <1>5, <2>1, <2>2, StepTypes DEF TreatAsNew, TypeInv, TypeOK
  <1>6. ASSUME NEW s \in Sessions, CreateWallet(s) PROVE TypeInv'
    <2> DEFINE after == [session[s] EXCEPT !.pc = "fetch", !.from = 0]
    <2>1. after \in States /\ after.wallet \in Wallets
      BY <1>6, <1>t DEF States, CreateWallet, TypeInv
    <2>2. session' = [session EXCEPT ![s] = after]
      BY <1>6, <1>t DEF CreateWallet
    <2>3. walletTable' \in [Wallets -> Nat \cup {NoRow}]
      BY <1>6 DEF CreateWallet, TypeInv, TypeOK
    <2>4. transactionTable' \in [Txs -> Wallets \cup {Absent, Unbound}]
      BY <1>6, SaveRelationsType DEF CreateWallet, TypeInv
    <2> HIDE DEF after
    <2>5. QED
      BY <1>6, <2>1, <2>2, <2>3, <2>4, StepTypes DEF CreateWallet, TypeInv, TypeOK
  <1>7. ASSUME NEW s \in Sessions, FetchHistory(s) PROVE TypeInv'
    <2>1. session[s].wallet \in Wallets
      BY <1>7 DEF FetchHistory, TypeInv
    <2>2. QED
      <3> DEFINE wanted == Between(session[s].wallet, session[s].from, session[s].latest)
      <3>1. PICK listed \in SUBSET wanted :
               /\ session' = [session EXCEPT ![s].pc = "save", ![s].pending = listed]
               /\ unlisted' = unlisted \cup ({session[s].wallet} \X (wanted \ listed))
        BY <1>7 DEF FetchHistory
      <3> DEFINE after == [session[s] EXCEPT !.pc = "save", !.pending = listed]
      <3>2. wanted \subseteq Txs
        BY DEF Between, TxsOf
      <3>3. after \in States /\ after.wallet \in Wallets
        BY <3>2, <2>1, <1>t DEF States
      <3>4. session' = [session EXCEPT ![s] = after]
        BY <3>1, <1>t
      <3>5. unlisted' \subseteq Wallets \X Txs
        BY <3>1, <3>2, <2>1 DEF TypeInv, TypeOK
      <3> HIDE DEF after
      <3>6. QED
        BY <1>7, <3>3, <3>4, <3>5, StepTypes DEF FetchHistory, TypeInv, TypeOK
  <1>8. ASSUME NEW s \in Sessions, NEW t \in Txs, SaveTransaction(s, t) PROVE TypeInv'
    <2>1. session[s].wallet \in Wallets
      BY <1>8 DEF SaveTransaction, TypeInv
    <2>2. QED
      BY <1>8, <2>1 DEF SaveTransaction, TypeInv, TypeOK, States
  <1>9. ASSUME NEW s \in Sessions, AdvanceCursor(s) PROVE TypeInv'
    <2>1. session[s].wallet \in Wallets /\ session[s].latest \in Nat
      BY <1>9, <1>t DEF AdvanceCursor, TypeInv, States
    <2>2. transactionTable' \in [Txs -> Wallets \cup {Absent, Unbound}]
      BY <1>9, SaveRelationsType DEF AdvanceCursor, TypeInv
    <2>3. QED
      <3> DEFINE after == [session[s] EXCEPT !.pc = "loop",
                                             !.todo = @ \ {session[s].wallet},
                                             !.wallet = Unbound,
                                             !.from = 0]
      <3>1. after \in States /\ after.pc = "loop"
        <4>1. session[s].todo \ {session[s].wallet} \in SUBSET Wallets
          BY <1>t DEF States
        <4>2. QED
          BY <4>1, <1>t DEF States
      <3>2. session' = [session EXCEPT ![s] = after]
        BY <1>9, <1>t DEF AdvanceCursor
      <3>3. walletTable' \in [Wallets -> Nat \cup {NoRow}]
        BY <1>9, <2>1 DEF AdvanceCursor, TypeInv, TypeOK
      <3> HIDE DEF after
      <3>4. QED
        BY <1>9, <2>2, <3>1, <3>2, <3>3, StepTypes DEF AdvanceCursor, TypeInv, TypeOK
  <1>10. ASSUME NEW s \in Sessions, Finish(s) PROVE TypeInv'
    BY <1>10 DEF Finish, TypeInv, TypeOK, States
  <1>11. ASSUME NEW s \in Sessions, Abort(s) PROVE TypeInv'
    BY <1>11, AbortTypes
  <1>12. CASE ChainGrows
    BY <1>12, TxAssumption DEF ChainGrows, TypeInv, TypeOK
  <1>13. CASE Crash
    BY <1>13, IdleType DEF Crash, TypeInv, TypeOK, Idle
  <1>14. CASE UNCHANGED vars
    BY <1>14 DEF vars, TypeInv, TypeOK
  <1>15. QED
    BY <1>1, <1>2, <1>3, <1>4, <1>5, <1>6, <1>7, <1>8, <1>9, <1>10, <1>11, <1>12,
       <1>13, <1>14
       DEF Next, StartSession, SessionStep, GetLatestFails, CreateFails, RangeRejected,
           FetchFails, SaveFails

LEMMA TypeInvariant == Spec => []TypeInv
  <1>1. Init => TypeInv
    BY TypeInit
  <1>2. TypeInv /\ [Next]_vars => TypeInv'
    BY TypeStep
  <1>3. QED
    BY <1>1, <1>2, PTL DEF Spec

(***************************************************************************)
(* Every variable keeps its type.                                         *)
(***************************************************************************)
THEOREM TypeCorrect == Spec => []TypeOK
  <1>1. TypeInv => TypeOK
    BY DEF TypeInv
  <1>2. QED
    BY <1>1, TypeInvariant, PTL

-----------------------------------------------------------------------------

(***************************************************************************)
(* What is kept stays kept: no step deletes a row, and a row is taken from *)
(* a wallet only when another wallet shares it or the mapper detaches it.  *)
(***************************************************************************)
LEMMA KeptStable ==
    ASSUME TypeInv, \A s \in Sessions : Saving(s), [Next]_vars,
           NEW w \in Wallets, NEW t \in TxsOf(w), Kept(w, t)
    PROVE  Kept(w, t)'
  <1>t. /\ transactionTable \in [Txs -> Wallets \cup {Absent, Unbound}]
        /\ t \in Txs /\ w \in TxWallets[t]
    BY DEF TypeInv, TypeOK, TxsOf
  <1>1. CASE transactionTable' = transactionTable
    BY <1>1 DEF Kept, Exclusive
  <1>2. ASSUME NEW v, NEW emptyRelation, transactionTable' = SaveRelations(v, emptyRelation)
        PROVE  Kept(w, t)'
    BY <1>2, <1>t, OwnerAssumption DEF Kept, Exclusive, SaveRelations
  <1>3. ASSUME NEW s \in Sessions, NEW u \in Txs, SaveTransaction(s, u)
        PROVE  Kept(w, t)'
    <2>1. /\ transactionTable' = [transactionTable EXCEPT ![u] = session[s].wallet]
          /\ session[s].wallet \in Wallets
          /\ u \in TxsOf(session[s].wallet)
      BY <1>3 DEF SaveTransaction, TypeInv, Saving
    <2>2. CASE u # t
      BY <2>1, <2>2, <1>t DEF Kept, Exclusive
    <2>3. CASE u = t
      <3>1. transactionTable'[t] = session[s].wallet /\ session[s].wallet # Absent
        BY <2>1, <2>3, <1>t, OwnerAssumption
      <3>2. Exclusive => session[s].wallet = w
        BY <2>1, <2>3, <1>t DEF Exclusive, TxsOf
      <3>3. QED
        BY <3>1, <3>2 DEF Kept, Exclusive
    <2>4. QED
      BY <2>2, <2>3
  <1>4. QED
    BY <1>1, <1>2, <1>3
       DEF Next, StartSession, SessionStep, SetWalletList, AddWallets, GetLatest,
           GetLatestFails, LoadWallet, TreatAsNew, CreateWallet, CreateFails, RangeRejected,
           FetchHistory, FetchFails, SaveFails, AdvanceCursor, Finish, ChainGrows, Crash,
           Abort, vars

LEMMA UnlistedGrows ==
    ASSUME [Next]_vars
    PROVE  unlisted \subseteq unlisted'
  BY DEF Next, StartSession, SessionStep, SetWalletList, AddWallets, GetLatest,
         GetLatestFails, LoadWallet, TreatAsNew, CreateWallet, CreateFails, RangeRejected,
         FetchHistory, FetchFails, SaveTransaction, SaveFails, AdvanceCursor, Finish,
         ChainGrows, Crash, Abort, vars

LEMMA CoveredStable ==
    ASSUME TypeInv, \A s \in Sessions : Saving(s), [Next]_vars,
           NEW w \in Wallets, NEW block, Covered(w, block)
    PROVE  \A t \in TxsOf(w) :
               TxBlock[t] <= block /\ <<w, t>> \notin unlisted' => Kept(w, t)'
  BY KeptStable, UnlistedGrows DEF Covered

(***************************************************************************)
(* A session that does not move keeps what it knows.                       *)
(***************************************************************************)
LEMMA OtherSession ==
    ASSUME TypeInv, IngestInv, [Next]_vars,
           NEW s \in Sessions, session'[s] = session[s]
    PROVE  SessionInv(s)'
  <1>t. /\ session[s] \in States
        /\ \A r \in Sessions : Saving(r)
        /\ SessionInv(s)
        /\ session[s].pc \in {"create", "fetch", "save"} => session[s].wallet \in Wallets
    BY DEF TypeInv, TypeOK, IngestInv, SessionInv
  <1>1. Fetching(s)'
    BY <1>t, CoveredStable DEF SessionInv, Fetching, Covered
  <1>2. Saving(s)'
    BY <1>t, KeptStable, UnlistedGrows DEF SessionInv, Saving
  <1>3. Progress(s)'
    <2>1. session[s].list \subseteq Wallets
      BY <1>t DEF States
    <2>2. QED
      BY <1>t, <2>1, CoveredStable DEF SessionInv, Progress, Covered
  <1>4. QED
    BY <1>1, <1>2, <1>3 DEF SessionInv

LEMMA CursorUnchanged ==
    ASSUME TypeInv, IngestInv, [Next]_vars, walletTable' = walletTable
    PROVE  CoverInv'
  BY CoveredStable DEF IngestInv, SessionInv, CoverInv, Covered

(***************************************************************************)
(* It is enough that the session that moves knows enough afterwards.       *)
(***************************************************************************)
LEMMA OneMoves ==
    ASSUME TypeInv, IngestInv, [Next]_vars, NEW s \in Sessions,
           \A r \in Sessions \ {s} : session'[r] = session[r],
           SessionInv(s)', CoverInv'
    PROVE  IngestInv'
  BY OtherSession DEF IngestInv

LEMMA AbortKeeps ==
    ASSUME TypeInv, IngestInv, [Next]_vars, NEW s \in Sessions, Abort(s)
    PROVE  IngestInv'
  <1>1. /\ session'[s].pc = "failed"
        /\ \A r \in Sessions \ {s} : session'[r] = session[r]
    BY DEF Abort, TypeInv, TypeOK, Idle
  <1>2. SessionInv(s)'
    BY <1>1 DEF SessionInv, Fetching, Saving, Progress
  <1>3. CoverInv'
    BY CursorUnchanged DEF Abort
  <1>4. QED
    BY <1>1, <1>2, <1>3, OneMoves

LEMMA IngestInit == ASSUME Init PROVE IngestInv
  <1>1. CoverInv
    BY TxAssumption DEF Init, CoverInv, Covered, NoRow, TxsOf
  <1>2. ASSUME NEW s \in Sessions PROVE SessionInv(s)
    BY DEF Init, Idle, SessionInv, Fetching, Saving, Progress
  <1>3. QED
    BY <1>1, <1>2 DEF IngestInv

(***************************************************************************)
(* Every step of every session keeps what the sessions know.               *)
(***************************************************************************)
LEMMA IngestStep ==
    ASSUME TypeInv, IngestInv, [Next]_vars
    PROVE  IngestInv'
  <1>t. /\ session \in [Sessions -> States]
        /\ walletTable \in [Wallets -> Nat \cup {NoRow}]
        /\ \A t \in Txs : TxBlock[t] \in Nat \ {0}
    BY TxAssumption DEF TypeInv, TypeOK
  <1>1. ASSUME NEW s \in Sessions, NEW list \in Lists, SetWalletList(s, list)
        PROVE  IngestInv'
    <2>1. /\ session'[s].pc = "listed"
          /\ \A r \in Sessions \ {s} : session'[r] = session[r]
      BY <1>1, <1>t DEF SetWalletList, Idle
    <2>2. QED
      BY <1>1, <2>1, OneMoves, CursorUnchanged
         DEF SetWalletList, SessionInv, Fetching, Saving, Progress
  <1>2. ASSUME NEW s \in Sessions, NEW list \in Lists, AddWallets(s, list)
        PROVE  IngestInv'
    <2>1. /\ session'[s].pc = "listed"
          /\ \A r \in Sessions \ {s} : session'[r] = session[r]
      BY <1>2, <1>t DEF AddWallets, States
    <2>2. QED
      BY <1>2, <2>1, OneMoves, CursorUnchanged
         DEF AddWallets, SessionInv, Fetching, Saving, Progress
  <1>3. ASSUME NEW s \in Sessions, GetLatest(s) PROVE IngestInv'
    <2>1. /\ session'[s].pc = "loop"
          /\ session'[s].todo = session'[s].list
          /\ \A r \in Sessions \ {s} : session'[r] = session[r]
      BY <1>3, <1>t DEF GetLatest, States
    <2>2. QED
      BY <1>3, <2>1, OneMoves, CursorUnchanged
         DEF GetLatest, SessionInv, Fetching, Saving, Progress
  <1>4. ASSUME NEW s \in Sessions, NEW w \in Wallets, LoadWallet(s, w) PROVE IngestInv'
    <2>1. /\ session'[s].pc = "fetch"
          /\ session'[s].wallet = w
          /\ session'[s].from = ResumeBlock(w)
          /\ session'[s].list = session[s].list
          /\ session'[s].todo = session[s].todo
          /\ session'[s].latest = session[s].latest
          /\ \A r \in Sessions \ {s} : session'[r] = session[r]
          /\ UNCHANGED <<walletTable, transactionTable, unlisted>>
      BY <1>4, <1>t DEF LoadWallet, States
    <2>2. Progress(s)'
      BY <1>4, <1>t, <2>1, CoveredStable
         DEF LoadWallet, IngestInv, SessionInv, Progress, Covered, States
    <2>3. Fetching(s)'
      <3>1. walletTable[w] \in Nat /\ Covered(w, walletTable[w])
        BY <1>4, <1>t DEF LoadWallet, IngestInv, CoverInv
      <3>2. ResumeBlock(w) # Text => ResumeBlock(w) - 1 = walletTable[w]
        BY <3>1 DEF ResumeBlock
      <3>3. QED
        BY <2>1, <3>1, <3>2 DEF Fetching, Covered, Kept, Exclusive
    <2>4. QED
      BY <2>1, <2>2, <2>3, OneMoves, CursorUnchanged DEF SessionInv, Saving
  <1>5. ASSUME NEW s \in Sessions, NEW w \in Wallets, TreatAsNew(s, w) PROVE IngestInv'
    <2>1. /\ session'[s].pc = "create"
          /\ session'[s].list = session[s].list
          /\ session'[s].todo = session[s].todo
          /\ session'[s].latest = session[s].latest
          /\ \A r \in Sessions \ {s} : session'[r] = session[r]
          /\ UNCHANGED <<walletTable, transactionTable, unlisted>>
      BY <1>5, <1>t DEF TreatAsNew, States
    <2>2. Progress(s)'
      BY <1>5, <1>t, <2>1, CoveredStable
         DEF TreatAsNew, IngestInv, SessionInv, Progress, Covered, States
    <2>3. QED
      BY <2>1, <2>2, OneMoves, CursorUnchanged DEF SessionInv, Fetching, Saving
  <1>6. ASSUME NEW s \in Sessions, CreateWallet(s) PROVE IngestInv'
    <2>1. /\ session'[s].pc = "fetch"
          /\ session'[s].from = 0
          /\ session'[s].wallet = session[s].wallet
          /\ session'[s].list = session[s].list
          /\ session'[s].todo = session[s].todo
          /\ session'[s].latest = session[s].latest
          /\ \A r \in Sessions \ {s} : session'[r] = session[r]
          /\ session[s].list \subseteq Wallets
      BY <1>6, <1>t DEF CreateWallet, States
    <2>2. Progress(s)'
      BY <1>6, <2>1, CoveredStable DEF CreateWallet, IngestInv, SessionInv, Progress, Covered
    <2>3. \A w \in Wallets : walletTable'[w] = walletTable[w] \/ walletTable'[w] = 0
      BY <1>6, <1>t DEF CreateWallet
    <2>4. CoverInv'
      BY <1>t, <2>3, CoveredStable DEF IngestInv, SessionInv, CoverInv, Covered, TxsOf
    <2>5. Fetching(s)'
      BY <1>t, <2>1 DEF Fetching, Covered, TxsOf
    <2>6. QED
      BY <2>1, <2>2, <2>4, <2>5, OneMoves DEF SessionInv, Saving
  <1>7. ASSUME NEW s \in Sessions, FetchHistory(s) PROVE IngestInv'
    <2> DEFINE w == session[s].wallet
               wanted == Between(w, session[s].from, session[s].latest)
    <2>1. PICK listed \in SUBSET wanted :
             /\ session' = [session EXCEPT ![s].pc = "save", ![s].pending = listed]
             /\ unlisted' = unlisted \cup ({w} \X (wanted \ listed))
      BY <1>7 DEF FetchHistory
    <2>2. /\ session'[s].pc = "save"
          /\ session'[s].wallet = w
          /\ session'[s].pending = listed
          /\ session'[s].list = session[s].list
          /\ session'[s].todo = session[s].todo
          /\ session'[s].latest = session[s].latest
          /\ \A r \in Sessions \ {s} : session'[r] = session[r]
          /\ session[s].list \subseteq Wallets
          /\ session[s].latest \in Nat /\ session[s].from \in Nat \cup {Text}
      BY <2>1, <1>t DEF States
    <2>3. /\ w \in Wallets
          /\ session[s].pc = "fetch" /\ session[s].from # Text
          /\ UNCHANGED <<walletTable, transactionTable>>
      BY <1>7 DEF FetchHistory, RangeAccepted, TypeInv
    <2>4. Progress(s)'
      BY <2>2, <2>3, CoveredStable DEF IngestInv, SessionInv, Progress, Covered
    <2>5. Saving(s)'
      <3>1. wanted \subseteq TxsOf(w)
        BY DEF Between
      <3>2. ASSUME NEW t \in TxsOf(w), TxBlock[t] <= session[s].latest,
                   <<w, t>> \notin unlisted'
            PROVE  Kept(w, t)' \/ t \in session'[s].pending
        <4>1. CASE TxBlock[t] <= session[s].from - 1
          <5>1. Kept(w, t)
            BY <2>1, <2>3, <3>2, <4>1 DEF IngestInv, SessionInv, Fetching, Covered
          <5>2. QED
            BY <2>2, <2>3, <5>1 DEF Kept, Exclusive
        <4>2. CASE ~ (TxBlock[t] <= session[s].from - 1)
          <5>1. session[s].from <= TxBlock[t]
            BY <1>t, <2>2, <2>3, <4>2 DEF TxsOf
          <5>2. t \in wanted
            BY <3>2, <5>1 DEF Between
          <5>3. t \in listed
            BY <2>1, <3>2, <5>2
          <5>4. QED
            BY <2>2, <5>3
        <4>3. QED
          BY <4>1, <4>2
      <3>3. QED
        BY <2>2, <3>1, <3>2 DEF Saving
    <2>6. QED
      BY <2>2, <2>3, <2>4, <2>5, OneMoves, CursorUnchanged DEF SessionInv, Fetching
  <1>8. ASSUME NEW s \in Sessions, NEW u \in Txs, SaveTransaction(s, u) PROVE IngestInv'
    <2> DEFINE w == session[s].wallet
    <2>1. /\ session'[s].pc = "save" /\ session[s].pc = "save"
          /\ session'[s].wallet = w /\ w \in Wallets
          /\ session'[s].pending = session[s].pending \ {u}
          /\ session'[s].list = session[s].list
          /\ session'[s].todo = session[s].todo
          /\ session'[s].latest = session[s].latest
          /\ \A r \in Sessions \ {s} : session'[r] = session[r]
          /\ session[s].list \subseteq Wallets
          /\ walletTable' = walletTable /\ unlisted' = unlisted
          /\ transactionTable'[u] = w
          /\ u \in session[s].pending
      BY <1>8, <1>t DEF SaveTransaction, States, TypeInv, TypeOK
    <2>2. Progress(s)'
      BY <2>1, CoveredStable DEF IngestInv, SessionInv, Progress, Covered
    <2>3. Kept(w, u)'
      BY <2>1, OwnerAssumption DEF Kept, Exclusive
    <2>4. Saving(s)'
      BY <2>1, <2>3, KeptStable DEF IngestInv, SessionInv, Saving
    <2>5. QED
      BY <2>1, <2>2, <2>4, OneMoves, CursorUnchanged DEF SessionInv, Fetching
  <1>9. ASSUME NEW s \in Sessions, AdvanceCursor(s) PROVE IngestInv'
    <2> DEFINE w == session[s].wallet
    <2>1. /\ session[s].pc = "save" /\ session[s].pending = {}
          /\ session'[s].pc = "loop"
          /\ session'[s].list = session[s].list
          /\ session'[s].todo = session[s].todo \ {w}
          /\ session'[s].latest = session[s].latest
          /\ \A r \in Sessions \ {s} : session'[r] = session[r]
          /\ w \in Wallets /\ session[s].list \subseteq Wallets
          /\ unlisted' = unlisted
      BY <1>9, <1>t DEF AdvanceCursor, States, TypeInv
    <2>2. Covered(w, session[s].latest)
      BY <2>1 DEF IngestInv, SessionInv, Saving, Covered
    <2>3. Progress(s)'
      BY <2>1, <2>2, CoveredStable DEF IngestInv, SessionInv, Progress, Covered
    <2>4. /\ walletTable'[w] = session[s].latest
          /\ \A v \in Wallets \ {w} : walletTable'[v] = walletTable[v]
      BY <1>9, <1>t, <2>1 DEF AdvanceCursor
    <2>5. CoverInv'
      BY <2>1, <2>2, <2>4, CoveredStable DEF IngestInv, SessionInv, CoverInv, Covered
    <2>6. QED
      BY <2>1, <2>3, <2>5, OneMoves DEF SessionInv, Saving, Fetching
  <1>10. ASSUME NEW s \in Sessions, Finish(s) PROVE IngestInv'
    <2>1. /\ session'[s].pc = "done" /\ session[s].pc = "loop"
          /\ session'[s].list = session[s].list
          /\ session'[s].todo = session[s].todo /\ session[s].todo = {}
          /\ session'[s].latest = session[s].latest
          /\ \A r \in Sessions \ {s} : session'[r] = session[r]
          /\ UNCHANGED <<walletTable, transactionTable, unlisted>>
      BY <1>10, <1>t DEF Finish, States
    <2>2. Progress(s)'
      BY <2>1 DEF IngestInv, SessionInv, Progress, Covered, Kept, Exclusive
    <2>3. QED
      BY <2>1, <2>2, OneMoves, CursorUnchanged DEF SessionInv, Fetching, Saving
  <1>11. ASSUME NEW s \in Sessions, Abort(s) PROVE IngestInv'
    BY <1>11, AbortKeeps
  <1>12. CASE ChainGrows
    BY <1>12, OtherSession, CursorUnchanged DEF ChainGrows, IngestInv
  <1>13. CASE Crash
    BY <1>13, CursorUnchanged
       DEF Crash, Idle, IngestInv, SessionInv, Fetching, Saving, Progress
  <1>14. CASE UNCHANGED vars
    BY <1>14, OtherSession, CursorUnchanged DEF vars, IngestInv
  <1>15. QED
    BY <1>1, <1>2, <1>3, <1>4, <1>5, <1>6, <1>7, <1>8, <1>9, <1>10, <1>11, <1>12,
       <1>13, <1>14
       DEF Next, StartSession, SessionStep, GetLatestFails, CreateFails, RangeRejected,
           FetchFails, SaveFails

LEMMA IngestInvariant == Spec => []IngestInv
  <1>1. Init => IngestInv
    BY IngestInit
  <1>2. TypeInv /\ IngestInv /\ [Next]_vars => IngestInv'
    BY IngestStep
  <1>3. QED
    BY <1>1, <1>2, TypeInvariant, PTL DEF Spec

(***************************************************************************)
(* A cursor never passes a transaction missing from the database, whatever *)
(* fails, for any number of sessions, wallets sharing transactions or not, *)
(* and whichever way the driver and the mapper behave.                     *)
(***************************************************************************)
THEOREM CursorSafe == Spec => []CursorCovers
  <1>1. IngestInv => CursorCovers
    BY DEF IngestInv, CoverInv, Covered, Kept, CursorCovers, Cursor
  <1>2. QED
    BY <1>1, IngestInvariant, PTL

(***************************************************************************)
(* If tracked wallets share no transaction and the mapper does not detach  *)
(* rows, those transactions are bound to the wallet whose cursor passed    *)
(* them, even with other sessions at work on the same wallets.             *)
(***************************************************************************)
THEOREM HistoryBound == ASSUME Exclusive PROVE Spec => []CursorCoversOwn
  <1>1. IngestInv => CursorCoversOwn
    BY DEF IngestInv, CoverInv, Covered, Kept, CursorCoversOwn, Cursor
  <1>2. QED
    BY <1>1, IngestInvariant, PTL

(***************************************************************************)
(* Under the same assumption a pass that returns leaves none of its        *)
(* wallets incomplete.                                                     *)
(***************************************************************************)
THEOREM PassLeavesNoneOut == ASSUME Exclusive PROVE Spec => []PassComplete
  <1>1. TypeInv /\ IngestInv => PassComplete
    <2> SUFFICES ASSUME TypeInv, IngestInv PROVE PassComplete
      OBVIOUS
    <2>1. ASSUME NEW s \in Sessions, session[s].pc = "done", NEW w \in session[s].list
          PROVE  Covered(w, session[s].latest)
      BY <2>1 DEF IngestInv, SessionInv, Progress
    <2>2. QED
      BY <2>1 DEF PassComplete, Covered, Kept
  <1>2. QED
    BY <1>1, TypeInvariant, IngestInvariant, PTL

-----------------------------------------------------------------------------

(***************************************************************************)
(* One session alone: between its read of the cursor and its write nobody  *)
(* moves the cursor, so the range check compares `latest` with the row.    *)
(* When the column arrives as text, only a pass that made the row anew     *)
(* comes to its save.                                                      *)
(***************************************************************************)
Alone == \A r, s \in Sessions : r = s

FreshCursor(s) ==
    /\ session[s].pc = "fetch" =>
          \/ session[s].from = walletTable[session[s].wallet] + 1 /\ ~ BigintAsText
          \/ session[s].from = 0 /\ walletTable[session[s].wallet] = 0
          \/ session[s].from = Text /\ BigintAsText
    /\ session[s].pc = "save" =>
          /\ walletTable[session[s].wallet] <= session[s].latest
          /\ BigintAsText => walletTable[session[s].wallet] = 0

FreshInv == \A s \in Sessions : FreshCursor(s)

LEMMA FreshInvariant == ASSUME Alone PROVE Spec => []FreshInv
  <1>1. Init => FreshInv
    BY DEF Init, Idle, FreshInv, FreshCursor
  <1>2. TypeInv /\ FreshInv /\ [Next]_vars => FreshInv'
    <2> SUFFICES ASSUME TypeInv, FreshInv, [Next]_vars, NEW s \in Sessions
                 PROVE  FreshCursor(s)'
      BY DEF FreshInv
    <2>t. /\ session \in [Sessions -> States]
          /\ walletTable \in [Wallets -> Nat \cup {NoRow}]
          /\ session[s].pc \in {"create", "fetch", "save"} => session[s].wallet \in Wallets
      BY DEF TypeInv, TypeOK
    <2>1. CASE session'[s].pc \notin {"fetch", "save"}
      BY <2>1 DEF FreshCursor
    <2>2. ASSUME NEW w \in Wallets, LoadWallet(s, w) PROVE FreshCursor(s)'
      <3>1. /\ session'[s].pc = "fetch" /\ session'[s].wallet = w
            /\ session'[s].from = ResumeBlock(w)
            /\ walletTable' = walletTable
        BY <2>2, <2>t DEF LoadWallet, States
      <3>2. QED
        BY <3>1, FlagAssumption DEF FreshCursor, ResumeBlock
    <2>3. CASE CreateWallet(s)
      <3>1. /\ session'[s].pc = "fetch" /\ session'[s].wallet = session[s].wallet
            /\ session'[s].from = 0
            /\ walletTable'[session[s].wallet] = 0
        BY <2>3, <2>t DEF CreateWallet, States
      <3>2. QED
        BY <3>1 DEF FreshCursor
    <2>4. CASE FetchHistory(s)
      <3>1. /\ session'[s].pc = "save" /\ session'[s].wallet = session[s].wallet
            /\ session'[s].latest = session[s].latest
            /\ walletTable' = walletTable
        BY <2>4, <2>t DEF FetchHistory, States
      <3>2. /\ session[s].from # Text /\ session[s].from <= session[s].latest
            /\ session[s].pc = "fetch"
            /\ session[s].from \in Nat /\ session[s].latest \in Nat
        BY <2>4, <2>t DEF FetchHistory, RangeAccepted, States
      <3>3. walletTable[session[s].wallet] \in Nat \cup {-1}
        BY <2>t, <3>2 DEF NoRow
      <3>4. walletTable[session[s].wallet] <= session[s].latest
        BY <3>2, <3>3 DEF FreshInv, FreshCursor
      <3>5. BigintAsText => walletTable[session[s].wallet] = 0
        BY <3>2 DEF FreshInv, FreshCursor
      <3>6. QED
        BY <3>1, <3>4, <3>5 DEF FreshCursor
    <2>5. ASSUME NEW t \in Txs, SaveTransaction(s, t) PROVE FreshCursor(s)'
      <3>1. /\ session[s].pc = "save" /\ session'[s].pc = "save"
            /\ session'[s].wallet = session[s].wallet
            /\ session'[s].latest = session[s].latest
            /\ walletTable' = walletTable
        BY <2>5, <2>t DEF SaveTransaction, States
      <3>2. QED
        BY <3>1 DEF FreshInv, FreshCursor
    <2>6. CASE session'[s] = session[s] /\ walletTable' = walletTable
      BY <2>6 DEF FreshInv, FreshCursor
    <2>7. CASE Abort(s) \/ Crash
      <3>1. session'[s].pc \in {"failed", "idle"}
        BY <2>7, <2>t DEF Abort, Crash, Idle
      <3>2. QED
        BY <2>1, <3>1
    <2>8. ASSUME \/ \E list \in Lists : AddWallets(s, list)
                 \/ GetLatest(s)
                 \/ \E w \in Wallets : TreatAsNew(s, w)
                 \/ AdvanceCursor(s)
                 \/ Finish(s)
          PROVE  session'[s].pc \notin {"fetch", "save"}
      BY <2>8, <2>t DEF AddWallets, GetLatest, TreatAsNew, AdvanceCursor, Finish, States
    <2>9. ASSUME NEW list \in Lists, SetWalletList(s, list)
          PROVE  session'[s].pc \notin {"fetch", "save"}
      BY <2>9, <2>t DEF SetWalletList, Idle
    <2>10. CASE ChainGrows \/ UNCHANGED vars
      BY <2>6, <2>10 DEF ChainGrows, vars
    <2>11. CASE \E r \in Sessions : StartSession(r) \/ SessionStep(r)
      <3>1. StartSession(s) \/ SessionStep(s)
        BY <2>11, Alone DEF Alone
      <3>2. QED
        BY <3>1, <2>1, <2>2, <2>3, <2>4, <2>5, <2>7, <2>8, <2>9
           DEF StartSession, SessionStep, GetLatestFails, CreateFails, RangeRejected,
               FetchFails, SaveFails
    <2>12. QED
      BY <2>7, <2>10, <2>11 DEF Next
  <1>3. QED
    BY <1>1, <1>2, TypeInvariant, PTL DEF Spec

(***************************************************************************)
(* A session alone never moves a cursor back except to 0: what it stores   *)
(* was read from the node after the stored cursor was.                     *)
(***************************************************************************)
THEOREM CursorNeverBack ==
    ASSUME Alone
    PROVE  Spec => CursorOnlyResets
  <1>1. TypeInv /\ FreshInv /\ [Next]_vars =>
            [\A w \in Wallets : walletTable'[w] < walletTable[w]
                                   => walletTable'[w] = 0]_walletTable
    <2> SUFFICES ASSUME TypeInv, FreshInv, [Next]_vars, walletTable' # walletTable,
                        NEW w \in Wallets, walletTable'[w] < walletTable[w]
                 PROVE  walletTable'[w] = 0
      OBVIOUS
    <2>t. /\ session \in [Sessions -> States]
          /\ walletTable \in [Wallets -> Nat \cup {NoRow}]
      BY DEF TypeInv, TypeOK
    <2>1. PICK s \in Sessions : CreateWallet(s) \/ AdvanceCursor(s)
      BY DEF Next, StartSession, SessionStep, SetWalletList, AddWallets, GetLatest,
             GetLatestFails, LoadWallet, TreatAsNew, CreateFails, RangeRejected, FetchHistory,
             FetchFails, SaveTransaction, SaveFails, Finish, ChainGrows, Crash, Abort, vars
    <2>2. CASE CreateWallet(s)
      BY <2>2, <2>t DEF CreateWallet, NoRow
    <2>3. CASE AdvanceCursor(s)
      <3>1. /\ walletTable' = [walletTable EXCEPT ![session[s].wallet] = session[s].latest]
            /\ walletTable[session[s].wallet] <= session[s].latest
            /\ session[s].latest \in Nat
        BY <2>3, <2>t DEF AdvanceCursor, FreshInv, FreshCursor, States
      <3>2. QED
        BY <3>1, <2>t DEF NoRow
    <2>4. QED
      BY <2>1, <2>2, <2>3
  <1>2. QED
    BY <1>1, TypeInvariant, FreshInvariant, PTL DEF Spec, CursorOnlyResets

(***************************************************************************)
(* A cursor past 0 does not advance: the wallet has to be taken for a new  *)
(* one first, which starts it at 0 again.                                  *)
(***************************************************************************)
NeverResumes ==
    [][\A w \in Wallets : walletTable'[w] > walletTable[w]
                              => walletTable[w] \in {NoRow, 0}]_vars

(***************************************************************************)
(* What becomes of a wallet that has a cursor, for a session alone.  If    *)
(* the driver returns BIGINT columns as numbers, a pass is refused only    *)
(* when the stored cursor has reached the node's block, so that nothing is *)
(* left out by it.  If it returns them as text, the wallet is ingested     *)
(* once and never again, unless its row cannot be read and is made anew:   *)
(* what run streamer_text shows of one pass holds of all, for any wallets, *)
(* lists and chain.                                                        *)
(***************************************************************************)
THEOREM ResumeSafe ==
    ASSUME Alone
    PROVE  Spec => /\ ~ BigintAsText => ResumesAfterCursor
                   /\ BigintAsText => NeverResumes
  <1>1. CASE ~ BigintAsText
    <2>1. TypeInv /\ FreshInv /\ [Next]_vars =>
              [\A s \in Sessions :
                   RangeRejected(s) => Cursor(session[s].wallet) >= session[s].latest]_vars
      <3> SUFFICES ASSUME TypeInv, FreshInv, NEW s \in Sessions, RangeRejected(s)
                   PROVE  Cursor(session[s].wallet) >= session[s].latest
        OBVIOUS
      <3>1. /\ session[s].pc = "fetch"
            /\ session[s].from \in Nat \cup {Text} /\ session[s].latest \in Nat
            /\ walletTable[session[s].wallet] \in Nat \cup {NoRow}
        BY DEF RangeRejected, TypeInv, TypeOK, States
      <3>2. CASE session[s].from = walletTable[session[s].wallet] + 1
        BY <3>1, <3>2 DEF RangeRejected, RangeAccepted, Cursor, Text, NoRow
      <3>3. CASE session[s].from = 0 /\ walletTable[session[s].wallet] = 0
        BY <3>1, <3>3 DEF RangeRejected, RangeAccepted, Text
      <3>4. QED
        BY <1>1, <3>1, <3>2, <3>3 DEF FreshInv, FreshCursor
    <2>2. Spec => ResumesAfterCursor
      BY <2>1, TypeInvariant, FreshInvariant, PTL DEF Spec, ResumesAfterCursor
    <2>3. QED
      BY <1>1, <2>2
  <1>2. CASE BigintAsText
    <2>1. TypeInv /\ FreshInv /\ [Next]_vars =>
              [\A w \in Wallets : walletTable'[w] > walletTable[w]
                                     => walletTable[w] \in {NoRow, 0}]_vars
      <3> SUFFICES ASSUME TypeInv, FreshInv, [Next]_vars,
                          NEW w \in Wallets, walletTable'[w] > walletTable[w]
                   PROVE  walletTable[w] \in {NoRow, 0}
        OBVIOUS
      <3>t. walletTable \in [Wallets -> Nat \cup {NoRow}]
        BY DEF TypeInv, TypeOK
      <3>1. walletTable' # walletTable
        BY <3>t DEF NoRow
      <3>2. PICK s \in Sessions : CreateWallet(s) \/ AdvanceCursor(s)
        BY <3>1 DEF Next, StartSession, SessionStep, SetWalletList, AddWallets, GetLatest,
                    GetLatestFails, LoadWallet, TreatAsNew, CreateFails, RangeRejected,
                    FetchHistory, FetchFails, SaveTransaction, SaveFails, Finish, ChainGrows,
                    Crash, Abort, vars
      <3>3. CASE CreateWallet(s)
        <4>1. walletTable'[w] = walletTable[w] \/ walletTable'[w] = 0
          BY <3>3, <3>t DEF CreateWallet
        <4>2. QED
          BY <3>t, <4>1 DEF NoRow
      <3>4. CASE AdvanceCursor(s)
        <4>1. w = session[s].wallet \/ walletTable'[w] = walletTable[w]
          BY <3>4, <3>t DEF AdvanceCursor
        <4>2. w = session[s].wallet
          BY <3>t, <4>1 DEF NoRow
        <4>3. QED
          BY <1>2, <3>4, <4>2 DEF AdvanceCursor, FreshInv, FreshCursor
      <3>5. QED
        BY <3>2, <3>3, <3>4
    <2>2. Spec => NeverResumes
      BY <2>1, TypeInvariant, FreshInvariant, PTL DEF Spec, NeverResumes
    <2>3. QED
      BY <1>2, <2>2
  <1>3. QED
    BY <1>1, <1>2

=============================================================================
