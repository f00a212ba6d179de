------------------------ MODULE WalletAnalysis_proofs ------------------------
(***************************************************************************)
(* Proofs about WalletAnalysis, for any sessions, tokens and transactions: *)
(* what the token rows and the summary hold, whatever runs at once, fails  *)
(* or is retried.                                                          *)
(***************************************************************************)
EXTENDS WalletAnalysis, InductionLemmas, WellFoundedInduction

IsWallet(w) == DOMAIN w = {"start", "summary"}

IsSession(r) ==
    /\ DOMAIN r = {"pc", "id", "concurrent", "from", "wallet"}
    /\ r.pc \in {"idle", "processing", "loaded", "summed", "done", "failed"}
    /\ r.id \in 0 .. MaxAnalyses
    /\ r.concurrent \in BOOLEAN
    /\ IsWallet(r.wallet)

(***************************************************************************)
(* A task past the search has the token of its main transfer at hand; only *)
(* the fallback of a main transfer leaves prices behind.                   *)
(***************************************************************************)
Working == {"price", "select", "insert", "update"}

Chosen(t, k) ==
    /\ k.pc \in Working \cup {"find"} => k.at \in Candidates(t)
    /\ k.pc \in Working => k.token = Summary[t][k.at].token
    /\ k.late # {} => k.at \in Candidates(t) /\ k.late \subseteq NotAwaited(t, k.at)
    /\ k.pc \in {"receipt", "find", "price"} => k.late = {}

Rowed(s, t) ==
    task[s][t].pc = "update" =>
        task[s][t].seen # NoRow /\ tokenTable[task[s][t].token] # NoRow

TypeInv ==
    /\ tokenTable \in [Tokens -> Counts \cup {NoRow}]
    /\ IsWallet(walletRow)
    /\ session = [s \in Sessions |-> session[s]]
    /\ \A s \in Sessions : IsSession(session[s])
    /\ task \in [Sessions -> [Transactions -> TaskStates]]
    /\ \A s \in Sessions, t \in Transactions :
          /\ Chosen(t, task[s][t])
          /\ Rowed(s, t)
          /\ ~ Ended(s, t) => session[s].id >= 1
    /\ analyses \in 0 .. MaxAnalyses
    /\ applied \in [Tokens -> [Entries -> SUBSET (1 .. MaxAnalyses)]]

(***************************************************************************)
(* Every analysis has a number of its own, which marks no entry of a       *)
(* transaction it has not saved yet.                                       *)
(***************************************************************************)
Unmarked(s, t) ==
    ~ Ended(s, t) => \A k \in Tokens : \A e \in Entries :
                         e[2][1] = t => session[s].id \notin applied[k][e]

IdInv ==
    /\ \A s \in Sessions : session[s].id <= analyses
    /\ \A r, s \in Sessions : r # s /\ session[r].id = session[s].id => session[s].id = 0
    /\ \A k \in Tokens : \A e \in Entries : applied[k][e] \subseteq 1 .. analyses
    /\ \A s \in Sessions, t \in Transactions : Unmarked(s, t)

(***************************************************************************)
(* The counts at hand, with the prices to come, exceed what was brought to *)
(* the row by what the task itself counts at most.                         *)
(***************************************************************************)
Brought(k, e) == Cardinality(applied[k][e])

One(e, places) == IF e[2] \in places THEN 1 ELSE 0

Within(t, k) ==
    /\ k.pc = "price" => \A e \in Entries : k.counted[e] <= Brought(k.token, e)
    /\ k.pc \in {"select", "insert", "update"} =>
           \A e \in Entries :
               k.counted[e] + One(e, k.late) <= Brought(k.token, e) + One(e, Counted(t, k.at))

BoundInv ==
    /\ NothingCountedTwice
    /\ \A s \in Sessions, t \in Transactions : Within(t, task[s][t])

(***************************************************************************)
(* Without an overlap there is one task in progress at most, and the row   *)
(* it works on is the one it has seen.                                     *)
(***************************************************************************)
Alone ==
    /\ \A r, s \in Sessions : \A t, u \in Transactions :
          ~ Ended(s, t) /\ ~ Ended(r, u) => r = s
    /\ \A s \in Sessions : \A t, u \in Transactions :
          InProgress(s, t) /\ InProgress(s, u) => t = u
    /\ \A s \in Sessions : \A t \in Transactions : ~ Ended(s, t) => ~ session[s].concurrent

Exact(t, k) ==
    /\ k.pc = "find" => \A i \in Candidates(t) :
           i < k.at => tokenTable[Summary[t][i].token] = NoRow
    /\ k.pc \in Working => \A e \in Entries : Awaited(e[2]) =>
           k.counted[e] = RowOf(k.token)[e]
                              + (IF k.pc = "price" THEN 0 ELSE One(e, Counted(t, k.at)))
    /\ k.pc = "insert" => tokenTable[k.token] = NoRow
    /\ k.pc = "update" => k.seen = tokenTable[k.token]

RowsExact == \A k \in Tokens : \A e \in Entries :
                 Awaited(e[2]) => RowOf(k)[e] = Brought(k, e)

OneByOne == Alone /\ \A s \in Sessions, t \in Transactions : Exact(t, task[s][t])

ExactInv == ~ overlap => OneByOne /\ RowsExact

(***************************************************************************)
(* A session that has settled has no task left that could write a row.     *)
(***************************************************************************)
OthersIdle(s) == \A r \in Sessions \ {s} : session[r].pc = "idle"

SumInv ==
    \A s \in Sessions :
        /\ session[s].pc \notin {"processing", "failed"} =>
               \A t \in Transactions : Ended(s, t)
        /\ session[s].pc = "summed" /\ OthersIdle(s) =>
               session[s].wallet.summary = TotalOf(tokenTable)
        /\ session[s].pc = "done" /\ OthersIdle(s) =>
               walletRow.summary = TotalOf(tokenTable)

(***************************************************************************)
(* The same analyses where other code runs beside them: it may read fewer  *)
(* transactions, put another row in the wallet's place and drop the        *)
(* objects of a call.                                                      *)
(***************************************************************************)
Starts(s) ==
    \E from \in Timestamps, concurrent \in BOOLEAN, stored \in SUBSET Transactions :
        Begin(s, from, concurrent, stored)

Drops(s) ==
    /\ session' = [session EXCEPT ![s] = Idle]
    /\ task' = [task EXCEPT ![s] = [t \in Transactions |-> Off]]
    /\ UNCHANGED <<tokenTable, walletRow, analyses, applied, overlap>>

RowPut ==
    /\ walletRow' \in WalletRows
    /\ UNCHANGED <<tokenTable, session, task, analyses, applied, overlap>>

RunNext ==
    \/ \E s \in Sessions : \/ Drops(s)
                           \/ SessionStep(s)
                           \/ \E t \in Transactions : LatePrice(s, t)
    \/ RowPut
    \/ ProcessEnds

OpenNext == RunNext \/ \E s \in Sessions : Starts(s)

-----------------------------------------------------------------------------

LEMMA MinOf ==
    ASSUME NEW S \in SUBSET Nat, S # {}
    PROVE  Min(S) \in S /\ \A y \in S : Min(S) <= y
  <1>1. PICK x \in S : \A y \in S : ~ (<<y, x>> \in OpToRel(<, Nat))
    BY NatLessThanWellFounded, WFMin
  <1>2. ASSUME NEW y \in S PROVE x <= y
    <2>1. x \in Nat /\ y \in Nat
      OBVIOUS
    <2>2. y < x => <<y, x>> \in OpToRel(<, Nat)
      BY <2>1 DEF OpToRel
    <2>3. ~ (y < x)
      BY <1>1, <2>2
    <2>4. QED
      BY <2>1, <2>3
  <1>3. QED
    BY <1>2 DEF Min

LEMMA CandidatesType ==
    ASSUME NEW t \in Transactions
    PROVE  Candidates(t) \in SUBSET Nat /\ Candidates(t) \subseteq DOMAIN Summary[t]
  BY SummaryAssumption DEF Candidates

LEMMA MainType ==
    ASSUME NEW t \in Transactions, NEW i \in Candidates(t)
    PROVE  Summary[t][i].token \in Tokens
  <1>1. Summary[t] \in Seq(Transfers) /\ i \in DOMAIN Summary[t]
    BY SummaryAssumption DEF Candidates
  <1>2. Summary[t][i] \in Transfers
    BY <1>1
  <1>3. QED
    BY <1>2 DEF Transfers

(***************************************************************************)
(* What a transaction counts are transfers of its own.                     *)
(***************************************************************************)
LEMMA CountedPlaces ==
    ASSUME NEW t \in Transactions, NEW main
    PROVE  /\ Counted(t, main) \subseteq Places
           /\ \A p \in Counted(t, main) : p[1] = t
           /\ NotAwaited(t, main) \subseteq Counted(t, main)
           /\ Directed(t, main) # {} => NotAwaited(t, main) = {}
  <1>1. ASSUME NEW p \in Counted(t, main) PROVE p \in Places /\ p[1] = t
    <2>1. PICK i \in DOMAIN Summary[t] : p = <<t, i>>
      BY DEF Counted, Directed, Fallback
    <2>2. QED
      BY <2>1 DEF Places
  <1>2. QED
    BY <1>1 DEF NotAwaited

LEMMA PlusCounts ==
    ASSUME NEW count \in Counts, NEW places
    PROVE  /\ Plus(count, places) \in Counts
           /\ \A e \in Entries : Plus(count, places)[e] = count[e] + One(e, places)
  BY DEF Plus, Counts, One

LEMMA WrittenCounts ==
    ASSUME NEW from \in Counts, NEW to \in Counts, NEW row \in Counts
    PROVE  /\ Written(from, to, row) \in Counts
           /\ \A e \in Entries :
                 /\ Written(from, to, row)[e] \in {to[e], row[e]}
                 /\ from[e] # to[e] => Written(from, to, row)[e] = to[e]
  <1>1. \A e \in Entries : from[e] # to[e] => Column(e) \in ChangedColumns(from, to)
    BY DEF ChangedColumns
  <1>2. QED
    BY <1>1 DEF Written, Counts

-----------------------------------------------------------------------------

LEMMA MoveTypes ==
    ASSUME TypeInv, NEW s \in Sessions, NEW t \in Transactions,
           NEW to \in TaskStates, Chosen(t, to), Move(s, t, to),
           to.pc = "update" => to.seen # NoRow /\ tokenTable'[to.token] # NoRow,
           to.pc \notin {"off", "saved", "failed"} => ~ Ended(s, t),
           session' = [r \in Sessions |-> session'[r]],
           \A r \in Sessions : IsSession(session'[r]) /\ session'[r].id = session[r].id,
           tokenTable' \in [Tokens -> Counts \cup {NoRow}],
           \A k \in Tokens : tokenTable[k] # NoRow => tokenTable'[k] # NoRow,
           applied' \in [Tokens -> [Entries -> SUBSET (1 .. MaxAnalyses)]]
    PROVE  TypeInv'
  <1>1. task' \in [Sessions -> [Transactions -> TaskStates]]
    BY DEF TypeInv, Move
  <1>2. \A r \in Sessions, u \in Transactions :
            task'[r][u] = IF r = s /\ u = t THEN to ELSE task[r][u]
    <2>1. task' = [task EXCEPT ![s][t] = to]
      BY DEF Move
    <2>2. QED
      BY <2>1 DEF TypeInv
  <1>3. ASSUME NEW r \in Sessions, NEW u \in Transactions
        PROVE  /\ Chosen(u, task'[r][u])
               /\ Rowed(r, u)'
               /\ ~ Ended(r, u)' => session'[r].id >= 1
    <2>1. CASE r = s /\ u = t
      BY <1>2, <2>1 DEF TypeInv, Rowed, Ended
    <2>2. CASE ~ (r = s /\ u = t)
      <3>1. task'[r][u] = task[r][u] /\ task[r][u] \in TaskStates
        BY <1>2, <2>2 DEF TypeInv
      <3>2. Rowed(r, u)'
        <4> SUFFICES ASSUME task[r][u].pc = "update"
                     PROVE  task[r][u].seen # NoRow /\ tokenTable'[task[r][u].token] # NoRow
          BY <3>1 DEF Rowed
        <4>1. /\ task[r][u].at \in Candidates(u)
              /\ task[r][u].token = Summary[u][task[r][u].at].token
          BY DEF TypeInv, Chosen, Working
        <4>2. task[r][u].token \in Tokens
          BY <4>1, MainType
        <4>3. QED
          BY <4>2 DEF TypeInv, Rowed
      <3>3. QED
        BY <3>1, <3>2 DEF TypeInv, Ended
    <2>3. QED
      BY <2>1, <2>2
  <1>4. QED
    BY <1>1, <1>3 DEF TypeInv, Move, IsWallet

LEMMA SessionTypes ==
    ASSUME TypeInv, NEW s \in Sessions, NEW to, IsSession(to), to.id = session[s].id,
           SessionMoves(s, to), IsWallet(walletRow')
    PROVE  TypeInv'
  <1>1. /\ session' = [r \in Sessions |-> session'[r]]
        /\ \A r \in Sessions : IsSession(session'[r]) /\ session'[r].id = session[r].id
    BY DEF SessionMoves, TypeInv
  <1>2. \A r \in Sessions, t \in Transactions :
            (Rowed(r, t) <=> Rowed(r, t)') /\ (Ended(r, t) <=> Ended(r, t)')
    BY DEF SessionMoves, Rowed, Ended
  <1>3. QED
    BY <1>1, <1>2 DEF TypeInv, SessionMoves, IsWallet

(***************************************************************************)
(* A failing task keeps its number and its outstanding prices; the session *)
(* of it may fail with it.                                                 *)
(***************************************************************************)
LEMMA ThrowsEffect ==
    ASSUME TypeInv, NEW s \in Sessions, NEW t \in Transactions, Throws(s, t)
    PROVE  /\ [task[s][t] EXCEPT !.pc = "failed"] \in TaskStates
           /\ session' = [r \in Sessions |-> session'[r]]
           /\ \A r \in Sessions :
                 /\ IsSession(session'[r])
                 /\ session'[r].id = session[r].id
                 /\ session'[r].concurrent = session[r].concurrent
                 /\ session'[r].wallet = session[r].wallet
                 /\ \/ session'[r].pc = session[r].pc
                    \/ session[r].pc = "processing" /\ session'[r].pc = "failed"
  <1>1. [task[s][t] EXCEPT !.pc = "failed"] \in TaskStates
    <2>1. task[s][t] \in TaskStates
      BY DEF TypeInv
    <2>2. QED
      BY <2>1 DEF TaskStates
  <1>2. CASE session' = session
    BY <1>1, <1>2 DEF TypeInv
  <1>3. CASE /\ session[s].pc = "processing"
             /\ session' = [session EXCEPT ![s].pc = "failed"]
    <2>1. \A r \in Sessions : session'[r] = IF r = s THEN [session[s] EXCEPT !.pc = "failed"]
                                                     ELSE session[r]
      BY <1>3 DEF TypeInv
    <2>2. session' = [r \in Sessions |-> session'[r]]
      BY <1>3 DEF TypeInv
    <2> DEFINE to == [session[s] EXCEPT !.pc = "failed"]
    <2>3. /\ IsSession(to) /\ to.id = session[s].id /\ to.concurrent = session[s].concurrent
          /\ to.wallet = session[s].wallet /\ to.pc = "failed"
      BY DEF TypeInv, IsSession
    <2> HIDE DEF to
    <2>4. QED
      BY <1>1, <1>3, <2>1, <2>2, <2>3 DEF TypeInv, to
  <1>4. QED
    BY <1>2, <1>3 DEF Throws

LEMMA ThrowsTypes ==
    ASSUME TypeInv, NEW s \in Sessions, NEW t \in Transactions, Throws(s, t)
    PROVE  TypeInv'
  <1> DEFINE to == [task[s][t] EXCEPT !.pc = "failed"]
  <1>1. to \in TaskStates /\ to.pc = "failed" /\ to.at = task[s][t].at
            /\ to.late = task[s][t].late
    <2>1. task[s][t] \in TaskStates
      BY DEF TypeInv
    <2>2. QED
      BY <2>1 DEF TaskStates
  <1>2. Chosen(t, to)
    BY <1>1 DEF Chosen, TypeInv, Working
  <1>3. Move(s, t, to)
    BY DEF Throws
  <1> HIDE DEF to
  <1>4. QED
    BY <1>1, <1>2, <1>3, ThrowsEffect, MoveTypes DEF TypeInv, Throws

-----------------------------------------------------------------------------
(***************************************************************************)
(* What each step does to its task.                                        *)
(***************************************************************************)
Keeps(k, to) ==
    to.at = k.at /\ to.token = k.token /\ to.counted = k.counted /\ to.late = k.late

Moves(s, t, to) == to \in TaskStates /\ Chosen(t, to) /\ Move(s, t, to)

LEMMA ReceiptEffect ==
    ASSUME TypeInv, NEW s \in Sessions, NEW t \in Transactions, ReceiptArrives(s, t)
    PROVE  \/ Throws(s, t)
           \/ /\ UNCHANGED <<session, tokenTable, applied>>
              /\ \E to \in TaskStates : /\ Moves(s, t, to)
                                        /\ to.pc = "find" /\ to.late = {}
                                        /\ to.at \in Candidates(t)
                                        /\ \A i \in Candidates(t) : to.at <= i
  <1>1. SUFFICES ASSUME ~ Throws(s, t)
                 PROVE  /\ UNCHANGED <<session, tokenTable, applied>>
                        /\ \E to \in TaskStates :
                              /\ Moves(s, t, to)
                              /\ to.pc = "find" /\ to.late = {}
                              /\ to.at \in Candidates(t)
                              /\ \A i \in Candidates(t) : to.at <= i
    OBVIOUS
  <1> DEFINE to == [task[s][t] EXCEPT !.pc = "find", !.at = Min(Candidates(t))]
  <1>2. Candidates(t) # {} /\ Move(s, t, to) /\ task[s][t].pc = "receipt"
           /\ UNCHANGED <<session, tokenTable, applied>>
    BY <1>1 DEF ReceiptArrives
  <1>3. Min(Candidates(t)) \in Candidates(t) /\ \A i \in Candidates(t) : Min(Candidates(t)) <= i
    BY <1>2, CandidatesType, MinOf
  <1>4. task[s][t] \in TaskStates /\ task[s][t].late = {} /\ Min(Candidates(t)) \in Nat
    BY <1>2, <1>3, CandidatesType DEF TypeInv, Chosen
  <1>5. to \in TaskStates /\ to.pc = "find" /\ to.at = Min(Candidates(t)) /\ to.late = {}
    BY <1>4 DEF TaskStates
  <1> HIDE DEF to
  <1>6. Chosen(t, to)
    BY <1>3, <1>5 DEF Chosen, Working
  <1>7. QED
    BY <1>2, <1>3, <1>5, <1>6 DEF Moves

LEMMA MainFoundEffect ==
    ASSUME NEW t \in Transactions, NEW main \in Candidates(t), NEW row \in Counts
    PROVE  LET to == MainFound(t, main, row)
           IN  /\ to \in TaskStates /\ Chosen(t, to)
               /\ to.pc \in {"price", "select"} /\ to.at = main
               /\ to.token = Summary[t][main].token /\ to.token \in Tokens
               /\ to.late = NotAwaited(t, main)
               /\ to.pc = "price" => to.counted = row
               /\ to.pc = "select" =>
                     \A e \in Entries : to.counted[e] =
                         row[e] + One(e, Counted(t, main) \ NotAwaited(t, main))
  <1> DEFINE to == MainFound(t, main, row)
             places == Counted(t, main) \ NotAwaited(t, main)
  <1>1. main \in Nat /\ Summary[t][main].token \in Tokens
    BY CandidatesType, MainType
  <1>2. NotAwaited(t, main) \in SUBSET Places
           /\ (Directed(t, main) # {} => NotAwaited(t, main) = {})
    BY CountedPlaces
  <1>3. /\ Plus(row, places) \in Counts
        /\ \A e \in Entries : Plus(row, places)[e] = row[e] + One(e, places)
    BY PlusCounts
  <1>4. /\ to.pc \in {"price", "select"} /\ to.at = main
        /\ to.token = Summary[t][main].token /\ to.late = NotAwaited(t, main)
        /\ to.pc = "price" => to.counted = row /\ Directed(t, main) # {}
        /\ to.pc = "select" => to.counted = Plus(row, places)
    BY DEF MainFound
  <1>5. to \in TaskStates
    BY <1>1, <1>2, <1>3 DEF MainFound, TaskStates
  <1> HIDE DEF to, places
  <1>6. Chosen(t, to)
    BY <1>2, <1>4 DEF Chosen, Working
  <1>7. QED
    BY <1>1, <1>3, <1>4, <1>5, <1>6 DEF to, places

LEMMA FindEffect ==
    ASSUME TypeInv, NEW s \in Sessions, NEW t \in Transactions, FindRow(s, t)
    PROVE  LET at == task[s][t].at
               row == tokenTable[Summary[t][at].token]
           IN  /\ UNCHANGED <<session, tokenTable, applied>>
               /\ task[s][t].pc = "find" /\ at \in Candidates(t)
               /\ \E to \in TaskStates :
                     /\ Moves(s, t, to)
                     /\ \/ row # NoRow /\ row \in Counts /\ to = MainFound(t, at, row)
                        \/ /\ row = NoRow
                           /\ to.pc = "find" /\ to.late = {}
                           /\ to.at \in Candidates(t) /\ to.at > at
                           /\ \A i \in Candidates(t) : i < to.at => i <= at
                        \/ \E first \in Candidates(t) :
                              /\ row = NoRow
                              /\ \A i \in Candidates(t) : first <= i /\ i <= at
                              /\ to = MainFound(t, first, Nothing)
  <1> DEFINE at == task[s][t].at
             token == Summary[t][at].token
             row == tokenTable[token]
             others == {i \in Candidates(t) : i > at}
  <1>1. /\ task[s][t].pc = "find"
        /\ UNCHANGED <<session, tokenTable, applied>>
    BY DEF FindRow
  <1>2. /\ task[s][t] \in TaskStates /\ at \in Candidates(t) /\ task[s][t].late = {}
        /\ at \in Nat
    BY <1>1, CandidatesType DEF TypeInv, Chosen
  <1>3. token \in Tokens /\ row \in Counts \cup {NoRow}
    BY <1>2, MainType DEF TypeInv
  <1>4. CASE row # NoRow /\ Move(s, t, MainFound(t, at, row))
    <2>1. row \in Counts
      BY <1>3, <1>4
    <2> HIDE DEF at, row
    <2>2. MainFound(t, at, row) \in TaskStates /\ Chosen(t, MainFound(t, at, row))
      BY <1>2, <2>1, MainFoundEffect
    <2>3. QED
      BY <1>1, <1>2, <1>4, <2>1, <2>2 DEF Moves, at, row
  <1>5. CASE row = NoRow /\ others # {} /\ Move(s, t, [task[s][t] EXCEPT !.at = Min(others)])
    <2> DEFINE to == [task[s][t] EXCEPT !.at = Min(others)]
    <2>1. others \in SUBSET Nat
      BY CandidatesType
    <2>2. Min(others) \in others /\ \A i \in others : Min(others) <= i
      BY <1>5, <2>1, MinOf
    <2>3. Min(others) \in Nat
      BY <2>1, <2>2
    <2>4. to \in TaskStates /\ to.pc = "find" /\ to.late = {} /\ to.at = Min(others)
      BY <1>1, <1>2, <2>3 DEF TaskStates
    <2> HIDE DEF to
    <2>5. Chosen(t, to)
      BY <2>2, <2>4 DEF Chosen, Working
    <2>6. \A i \in Candidates(t) : i < to.at => i <= at
      <3> SUFFICES ASSUME NEW i \in Candidates(t), i < to.at, i > at PROVE FALSE
        BY CandidatesType, <1>2
      <3>1. to.at <= i
        BY <2>2, <2>4
      <3>2. i \in Nat /\ to.at \in Nat
        BY CandidatesType, <2>3, <2>4
      <3>3. QED
        BY <3>1, <3>2
    <2>7. QED
      BY <1>1, <1>2, <1>5, <2>2, <2>4, <2>5, <2>6 DEF Moves, to
  <1>6. CASE /\ row = NoRow /\ others = {}
             /\ Move(s, t, MainFound(t, Min(Candidates(t)), Nothing))
    <2> DEFINE first == Min(Candidates(t))
    <2>1. first \in Candidates(t) /\ \A i \in Candidates(t) : first <= i
      BY <1>2, CandidatesType, MinOf
    <2>2. \A i \in Candidates(t) : i <= at
      BY <1>2, <1>6, CandidatesType
    <2>3. Nothing \in Counts
      BY DEF Nothing, Counts
    <2> HIDE DEF first
    <2>4. MainFound(t, first, Nothing) \in TaskStates /\ Chosen(t, MainFound(t, first, Nothing))
      BY <2>1, <2>3, MainFoundEffect
    <2>5. QED
      BY <1>1, <1>2, <1>6, <2>1, <2>2, <2>4 DEF Moves, first
  <1>7. QED
    BY <1>4, <1>5, <1>6 DEF FindRow

LEMMA PricesEffect ==
    ASSUME TypeInv, NEW s \in Sessions, NEW t \in Transactions, PricesArrive(s, t)
    PROVE  /\ UNCHANGED <<session, tokenTable, applied>>
           /\ task[s][t].pc = "price" /\ task[s][t].late = {}
           /\ \E to \in TaskStates :
                 /\ Moves(s, t, to)
                 /\ to.pc = "select" /\ to.at = task[s][t].at
                 /\ to.token = task[s][t].token /\ to.late = {}
                 /\ \A e \in Entries : to.counted[e] =
                       task[s][t].counted[e] + One(e, Counted(t, to.at))
  <1> DEFINE k == task[s][t]
             to == [k EXCEPT !.pc = "select", !.counted = Plus(@, Counted(t, k.at))]
  <1>1. k.pc = "price" /\ UNCHANGED <<session, tokenTable, applied>>
    BY DEF PricesArrive
  <1>2. Move(s, t, to)
    BY DEF PricesArrive
  <1>3. k \in TaskStates /\ k.late = {} /\ k.counted \in Counts /\ Chosen(t, k)
    BY <1>1 DEF TypeInv, Chosen, TaskStates
  <1>4. /\ Plus(k.counted, Counted(t, k.at)) \in Counts
        /\ \A e \in Entries : Plus(k.counted, Counted(t, k.at))[e] =
                                  k.counted[e] + One(e, Counted(t, k.at))
    BY <1>3, PlusCounts
  <1>5. /\ to \in TaskStates /\ to.pc = "select" /\ to.at = k.at /\ to.token = k.token
        /\ to.late = {} /\ to.counted = Plus(k.counted, Counted(t, k.at))
    BY <1>3, <1>4 DEF TaskStates
  <1> HIDE DEF to
  <1>6. Chosen(t, to)
    BY <1>1, <1>3, <1>5 DEF Chosen, Working
  <1>7. QED
    BY <1>1, <1>2, <1>3, <1>4, <1>5, <1>6 DEF Moves

LEMMA LateEffect ==
    ASSUME TypeInv, NEW s \in Sessions, NEW t \in Transactions, LatePrice(s, t)
    PROVE  /\ UNCHANGED <<session, tokenTable, applied>>
           /\ \E p \in task[s][t].late : \E to \in TaskStates :
                 /\ Moves(s, t, to)
                 /\ to.pc = task[s][t].pc /\ to.at = task[s][t].at
                 /\ to.token = task[s][t].token /\ to.seen = task[s][t].seen
                 /\ to.late = task[s][t].late \ {p}
                 /\ \A e \in Entries : to.counted[e] = task[s][t].counted[e] + One(e, {p})
  <1> DEFINE k == task[s][t]
  <1>1. PICK p \in k.late :
            Move(s, t, [k EXCEPT !.counted = Plus(@, {p}), !.late = @ \ {p}])
    BY DEF LatePrice
  <1> DEFINE to == [k EXCEPT !.counted = Plus(@, {p}), !.late = @ \ {p}]
  <1>2. k \in TaskStates /\ k.counted \in Counts /\ Chosen(t, k)
    BY DEF TypeInv, TaskStates
  <1>3. /\ Plus(k.counted, {p}) \in Counts
        /\ \A e \in Entries : Plus(k.counted, {p})[e] = k.counted[e] + One(e, {p})
    BY <1>2, PlusCounts
  <1>4. /\ to \in TaskStates /\ to.pc = k.pc /\ to.at = k.at /\ to.token = k.token
        /\ to.seen = k.seen /\ to.late = k.late \ {p} /\ to.counted = Plus(k.counted, {p})
    BY <1>2, <1>3 DEF TaskStates
  <1>5. Move(s, t, to)
    BY <1>1
  <1> HIDE DEF to
  <1>6. Chosen(t, to)
    BY <1>2, <1>4 DEF Chosen
  <1>7. QED
    BY <1>3, <1>4, <1>5, <1>6 DEF Moves, LatePrice

LEMMA SelectEffect ==
    ASSUME TypeInv, NEW s \in Sessions, NEW t \in Transactions, SaveSelect(s, t)
    PROVE  /\ UNCHANGED <<session, tokenTable, applied>>
           /\ task[s][t].pc = "select"
           /\ \E to \in TaskStates :
                 /\ Moves(s, t, to) /\ Keeps(task[s][t], to)
                 /\ to.pc = IF tokenTable[to.token] = NoRow THEN "insert" ELSE "update"
                 /\ to.seen = tokenTable[to.token]
  <1> DEFINE k == task[s][t]
             row == tokenTable[k.token]
             to == [k EXCEPT !.pc = IF row = NoRow THEN "insert" ELSE "update", !.seen = row]
  <1>1. k.pc = "select" /\ UNCHANGED <<session, tokenTable, applied>> /\ Move(s, t, to)
    BY DEF SaveSelect
  <1>2. k \in TaskStates /\ Chosen(t, k) /\ k.at \in Candidates(t)
           /\ k.token = Summary[t][k.at].token
    BY <1>1 DEF TypeInv, Chosen, Working
  <1>3. row \in Counts \cup {NoRow}
    BY <1>2, MainType DEF TypeInv
  <1> HIDE DEF row
  <1>4. /\ to \in TaskStates /\ Keeps(k, to) /\ to.seen = row
        /\ to.pc = IF row = NoRow THEN "insert" ELSE "update"
    BY <1>2, <1>3 DEF TaskStates, Keeps
  <1> HIDE DEF to
  <1>5. Chosen(t, to)
    BY <1>1, <1>2, <1>4 DEF Chosen, Keeps, Working
  <1>6. QED
    BY <1>1, <1>4, <1>5 DEF Moves, Keeps, row

LEMMA DuplicateEffect ==
    ASSUME TypeInv, NEW s \in Sessions, NEW t \in Transactions, DuplicateEntry(s, t)
    PROVE  /\ UNCHANGED <<session, tokenTable, applied>>
           /\ task[s][t].pc = "insert" /\ tokenTable[task[s][t].token] # NoRow
           /\ \E to \in TaskStates :
                 Moves(s, t, to) /\ Keeps(task[s][t], to) /\ to.pc = "select"
  <1> DEFINE k == task[s][t]
             to == [k EXCEPT !.pc = "select"]
  <1>1. /\ k.pc = "insert" /\ tokenTable[k.token] # NoRow
        /\ UNCHANGED <<session, tokenTable, applied>> /\ Move(s, t, to)
    BY DEF DuplicateEntry
  <1>2. k \in TaskStates /\ Chosen(t, k)
    BY DEF TypeInv
  <1>3. to \in TaskStates /\ Keeps(k, to) /\ to.pc = "select"
    BY <1>2 DEF TaskStates, Keeps
  <1> HIDE DEF to
  <1>4. Chosen(t, to)
    BY <1>1, <1>2, <1>3 DEF Chosen, Keeps, Working
  <1>5. QED
    BY <1>1, <1>3, <1>4 DEF Moves

LEMMA WriteEffect ==
    ASSUME TypeInv, NEW s \in Sessions, NEW t \in Transactions, SaveWrite(s, t)
    PROVE  LET k == task[s][t]
           IN  /\ session' = session
               /\ k.pc \in {"insert", "update"} /\ k.at \in Candidates(t) /\ k.token \in Tokens
               /\ session[s].id \in 1 .. MaxAnalyses
               /\ \E to \in TaskStates :
                     Moves(s, t, to) /\ Keeps(k, to) /\ to.pc = "saved"
               /\ \E row \in Counts :
                     /\ tokenTable' = [tokenTable EXCEPT ![k.token] = row]
                     /\ \/ k.pc = "insert" /\ tokenTable[k.token] = NoRow /\ row = k.counted
                        \/ /\ k.pc = "update" /\ tokenTable[k.token] \in Counts
                           /\ k.seen \in Counts
                           /\ \A e \in Entries :
                                 /\ row[e] \in {k.counted[e], tokenTable[k.token][e]}
                                 /\ k.seen[e] # k.counted[e] => row[e] = k.counted[e]
               /\ \A n \in Tokens : \A e \in Entries :
                     applied'[n][e] = IF n = k.token /\ e[2] \in Counted(t, k.at)
                                      THEN applied[n][e] \cup {session[s].id}
                                      ELSE applied[n][e]
               /\ applied' \in [Tokens -> [Entries -> SUBSET (1 .. MaxAnalyses)]]
  <1> DEFINE k == task[s][t]
             row == tokenTable[k.token]
             id == session[s].id
             to == [k EXCEPT !.pc = "saved", !.seen = NoRow]
             written == [e \in Entries |-> IF e[2] \in Counted(t, k.at)
                                           THEN applied[k.token][e] \cup {id}
                                           ELSE applied[k.token][e]]
  <1>1. k.pc \in {"insert", "update"} /\ Move(s, t, to) /\ session' = session
    BY DEF SaveWrite
  <1>2. /\ k \in TaskStates /\ Chosen(t, k) /\ k.at \in Candidates(t)
        /\ k.token = Summary[t][k.at].token /\ k.counted \in Counts
    BY <1>1 DEF TypeInv, Chosen, Working, TaskStates
  <1>3. k.token \in Tokens
    BY <1>2, MainType
  <1>4. id \in 1 .. MaxAnalyses
    <2>1. id \in 0 .. MaxAnalyses /\ ~ Ended(s, t)
      BY <1>1 DEF TypeInv, IsSession, Ended
    <2>2. id >= 1
      BY <2>1 DEF TypeInv
    <2>3. QED
      BY <2>1, <2>2, SummaryAssumption
  <1>5. \E to1 \in TaskStates : Moves(s, t, to1) /\ Keeps(k, to1) /\ to1.pc = "saved"
    <2>1. to \in TaskStates /\ Keeps(k, to) /\ to.pc = "saved"
      BY <1>2 DEF TaskStates, Keeps
    <2> HIDE DEF to
    <2>2. Chosen(t, to)
      BY <1>2, <2>1 DEF Chosen, Keeps, Working
    <2>3. QED
      BY <1>1, <2>1, <2>2 DEF Moves, to
  <1>6. \E new \in Counts :
            /\ tokenTable' = [tokenTable EXCEPT ![k.token] = new]
            /\ \/ k.pc = "insert" /\ row = NoRow /\ new = k.counted
               \/ /\ k.pc = "update" /\ row \in Counts
                  /\ k.seen \in Counts
                  /\ \A e \in Entries :
                        /\ new[e] \in {k.counted[e], row[e]}
                        /\ k.seen[e] # k.counted[e] => new[e] = k.counted[e]
    <2>1. CASE /\ k.pc = "insert" /\ row = NoRow
               /\ tokenTable' = [tokenTable EXCEPT ![k.token] = k.counted]
      BY <1>2, <2>1
    <2>2. CASE /\ k.pc = "update"
               /\ tokenTable' = [tokenTable EXCEPT ![k.token] = Written(k.seen, k.counted, row)]
      <3>1. row \in Counts /\ k.seen \in Counts
        BY <1>2, <1>3, <2>2 DEF TypeInv, Rowed, TaskStates
      <3> DEFINE new == Written(k.seen, k.counted, row)
      <3> HIDE DEF k, row
      <3>2. /\ new \in Counts
            /\ \A e \in Entries : /\ new[e] \in {k.counted[e], row[e]}
                                  /\ k.seen[e] # k.counted[e] => new[e] = k.counted[e]
        BY <1>2, <3>1, WrittenCounts
      <3>3. tokenTable' = [tokenTable EXCEPT ![k.token] = new]
        BY <2>2
      <3> HIDE DEF new
      <3>4. QED
        BY <2>2, <3>1, <3>2, <3>3 DEF k, row
    <2>3. QED
      BY <2>1, <2>2 DEF SaveWrite
  <1>7. applied' = [applied EXCEPT ![k.token] = written]
    BY DEF SaveWrite
  <1>8. written \in [Entries -> SUBSET (1 .. MaxAnalyses)]
    BY <1>3, <1>4 DEF TypeInv
  <1>9. \A e \in Entries : written[e] = IF e[2] \in Counted(t, k.at)
                                        THEN applied[k.token][e] \cup {id}
                                        ELSE applied[k.token][e]
    OBVIOUS
  <1> HIDE DEF written
  <1>10. /\ applied' \in [Tokens -> [Entries -> SUBSET (1 .. MaxAnalyses)]]
         /\ \A n \in Tokens : \A e \in Entries :
               applied'[n][e] = IF n = k.token /\ e[2] \in Counted(t, k.at)
                                THEN applied[n][e] \cup {id}
                                ELSE applied[n][e]
    BY <1>3, <1>7, <1>8, <1>9 DEF TypeInv
  <1>11. QED
    BY <1>1, <1>2, <1>3, <1>4, <1>5, <1>6, <1>10

LEMMA OffTask ==
    /\ Off \in TaskStates /\ \A t \in Transactions : Chosen(t, Off)
    /\ Off.pc = "off" /\ Off.late = {}
  <1>1. Nothing \in Counts
    BY DEF Nothing, Counts
  <1>2. QED
    BY <1>1 DEF Off, TaskStates, Chosen, Working

LEMMA IdleSession == IsSession(Idle) /\ Idle.pc = "idle" /\ Idle.id = 0
  BY SummaryAssumption DEF Idle, IsSession, IsWallet

LEMMA BeginEffect ==
    ASSUME TypeInv, NEW s \in Sessions, NEW from \in Timestamps, NEW concurrent \in BOOLEAN,
           NEW stored, Begin(s, from, concurrent, stored)
    PROVE  /\ ~ Busy(s) /\ analyses' = analyses + 1 /\ analyses' \in 1 .. MaxAnalyses
           /\ UNCHANGED <<tokenTable, walletRow, applied>>
           /\ overlap' = (overlap \/ concurrent \/ \E r \in Sessions \ {s} : Busy(r))
           /\ session' = [r \in Sessions |-> session'[r]]
           /\ IsSession(session'[s])
           /\ session'[s].pc = "processing" /\ session'[s].id = analyses + 1
           /\ session'[s].concurrent = concurrent
           /\ \A r \in Sessions \ {s} : session'[r] = session[r] /\ task'[r] = task[r]
           /\ task' \in [Sessions -> [Transactions -> TaskStates]]
           /\ \A t \in Transactions : /\ task'[s][t].pc \in {"off", "receipt"}
                                      /\ task'[s][t].late = {}
                                      /\ Chosen(t, task'[s][t])
  <1> DEFINE new == [Idle EXCEPT !.pc = "processing", !.id = analyses + 1,
                                 !.concurrent = concurrent, !.from = from]
             receipt == [Off EXCEPT !.pc = "receipt"]
             tasks == [t \in Transactions |->
                          IF t \in stored /\ TimeOf[t] > from THEN receipt ELSE Off]
  <1>1. /\ session' = [session EXCEPT ![s] = new]
        /\ task' = [task EXCEPT ![s] = tasks]
    BY DEF Begin
  <1>2. analyses' = analyses + 1 /\ analyses' \in 1 .. MaxAnalyses
    BY SummaryAssumption DEF Begin, TypeInv
  <1>3. /\ IsSession(new) /\ new.pc = "processing" /\ new.id = analyses + 1
        /\ new.concurrent = concurrent
    <2>1. analyses + 1 \in 0 .. MaxAnalyses
      BY <1>2
    <2>2. QED
      BY <2>1 DEF Idle, IsSession, IsWallet
  <1>4. receipt \in TaskStates /\ receipt.pc = "receipt" /\ receipt.late = {}
    <2>1. Nothing \in Counts
      BY DEF Nothing, Counts
    <2>2. QED
      BY <2>1 DEF Off, TaskStates
  <1> HIDE DEF new, receipt
  <1>5. \A t \in Transactions : Chosen(t, receipt)
    BY <1>4 DEF Chosen, Working
  <1>6. \A t \in Transactions : /\ tasks[t] \in TaskStates
                                /\ tasks[t].pc \in {"off", "receipt"}
                                /\ tasks[t].late = {}
                                /\ Chosen(t, tasks[t])
    <2> SUFFICES ASSUME NEW t \in Transactions
                 PROVE  /\ tasks[t] \in TaskStates
                        /\ tasks[t].pc \in {"off", "receipt"}
                        /\ tasks[t].late = {}
                        /\ Chosen(t, tasks[t])
      OBVIOUS
    <2>1. tasks[t] = receipt \/ tasks[t] = Off
      OBVIOUS
    <2> HIDE DEF tasks
    <2>2. QED
      BY <1>4, <1>5, <2>1, OffTask
  <1>7. tasks \in [Transactions -> TaskStates]
    BY <1>6
  <1> HIDE DEF tasks
  <1>8. /\ session' = [r \in Sessions |-> session'[r]]
        /\ session'[s] = new
        /\ \A r \in Sessions \ {s} : session'[r] = session[r]
    BY <1>1 DEF TypeInv
  <1>9. /\ task' \in [Sessions -> [Transactions -> TaskStates]]
        /\ task'[s] = tasks
        /\ \A r \in Sessions \ {s} : task'[r] = task[r]
    BY <1>1, <1>7 DEF TypeInv
  <1>10. QED
    BY <1>2, <1>3, <1>6, <1>8, <1>9 DEF Begin

LEMMA DropsEffect ==
    ASSUME TypeInv, NEW s \in Sessions, Drops(s)
    PROVE  /\ UNCHANGED <<tokenTable, walletRow, analyses, applied, overlap>>
           /\ session' = [r \in Sessions |-> session'[r]] /\ session'[s] = Idle
           /\ task' \in [Sessions -> [Transactions -> TaskStates]]
           /\ \A t \in Transactions : task'[s][t] = Off
           /\ \A r \in Sessions \ {s} : session'[r] = session[r] /\ task'[r] = task[r]
  <1>1. [t \in Transactions |-> Off] \in [Transactions -> TaskStates]
    BY OffTask
  <1>2. /\ session' = [session EXCEPT ![s] = Idle]
        /\ task' = [task EXCEPT ![s] = [t \in Transactions |-> Off]]
    BY DEF Drops
  <1>3. QED
    BY <1>1, <1>2 DEF Drops, TypeInv

(***************************************************************************)
(* The moves of a session's summary.                                       *)
(***************************************************************************)
LEMMA LoadEffect ==
    ASSUME TypeInv, NEW s \in Sessions, LoadWallet(s)
    PROVE  \E to : /\ SessionMoves(s, to) /\ IsSession(to) /\ to.pc = "loaded"
                   /\ to.id = session[s].id /\ to.concurrent = session[s].concurrent
  <1> DEFINE wallet == IF walletRow.start < session[s].from
                       THEN [walletRow EXCEPT !.start = session[s].from]
                       ELSE walletRow
             to == [session[s] EXCEPT !.pc = "loaded", !.wallet = wallet]
  <1>1. SessionMoves(s, to)
    BY DEF LoadWallet
  <1>2. IsWallet(wallet)
    BY DEF TypeInv, IsWallet
  <1>3. IsSession(session[s])
    BY DEF TypeInv
  <1> HIDE DEF wallet
  <1>4. /\ IsSession(to) /\ to.pc = "loaded" /\ to.id = session[s].id
        /\ to.concurrent = session[s].concurrent
    BY <1>2, <1>3 DEF IsSession
  <1> HIDE DEF to
  <1>5. QED
    BY <1>1, <1>4

LEMMA SumEffect ==
    ASSUME TypeInv, NEW s \in Sessions, SumRows(s)
    PROVE  \E to : /\ SessionMoves(s, to) /\ IsSession(to) /\ to.pc = "summed"
                   /\ to.id = session[s].id /\ to.concurrent = session[s].concurrent
                   /\ to.wallet.summary = TotalOf(tokenTable)
  <1> DEFINE total == TotalOf(tokenTable)
             to == [session[s] EXCEPT !.pc = "summed", !.wallet.summary = total]
  <1>1. SessionMoves(s, to)
    BY DEF SumRows
  <1>2. IsSession(session[s])
    BY DEF TypeInv
  <1> HIDE DEF total
  <1>3. /\ IsSession(to) /\ to.pc = "summed" /\ to.id = session[s].id
        /\ to.concurrent = session[s].concurrent /\ to.wallet.summary = total
    BY <1>2 DEF IsSession, IsWallet
  <1> HIDE DEF to
  <1>4. QED
    BY <1>1, <1>3 DEF total

LEMMA SettleEffect ==
    ASSUME TypeInv, NEW s \in Sessions, NEW pc \in {"done", "failed"}
    PROVE  LET to == [session[s] EXCEPT !.pc = pc]
           IN  /\ IsSession(to) /\ to.pc = pc /\ to.id = session[s].id
               /\ to.concurrent = session[s].concurrent
  BY DEF TypeInv, IsSession

-----------------------------------------------------------------------------

LEMMA KeptTypes ==
    ASSUME TypeInv, NEW s \in Sessions, NEW t \in Transactions,
           NEW to \in TaskStates, Moves(s, t, to),
           UNCHANGED <<session, tokenTable, applied>>,
           to.pc = "update" => to.seen # NoRow /\ tokenTable[to.token] # NoRow,
           ~ Ended(s, t) \/ to.pc = task[s][t].pc
    PROVE  TypeInv'
  <1>1. CASE ~ Ended(s, t)
    BY <1>1, MoveTypes DEF Moves, TypeInv
  <1>2. CASE Ended(s, t) /\ to.pc = task[s][t].pc
    BY <1>2, MoveTypes DEF Moves, TypeInv, Ended
  <1>3. QED
    BY <1>1, <1>2

LEMMA NextIsOpen == ASSUME [Next]_vars PROVE [OpenNext]_vars
  BY DEF Next, OpenNext, RunNext, Starts

(***************************************************************************)
(* Every variable but the values of the summary keeps its type, a task     *)
(* past the search works on the token of its main transfer, and an update  *)
(* has seen a row.                                                         *)
(***************************************************************************)
LEMMA TypeInit == ASSUME Init PROVE TypeInv
  <1>1. /\ session = [s \in Sessions |-> session[s]]
        /\ \A s \in Sessions : IsSession(session[s])
    BY IdleSession DEF Init
  <1>2. IsWallet(walletRow)
    BY IdleSession DEF Init, IsSession
  <1>3. /\ task \in [Sessions -> [Transactions -> TaskStates]]
        /\ \A s \in Sessions, t \in Transactions :
              Chosen(t, task[s][t]) /\ Rowed(s, t) /\ Ended(s, t)
    BY OffTask DEF Init, Rowed, Ended
  <1>4. QED
    BY <1>1, <1>2, <1>3, SummaryAssumption DEF Init, TypeInv

LEMMA TypeStep ==
    ASSUME TypeInv, [OpenNext]_vars
    PROVE  TypeInv'
  <1>1. ASSUME NEW s \in Sessions, NEW from \in Timestamps, NEW concurrent \in BOOLEAN,
               NEW stored, Begin(s, from, concurrent, stored)
        PROVE  TypeInv'
    <2>1. \A r \in Sessions, t \in Transactions :
              Chosen(t, task'[r][t]) /\ Rowed(r, t)' /\ (~ Ended(r, t)' => session'[r].id >= 1)
      <3> SUFFICES ASSUME NEW r \in Sessions, NEW t \in Transactions
                   PROVE  /\ Chosen(t, task'[r][t]) /\ Rowed(r, t)'
                          /\ ~ Ended(r, t)' => session'[r].id >= 1
        OBVIOUS
      <3>1. CASE r = s
        <4>1. /\ task'[s][t].pc \in {"off", "receipt"} /\ Chosen(t, task'[s][t])
              /\ session'[s].id = analyses + 1
          BY <1>1, BeginEffect
        <4>2. analyses \in Nat
          BY SummaryAssumption DEF TypeInv
        <4>3. QED
          BY <3>1, <4>1, <4>2 DEF Rowed
      <3>2. CASE r # s
        <4>1. task'[r] = task[r] /\ session'[r] = session[r] /\ tokenTable' = tokenTable
          BY <1>1, <3>2, BeginEffect
        <4>2. QED
          BY <4>1 DEF Rowed, Ended, TypeInv
      <3>3. QED
        BY <3>1, <3>2
    <2>2. \A r \in Sessions : IsSession(session'[r])
      BY <1>1, BeginEffect DEF TypeInv
    <2>3. QED
      BY <1>1, <2>1, <2>2, BeginEffect DEF TypeInv, IsWallet
  <1>2. ASSUME NEW s \in Sessions, NEW t \in Transactions, Throws(s, t) PROVE TypeInv'
    BY <1>2, ThrowsTypes
  <1>3. ASSUME NEW s \in Sessions, NEW t \in Transactions, ReceiptArrives(s, t)
        PROVE  TypeInv'
    <2>1. ~ Ended(s, t)
      BY <1>3 DEF ReceiptArrives, Ended
    <2>2. QED
      BY <1>2, <1>3, <2>1, ReceiptEffect, KeptTypes
  <1>4. ASSUME NEW s \in Sessions, NEW t \in Transactions, FindRow(s, t) PROVE TypeInv'
    <2>1. ~ Ended(s, t) /\ UNCHANGED <<session, tokenTable, applied>>
      BY <1>4, FindEffect DEF Ended
    <2>2. PICK to \in TaskStates : Moves(s, t, to) /\ to.pc # "update"
      <3>1. \A main, row : MainFound(t, main, row).pc # "update"
        BY DEF MainFound
      <3>2. QED
        BY <1>4, <3>1, FindEffect
    <2>3. QED
      BY <2>1, <2>2, KeptTypes
  <1>5. ASSUME NEW s \in Sessions, NEW t \in Transactions, PricesArrive(s, t) PROVE TypeInv'
    <2>1. ~ Ended(s, t)
      BY <1>5 DEF PricesArrive, Ended
    <2>2. QED
      BY <1>5, <2>1, PricesEffect, KeptTypes
  <1>6. ASSUME NEW s \in Sessions, NEW t \in Transactions, LatePrice(s, t) PROVE TypeInv'
    <2>1. PICK to \in TaskStates : /\ Moves(s, t, to)
                                   /\ to.pc = task[s][t].pc /\ to.token = task[s][t].token
                                   /\ to.seen = task[s][t].seen
      BY <1>6, LateEffect
    <2>2. to.pc = "update" => to.seen # NoRow /\ tokenTable[to.token] # NoRow
      BY <2>1 DEF TypeInv, Rowed
    <2>3. UNCHANGED <<session, tokenTable, applied>>
      BY <1>6, LateEffect
    <2>4. QED
      BY <2>1, <2>2, <2>3, KeptTypes
  <1>7. ASSUME NEW s \in Sessions, NEW t \in Transactions, SaveSelect(s, t) PROVE TypeInv'
    <2>1. ~ Ended(s, t)
      BY <1>7 DEF SaveSelect, Ended
    <2>2. QED
      BY <1>7, <2>1, SelectEffect, KeptTypes
  <1>8. ASSUME NEW s \in Sessions, NEW t \in Transactions, DuplicateEntry(s, t) PROVE TypeInv'
    <2>1. ~ Ended(s, t)
      BY <1>8 DEF DuplicateEntry, Ended
    <2>2. QED
      BY <1>8, <2>1, DuplicateEffect, KeptTypes
  <1>9. ASSUME NEW s \in Sessions, NEW t \in Transactions, SaveWrite(s, t) PROVE TypeInv'
    <2>1. PICK to \in TaskStates : Moves(s, t, to) /\ to.pc = "saved"
      BY <1>9, WriteEffect
    <2>2. PICK row \in Counts : tokenTable' = [tokenTable EXCEPT ![task[s][t].token] = row]
      BY <1>9, WriteEffect
    <2>3. /\ tokenTable' \in [Tokens -> Counts \cup {NoRow}]
          /\ \A k \in Tokens : tokenTable[k] # NoRow => tokenTable'[k] # NoRow
      BY <1>9, <2>2, WriteEffect, NoRowAssumption DEF TypeInv
    <2>4. /\ session' = session
          /\ applied' \in [Tokens -> [Entries -> SUBSET (1 .. MaxAnalyses)]]
      BY <1>9, WriteEffect
    <2>5. QED
      BY <2>1, <2>3, <2>4, MoveTypes DEF Moves, TypeInv
  <1>10. ASSUME NEW s \in Sessions, LoadWallet(s) PROVE TypeInv'
    <2>1. IsWallet(walletRow')
      BY <1>10 DEF LoadWallet, TypeInv
    <2>2. QED
      BY <1>10, <2>1, LoadEffect, SessionTypes
  <1>11. ASSUME NEW s \in Sessions, SumRows(s) PROVE TypeInv'
    <2>1. IsWallet(walletRow')
      BY <1>11 DEF SumRows, TypeInv
    <2>2. QED
      BY <1>11, <2>1, SumEffect, SessionTypes
  <1>12. ASSUME NEW s \in Sessions, SaveWallet(s) PROVE TypeInv'
    <2>1. IsWallet(walletRow')
      BY <1>12 DEF SaveWallet, TypeInv, IsSession
    <2>2. SessionMoves(s, [session[s] EXCEPT !.pc = "done"])
      BY <1>12 DEF SaveWallet
    <2>3. QED
      BY <2>1, <2>2, SettleEffect, SessionTypes
  <1>13. ASSUME NEW s \in Sessions, SummaryFails(s) PROVE TypeInv'
    <2>1. IsWallet(walletRow')
      BY <1>13 DEF SummaryFails, TypeInv
    <2>2. SessionMoves(s, [session[s] EXCEPT !.pc = "failed"])
      BY <1>13 DEF SummaryFails
    <2>3. QED
      BY <2>1, <2>2, SettleEffect, SessionTypes
  <1>14. CASE ProcessEnds
    <2>1. /\ session' = [s \in Sessions |-> session'[s]]
          /\ \A s \in Sessions : IsSession(session'[s])
      BY <1>14, IdleSession DEF ProcessEnds
    <2>2. /\ task' \in [Sessions -> [Transactions -> TaskStates]]
          /\ \A s \in Sessions, t \in Transactions :
                Chosen(t, task'[s][t]) /\ Rowed(s, t)' /\ Ended(s, t)'
      BY <1>14, OffTask DEF ProcessEnds, Rowed, Ended
    <2>3. QED
      BY <1>14, <2>1, <2>2 DEF ProcessEnds, TypeInv, IsWallet
  <1>15. CASE UNCHANGED vars
    BY <1>15 DEF vars, TypeInv, IsWallet, IsSession, Rowed, Ended
  <1>16. ASSUME NEW s \in Sessions, Drops(s) PROVE TypeInv'
    <2>1. \A r \in Sessions : IsSession(session'[r])
      BY <1>16, DropsEffect, IdleSession DEF TypeInv
    <2>2. ASSUME NEW r \in Sessions, NEW t \in Transactions
          PROVE  /\ Chosen(t, task'[r][t]) /\ Rowed(r, t)'
                 /\ ~ Ended(r, t)' => session'[r].id >= 1
      <3>1. CASE r = s
        BY <1>16, <3>1, DropsEffect, OffTask DEF Rowed, Ended
      <3>2. CASE r # s
        <4>1. task'[r] = task[r] /\ session'[r] = session[r] /\ tokenTable' = tokenTable
          BY <1>16, <3>2, DropsEffect
        <4>2. QED
          BY <4>1 DEF Rowed, Ended, TypeInv
      <3>3. QED
        BY <3>1, <3>2
    <2>3. QED
      BY <1>16, <2>1, <2>2, DropsEffect DEF TypeInv
  <1>17. CASE RowPut
    <2>1. IsWallet(walletRow')
      BY <1>17 DEF RowPut, WalletRows, IsWallet
    <2>2. QED
      BY <1>17, <2>1 DEF RowPut, TypeInv, IsSession, Rowed, Ended
  <1>18. QED
    BY <1>1, <1>2, <1>3, <1>4, <1>5, <1>6, <1>7, <1>8, <1>9, <1>10, <1>11, <1>12, <1>13,
       <1>14, <1>15, <1>16, <1>17
       DEF OpenNext, RunNext, Starts, SessionStep, TaskStep, FindFails, PriceFails, SaveFails

LEMMA TypeInvariant == Spec => []TypeInv
  <1>1. Init => TypeInv
    BY TypeInit
  <1>2. TypeInv /\ [Next]_vars => TypeInv'
    BY TypeStep, NextIsOpen
  <1>3. QED
    BY <1>1, <1>2, PTL DEF Spec

-----------------------------------------------------------------------------
(***************************************************************************)
(* The steps that save no transaction and start no analysis.               *)
(***************************************************************************)
IdsKept ==
    /\ UNCHANGED <<tokenTable, applied, analyses>>
    /\ \A r \in Sessions : session'[r].id = session[r].id
    /\ \A r \in Sessions, u \in Transactions : Ended(r, u) => Ended(r, u)'

LEMMA MoveKeepsIds ==
    ASSUME TypeInv, NEW s \in Sessions, NEW t \in Transactions, NEW to,
           Move(s, t, to), UNCHANGED <<session, tokenTable, applied>>,
           ~ Ended(s, t) \/ to.pc = task[s][t].pc
    PROVE  IdsKept
  <1>1. task' = [task EXCEPT ![s][t] = to]
    BY DEF Move
  <1>2. \A r \in Sessions, u \in Transactions :
            task'[r][u] = IF r = s /\ u = t THEN to ELSE task[r][u]
    BY <1>1 DEF TypeInv
  <1>3. \A r \in Sessions, u \in Transactions : Ended(r, u) => Ended(r, u)'
    BY <1>2 DEF Ended
  <1>4. QED
    BY <1>3 DEF IdsKept, Move

LEMMA ThrowsKeepsIds ==
    ASSUME TypeInv, NEW s \in Sessions, NEW t \in Transactions, Throws(s, t)
    PROVE  IdsKept
  <1> DEFINE to == [task[s][t] EXCEPT !.pc = "failed"]
  <1>1. task' = [task EXCEPT ![s][t] = to]
    BY DEF Throws, Move
  <1>2. to.pc = "failed"
    <2>1. task[s][t] \in TaskStates
      BY DEF TypeInv
    <2>2. QED
      BY <2>1 DEF TaskStates
  <1> HIDE DEF to
  <1>3. \A r \in Sessions, u \in Transactions :
            task'[r][u] = IF r = s /\ u = t THEN to ELSE task[r][u]
    BY <1>1 DEF TypeInv
  <1>4. \A r \in Sessions, u \in Transactions : Ended(r, u) => Ended(r, u)'
    BY <1>2, <1>3 DEF Ended
  <1>5. \A r \in Sessions : session'[r].id = session[r].id
    BY ThrowsEffect
  <1>6. QED
    BY <1>4, <1>5 DEF IdsKept, Throws, Move

LEMMA SessionKeepsIds ==
    ASSUME TypeInv, NEW s \in Sessions, NEW to, SessionMoves(s, to), to.id = session[s].id
    PROVE  IdsKept
  <1>1. \A r \in Sessions : session'[r].id = session[r].id
    BY DEF SessionMoves, TypeInv
  <1>2. QED
    BY <1>1 DEF IdsKept, SessionMoves, Ended

LEMMA StepsKeepIds ==
    ASSUME TypeInv, [OpenNext]_vars
    PROVE  \/ \E s \in Sessions : Starts(s) \/ Drops(s)
           \/ \E s \in Sessions, t \in Transactions : SaveWrite(s, t)
           \/ ProcessEnds
           \/ IdsKept
  <1>1. ASSUME NEW s \in Sessions, NEW t \in Transactions, Throws(s, t) PROVE IdsKept
    BY <1>1, ThrowsKeepsIds
  <1>2. ASSUME NEW s \in Sessions, NEW t \in Transactions, ReceiptArrives(s, t) PROVE IdsKept
    <2>1. ~ Ended(s, t)
      BY <1>2 DEF ReceiptArrives, Ended
    <2>2. QED
      BY <1>1, <1>2, <2>1, ReceiptEffect, MoveKeepsIds DEF Moves
  <1>3. ASSUME NEW s \in Sessions, NEW t \in Transactions, FindRow(s, t) PROVE IdsKept
    <2>1. ~ Ended(s, t) /\ UNCHANGED <<session, tokenTable, applied>>
      BY <1>3, FindEffect DEF Ended
    <2>2. \E to : Move(s, t, to)
      BY <1>3, FindEffect DEF Moves
    <2>3. QED
      BY <2>1, <2>2, MoveKeepsIds
  <1>4. ASSUME NEW s \in Sessions, NEW t \in Transactions, PricesArrive(s, t) PROVE IdsKept
    <2>1. ~ Ended(s, t)
      BY <1>4 DEF PricesArrive, Ended
    <2>2. QED
      BY <1>4, <2>1, PricesEffect, MoveKeepsIds DEF Moves
  <1>5. ASSUME NEW s \in Sessions, NEW t \in Transactions, LatePrice(s, t) PROVE IdsKept
    <2>1. PICK to \in TaskStates : /\ Moves(s, t, to)
                                   /\ to.pc = task[s][t].pc /\ to.token = task[s][t].token
                                   /\ to.seen = task[s][t].seen
      BY <1>5, LateEffect
    <2>2. UNCHANGED <<session, tokenTable, applied>>
      BY <1>5, LateEffect
    <2>3. QED
      BY <2>1, <2>2, MoveKeepsIds DEF Moves
  <1>6. ASSUME NEW s \in Sessions, NEW t \in Transactions,
               SaveSelect(s, t) \/ DuplicateEntry(s, t)
        PROVE  IdsKept
    <2>1. ~ Ended(s, t) /\ UNCHANGED <<session, tokenTable, applied>>
      BY <1>6 DEF SaveSelect, DuplicateEntry, Ended
    <2>2. \E to : Move(s, t, to)
      BY <1>6 DEF SaveSelect, DuplicateEntry
    <2>3. QED
      BY <2>1, <2>2, MoveKeepsIds
  <1>7. ASSUME NEW s \in Sessions, LoadWallet(s) PROVE IdsKept
    BY <1>7, LoadEffect, SessionKeepsIds
  <1>8. ASSUME NEW s \in Sessions, SumRows(s) PROVE IdsKept
    BY <1>8, SumEffect, SessionKeepsIds
  <1>9. ASSUME NEW s \in Sessions, SaveWallet(s) PROVE IdsKept
    <2>1. SessionMoves(s, [session[s] EXCEPT !.pc = "done"])
      BY <1>9 DEF SaveWallet
    <2>2. QED
      BY <2>1, SettleEffect, SessionKeepsIds
  <1>10. ASSUME NEW s \in Sessions, SummaryFails(s) PROVE IdsKept
    <2>1. SessionMoves(s, [session[s] EXCEPT !.pc = "failed"])
      BY <1>10 DEF SummaryFails
    <2>2. QED
      BY <2>1, SettleEffect, SessionKeepsIds
  <1>11. ASSUME UNCHANGED vars PROVE IdsKept
    BY <1>11 DEF vars, IdsKept, Ended
  <1>12. ASSUME RowPut PROVE IdsKept
    BY <1>12 DEF RowPut, IdsKept, Ended
  <1>13. QED
    BY <1>1, <1>2, <1>3, <1>4, <1>5, <1>6, <1>7, <1>8, <1>9, <1>10, <1>11, <1>12
       DEF OpenNext, RunNext, SessionStep, TaskStep, FindFails, PriceFails, SaveFails

(***************************************************************************)
(* The numbers of the analyses stay distinct, and an analysis marks the    *)
(* transfers of a transaction only by saving it.                           *)
(***************************************************************************)
LEMMA IdStep ==
    ASSUME TypeInv, IdInv, [OpenNext]_vars
    PROVE  IdInv'
  <1>0. /\ analyses \in Nat /\ \A s \in Sessions : session[s].id \in Nat
        /\ \A k \in Tokens : \A e \in Entries : applied[k][e] \subseteq 1 .. analyses
    BY SummaryAssumption DEF TypeInv, IsSession, IdInv
  <1>1. ASSUME NEW s \in Sessions, NEW from \in Timestamps, NEW concurrent \in BOOLEAN,
               NEW stored, Begin(s, from, concurrent, stored)
        PROVE  IdInv'
    <2>1. /\ analyses' = analyses + 1 /\ applied' = applied
          /\ session'[s].id = analyses + 1
          /\ \A r \in Sessions \ {s} : session'[r] = session[r] /\ task'[r] = task[r]
      BY <1>1, BeginEffect
    <2>2. \A r \in Sessions : session'[r].id <= analyses'
      BY <1>0, <2>1 DEF IdInv
    <2>3. \A q, r \in Sessions :
              q # r /\ session'[q].id = session'[r].id => session'[r].id = 0
      BY <1>0, <2>1 DEF IdInv
    <2>4. \A k \in Tokens : \A e \in Entries : applied'[k][e] \subseteq 1 .. analyses'
      BY <1>0, <2>1
    <2>5. ASSUME NEW r \in Sessions, NEW u \in Transactions PROVE Unmarked(r, u)'
      <3>1. CASE r = s
        BY <1>0, <2>1, <3>1 DEF Unmarked
      <3>2. CASE r # s
        BY <2>1, <3>2 DEF Unmarked, Ended, IdInv
      <3>3. QED
        BY <3>1, <3>2
    <2>6. QED
      BY <2>2, <2>3, <2>4, <2>5 DEF IdInv
  <1>2. ASSUME NEW s \in Sessions, NEW t \in Transactions, SaveWrite(s, t) PROVE IdInv'
    <2> DEFINE k == task[s][t]
               id == session[s].id
    <2>1. /\ session' = session /\ id \in 1 .. MaxAnalyses /\ k.pc \in {"insert", "update"}
          /\ \A n \in Tokens : \A e \in Entries :
                applied'[n][e] = IF n = k.token /\ e[2] \in Counted(t, k.at)
                                 THEN applied[n][e] \cup {id}
                                 ELSE applied[n][e]
      BY <1>2, WriteEffect
    <2>2. PICK to \in TaskStates : Move(s, t, to) /\ to.pc = "saved"
      BY <1>2, WriteEffect DEF Moves
    <2>3. /\ analyses' = analyses
          /\ \A r \in Sessions, u \in Transactions :
                task'[r][u] = IF r = s /\ u = t THEN to ELSE task[r][u]
      <3>1. task' = [task EXCEPT ![s][t] = to] /\ analyses' = analyses
        BY <2>2 DEF Move
      <3>2. QED
        BY <3>1 DEF TypeInv
    <2>4. id \in 1 .. analyses
      BY <1>0, <2>1 DEF IdInv
    <2>5. ASSUME NEW n \in Tokens, NEW e \in Entries
          PROVE  applied'[n][e] \subseteq 1 .. analyses'
      <3>1. applied'[n][e] = applied[n][e] \cup {id} \/ applied'[n][e] = applied[n][e]
        BY <2>1
      <3>2. applied[n][e] \subseteq 1 .. analyses
        BY <1>0
      <3>3. QED
        BY <2>3, <2>4, <3>1, <3>2
    <2>6. ASSUME NEW r \in Sessions, NEW u \in Transactions, ~ Ended(r, u)',
                 NEW n \in Tokens, NEW e \in Entries, e[2][1] = u
          PROVE  session'[r].id \notin applied'[n][e]
      <3>1. ~ Ended(r, u) /\ ~ (r = s /\ u = t)
        BY <2>2, <2>3, <2>6 DEF Ended
      <3>2. session[r].id \notin applied[n][e] /\ session[r].id >= 1
        BY <2>6, <3>1 DEF IdInv, Unmarked, TypeInv
      <3>3. CASE r = s
        <4>1. u # t
          BY <3>1, <3>3
        <4>2. e[2] \notin Counted(t, k.at)
          BY <2>6, <4>1, CountedPlaces
        <4>3. applied'[n][e] = applied[n][e]
          BY <2>1, <4>2
        <4>4. QED
          BY <2>1, <3>2, <4>3
      <3>4. CASE r # s
        <4>1. session[r].id # id
          BY <1>0, <3>2, <3>4 DEF IdInv
        <4>2. applied'[n][e] = applied[n][e] \cup {id} \/ applied'[n][e] = applied[n][e]
          BY <2>1
        <4>3. session'[r].id = session[r].id
          BY <2>1
        <4>4. QED
          BY <3>2, <4>1, <4>2, <4>3
      <3>5. QED
        BY <3>3, <3>4
    <2>7. \A r \in Sessions, u \in Transactions : Unmarked(r, u)'
      BY <2>6 DEF Unmarked
    <2>8. QED
      BY <2>1, <2>3, <2>5, <2>7 DEF IdInv
  <1>3. CASE ProcessEnds
    <2>1. /\ \A s \in Sessions : session'[s].id = 0
          /\ \A s \in Sessions, t \in Transactions : Ended(s, t)'
          /\ analyses' = analyses /\ applied' = applied
      BY <1>3, IdleSession, OffTask DEF ProcessEnds, Ended
    <2>2. QED
      BY <1>0, <2>1 DEF IdInv, Unmarked
  <1>4. CASE IdsKept
    BY <1>4 DEF IdsKept, IdInv, Unmarked
  <1>5. ASSUME NEW s \in Sessions, Drops(s) PROVE IdInv'
    <2>1. /\ session'[s].id = 0 /\ \A t \in Transactions : Ended(s, t)'
          /\ analyses' = analyses /\ applied' = applied
          /\ \A r \in Sessions \ {s} : session'[r] = session[r] /\ task'[r] = task[r]
      BY <1>5, DropsEffect, IdleSession, OffTask DEF Ended
    <2>2. /\ \A r \in Sessions : session'[r].id <= analyses'
          /\ \A q, r \in Sessions :
                q # r /\ session'[q].id = session'[r].id => session'[r].id = 0
      BY <1>0, <2>1 DEF IdInv
    <2>3. ASSUME NEW r \in Sessions, NEW u \in Transactions PROVE Unmarked(r, u)'
      <3>1. CASE r = s
        BY <2>1, <3>1 DEF Unmarked
      <3>2. CASE r # s
        BY <2>1, <3>2 DEF Unmarked, Ended, IdInv
      <3>3. QED
        BY <3>1, <3>2
    <2>4. QED
      BY <1>0, <2>1, <2>2, <2>3 DEF IdInv
  <1>6. QED
    BY <1>1, <1>2, <1>3, <1>4, <1>5, StepsKeepIds DEF Starts

-----------------------------------------------------------------------------

LEMMA BroughtType ==
    ASSUME TypeInv, NEW k \in Tokens, NEW e \in Entries
    PROVE  Brought(k, e) \in Nat /\ IsFiniteSet(applied[k][e])
  <1>1. applied[k][e] \in SUBSET (1 .. MaxAnalyses)
    BY DEF TypeInv
  <1>2. IsFiniteSet(1 .. MaxAnalyses)
    BY SummaryAssumption, FS_Interval
  <1>3. IsFiniteSet(applied[k][e])
    BY <1>1, <1>2, FS_Subset
  <1>4. QED
    BY <1>3, FS_CardinalityType DEF Brought

LEMMA OneType == \A e, places : One(e, places) \in {0, 1}
  BY DEF One

(***************************************************************************)
(* A save brings each of its transfers once.                               *)
(***************************************************************************)
LEMMA BroughtByWrite ==
    ASSUME TypeInv, IdInv, NEW s \in Sessions, NEW t \in Transactions, SaveWrite(s, t),
           NEW n \in Tokens, NEW e \in Entries
    PROVE  Brought(n, e)' =
               Brought(n, e) + (IF n = task[s][t].token THEN One(e, Counted(t, task[s][t].at))
                                                        ELSE 0)
  <1> DEFINE k == task[s][t]
             id == session[s].id
  <1>1. /\ k.pc \in {"insert", "update"}
        /\ \A m \in Tokens : \A f \in Entries :
              applied'[m][f] = IF m = k.token /\ f[2] \in Counted(t, k.at)
                               THEN applied[m][f] \cup {id}
                               ELSE applied[m][f]
    BY WriteEffect
  <1>2. Brought(n, e) \in Nat /\ IsFiniteSet(applied[n][e])
    BY BroughtType
  <1>3. CASE n = k.token /\ e[2] \in Counted(t, k.at)
    <2>1. e[2][1] = t
      BY <1>3, CountedPlaces
    <2>2. id \notin applied[n][e]
      BY <1>1, <2>1 DEF IdInv, Unmarked, Ended
    <2>3. Cardinality(applied[n][e] \cup {id}) = Cardinality(applied[n][e]) + 1
      BY <1>2, <2>2, FS_AddElement
    <2>4. QED
      BY <1>1, <1>3, <2>3 DEF Brought, One
  <1>4. CASE ~ (n = k.token /\ e[2] \in Counted(t, k.at))
    <2>1. applied'[n][e] = applied[n][e]
      BY <1>1, <1>4
    <2>2. (IF n = k.token THEN One(e, Counted(t, k.at)) ELSE 0) = 0
      BY <1>4 DEF One
    <2>3. QED
      BY <1>2, <2>1, <2>2 DEF Brought
  <1>5. QED
    BY <1>3, <1>4

LEMMA BoundMove ==
    ASSUME TypeInv, BoundInv, NEW s \in Sessions, NEW t \in Transactions, NEW to,
           Move(s, t, to), UNCHANGED <<tokenTable, applied>>, Within(t, to)
    PROVE  BoundInv'
  <1>1. task' = [task EXCEPT ![s][t] = to]
    BY DEF Move
  <1>2. \A r \in Sessions, u \in Transactions :
            task'[r][u] = IF r = s /\ u = t THEN to ELSE task[r][u]
    BY <1>1 DEF TypeInv
  <1>3. NothingCountedTwice'
    BY DEF BoundInv, NothingCountedTwice, RowOf
  <1>4. ASSUME NEW r \in Sessions, NEW u \in Transactions PROVE Within(u, task[r][u])'
    <2>1. CASE r = s /\ u = t
      BY <1>2, <2>1 DEF Within, Brought
    <2>2. CASE ~ (r = s /\ u = t)
      <3>1. task'[r][u] = task[r][u] /\ Within(u, task[r][u])
        BY <1>2, <2>2 DEF BoundInv
      <3>2. QED
        BY <3>1 DEF Within, Brought
    <2>3. QED
      BY <2>1, <2>2
  <1>5. QED
    BY <1>3, <1>4 DEF BoundInv

(***************************************************************************)
(* A row read, or its absence, is within what was brought to it.           *)
(***************************************************************************)
LEMMA MainFoundWithin ==
    ASSUME TypeInv, NEW t \in Transactions, NEW main \in Candidates(t), NEW row \in Counts,
           \A e \in Entries : row[e] <= Brought(Summary[t][main].token, e)
    PROVE  Within(t, MainFound(t, main, row))
  <1> DEFINE to == MainFound(t, main, row)
  <1>1. /\ to.pc \in {"price", "select"} /\ to.at = main
        /\ to.token = Summary[t][main].token /\ to.token \in Tokens
        /\ to.late = NotAwaited(t, main)
        /\ to.pc = "price" => to.counted = row
        /\ to.pc = "select" =>
              \A e \in Entries : to.counted[e] =
                  row[e] + One(e, Counted(t, main) \ NotAwaited(t, main))
    BY MainFoundEffect
  <1> HIDE DEF to
  <1>2. to.pc = "price" => Within(t, to)
    BY <1>1 DEF Within
  <1>3. ASSUME to.pc = "select" PROVE Within(t, to)
    <2>1. ASSUME NEW e \in Entries
          PROVE  to.counted[e] + One(e, to.late) <= Brought(to.token, e) + One(e, Counted(t, to.at))
      <3>1. /\ row[e] \in Nat /\ Brought(to.token, e) \in Nat
            /\ row[e] <= Brought(to.token, e)
        BY <1>1, BroughtType DEF Counts
      <3>2. One(e, Counted(t, main) \ NotAwaited(t, main)) + One(e, NotAwaited(t, main))
                = One(e, Counted(t, main))
        BY CountedPlaces DEF One
      <3>3. to.counted[e] = row[e] + One(e, Counted(t, main) \ NotAwaited(t, main))
        BY <1>1, <1>3
      <3>4. QED
        BY <1>1, <3>1, <3>2, <3>3, OneType
    <2>2. QED
      BY <1>3, <2>1 DEF Within
  <1>4. QED
    BY <1>1, <1>2, <1>3 DEF to

LEMMA BoundByWrite ==
    ASSUME TypeInv, IdInv, BoundInv, NEW s \in Sessions, NEW t \in Transactions,
           SaveWrite(s, t)
    PROVE  BoundInv'
  <1> DEFINE k == task[s][t]
  <1>1. /\ k.pc \in {"insert", "update"} /\ k.at \in Candidates(t) /\ k.token \in Tokens
        /\ k.counted \in Counts
    <2>1. k \in TaskStates
      BY DEF TypeInv
    <2>2. QED
      BY <2>1, WriteEffect DEF TaskStates
  <1>2. PICK to \in TaskStates : Move(s, t, to) /\ to.pc = "saved"
    BY WriteEffect DEF Moves
  <1>3. \A r \in Sessions, u \in Transactions :
            task'[r][u] = IF r = s /\ u = t THEN to ELSE task[r][u]
    <2>1. task' = [task EXCEPT ![s][t] = to]
      BY <1>2 DEF Move
    <2>2. QED
      BY <2>1 DEF TypeInv
  <1>4. PICK row \in Counts :
            /\ tokenTable' = [tokenTable EXCEPT ![k.token] = row]
            /\ \/ k.pc = "insert" /\ row = k.counted
               \/ /\ tokenTable[k.token] \in Counts
                  /\ \A e \in Entries : row[e] \in {k.counted[e], tokenTable[k.token][e]}
    BY WriteEffect
  <1> HIDE DEF k
  <1>5. \A n \in Tokens : \A e \in Entries :
            /\ Brought(n, e) \in Nat /\ Brought(n, e)' \in Nat
            /\ Brought(n, e) <= Brought(n, e)'
            /\ n = k.token => Brought(n, e)' = Brought(n, e) + One(e, Counted(t, k.at))
    BY BroughtType, BroughtByWrite, OneType DEF k
  <1>6. ASSUME NEW n \in Tokens, NEW e \in Entries PROVE RowOf(n)'[e] <= Brought(n, e)'
    <2>1. CASE n = k.token
      <3>1. RowOf(n)' = row
        BY <1>1, <1>4, <2>1, NoRowAssumption DEF RowOf, TypeInv
      <3>2. k.counted[e] <= Brought(n, e)'
        <4>1. k.counted[e] + One(e, k.late) <= Brought(n, e) + One(e, Counted(t, k.at))
          BY <1>1, <2>1 DEF BoundInv, Within, k
        <4>2. QED
          BY <1>1, <1>5, <2>1, <4>1, OneType DEF Counts
      <3>3. tokenTable[n] \in Counts => tokenTable[n][e] <= Brought(n, e)'
        <4>1. tokenTable[n] \in Counts => tokenTable[n][e] <= Brought(n, e)
          BY NoRowAssumption DEF BoundInv, NothingCountedTwice, RowOf, Brought
        <4>2. QED
          BY <1>5, <4>1 DEF Counts
      <3>4. QED
        BY <1>4, <2>1, <3>1, <3>2, <3>3
    <2>2. CASE n # k.token
      <3>1. RowOf(n)' = RowOf(n)
        BY <1>1, <1>4, <2>2 DEF RowOf, TypeInv
      <3>2. RowOf(n) \in Counts
        BY DEF RowOf, TypeInv, Nothing, Counts
      <3>3. RowOf(n)[e] <= Brought(n, e)
        BY DEF BoundInv, NothingCountedTwice, Brought
      <3>4. QED
        BY <1>5, <3>1, <3>2, <3>3 DEF Counts
    <2>3. QED
      BY <2>1, <2>2
  <1>7. ASSUME NEW r \in Sessions, NEW u \in Transactions PROVE Within(u, task[r][u])'
    <2>1. CASE r = s /\ u = t
      BY <1>2, <1>3, <2>1 DEF Within
    <2>2. CASE ~ (r = s /\ u = t)
      <3>0. PICK j : j = task[r][u]
        OBVIOUS
      <3>1. task'[r][u] = j /\ Within(u, j) /\ j \in TaskStates /\ Chosen(u, j)
        BY <1>3, <2>2, <3>0 DEF BoundInv, TypeInv
      <3>2. j.pc \in Working => j.token \in Tokens
        BY <3>1, MainType DEF Chosen, Working
      <3>3. j.counted \in Counts
        BY <3>1 DEF TaskStates
      <3>4. ASSUME j.pc = "price", NEW e \in Entries
            PROVE  j.counted[e] <= Brought(j.token, e)'
        BY <1>5, <3>1, <3>2, <3>3, <3>4 DEF Within, Working, Counts
      <3>5. ASSUME j.pc \in {"select", "insert", "update"}, NEW e \in Entries
            PROVE  j.counted[e] + One(e, j.late)
                       <= Brought(j.token, e)' + One(e, Counted(u, j.at))
        <4>1. j.counted[e] + One(e, j.late) <= Brought(j.token, e) + One(e, Counted(u, j.at))
          BY <3>1, <3>5 DEF Within
        <4>2. /\ Brought(j.token, e) \in Nat /\ Brought(j.token, e)' \in Nat
              /\ Brought(j.token, e) <= Brought(j.token, e)'
          BY <1>5, <3>2, <3>5 DEF Working
        <4>3. j.counted[e] \in Nat
          BY <3>3 DEF Counts
        <4>4. QED
          BY <4>1, <4>2, <4>3, OneType
      <3>6. QED
        BY <3>1, <3>4, <3>5 DEF Within, Brought
    <2>3. QED
      BY <2>1, <2>2
  <1>8. QED
    BY <1>6, <1>7 DEF BoundInv, NothingCountedTwice, Brought

LEMMA BoundUnmoved ==
    ASSUME BoundInv, UNCHANGED <<tokenTable, applied>>,
           \A s \in Sessions, t \in Transactions :
               \/ task'[s][t] = task[s][t]
               \/ task'[s][t].pc \in {"off", "receipt", "saved", "failed"}
    PROVE  BoundInv'
  <1>1. NothingCountedTwice'
    BY DEF BoundInv, NothingCountedTwice, RowOf
  <1>2. ASSUME NEW s \in Sessions, NEW t \in Transactions PROVE Within(t, task[s][t])'
    <2>1. Within(t, task[s][t])
      BY DEF BoundInv
    <2>2. CASE task'[s][t] = task[s][t]
      BY <2>1, <2>2 DEF Within, Brought
    <2>3. CASE task'[s][t].pc \in {"off", "receipt", "saved", "failed"}
      BY <2>3 DEF Within
    <2>4. QED
      BY <2>2, <2>3
  <1>3. QED
    BY <1>1, <1>2 DEF BoundInv

LEMMA BoundStep ==
    ASSUME TypeInv, IdInv, BoundInv, [OpenNext]_vars
    PROVE  BoundInv'
  <1>1. ASSUME NEW s \in Sessions, NEW from \in Timestamps, NEW concurrent \in BOOLEAN,
               NEW stored, Begin(s, from, concurrent, stored)
        PROVE  BoundInv'
    <2>1. /\ \A r \in Sessions \ {s} : task'[r] = task[r]
          /\ \A t \in Transactions : task'[s][t].pc \in {"off", "receipt"}
          /\ UNCHANGED <<tokenTable, applied>>
      BY <1>1, BeginEffect
    <2>2. QED
      BY <2>1, BoundUnmoved
  <1>2. ASSUME NEW s \in Sessions, NEW t \in Transactions, Throws(s, t) PROVE BoundInv'
    <2> DEFINE to == [task[s][t] EXCEPT !.pc = "failed"]
    <2>1. Move(s, t, to) /\ UNCHANGED <<tokenTable, applied>>
      BY <1>2 DEF Throws
    <2>2. to.pc = "failed"
      <3>1. task[s][t] \in TaskStates
        BY DEF TypeInv
      <3>2. QED
        BY <3>1 DEF TaskStates
    <2> HIDE DEF to
    <2>3. Within(t, to)
      BY <2>2 DEF Within
    <2>4. QED
      BY <2>1, <2>3, BoundMove
  <1>3. ASSUME NEW s \in Sessions, NEW t \in Transactions, ReceiptArrives(s, t) PROVE BoundInv'
    <2>1. CASE Throws(s, t)
      BY <1>2, <2>1
    <2>2. CASE ~ Throws(s, t)
      <3>1. UNCHANGED <<tokenTable, applied>>
        BY <1>3, <2>2, ReceiptEffect
      <3>2. PICK to \in TaskStates : Moves(s, t, to) /\ to.pc = "find" /\ to.late = {}
        BY <1>3, <2>2, ReceiptEffect
      <3>3. Within(t, to)
        BY <3>2 DEF Within
      <3>4. QED
        BY <3>1, <3>2, <3>3, BoundMove DEF Moves
    <2>3. QED
      BY <2>1, <2>2
  <1>4. ASSUME NEW s \in Sessions, NEW t \in Transactions, FindRow(s, t) PROVE BoundInv'
    <2> DEFINE at == task[s][t].at
               row == tokenTable[Summary[t][at].token]
    <2>1. UNCHANGED <<session, tokenTable, applied>> /\ at \in Candidates(t)
      BY <1>4, FindEffect
    <2>2. PICK to \in TaskStates :
              /\ Moves(s, t, to)
              /\ \/ row # NoRow /\ row \in Counts /\ to = MainFound(t, at, row)
                 \/ to.pc = "find"
                 \/ \E first \in Candidates(t) : to = MainFound(t, first, Nothing)
      BY <1>4, FindEffect
    <2>3. CASE row # NoRow /\ row \in Counts /\ to = MainFound(t, at, row)
      <3>1. Summary[t][at].token \in Tokens
        BY <2>1, MainType
      <3>2. \A e \in Entries : row[e] <= Brought(Summary[t][at].token, e)
        BY <2>3, <3>1 DEF BoundInv, NothingCountedTwice, RowOf, Brought
      <3>3. Within(t, to)
        BY <2>1, <2>3, <3>2, MainFoundWithin
      <3>4. QED
        BY <2>1, <2>2, <3>3, BoundMove DEF Moves
    <2>4. CASE to.pc = "find"
      <3>1. Within(t, to)
        BY <2>4 DEF Within
      <3>2. QED
        BY <2>1, <2>2, <3>1, BoundMove DEF Moves
    <2>5. ASSUME NEW first \in Candidates(t), to = MainFound(t, first, Nothing)
          PROVE  BoundInv'
      <3>1. \A e \in Entries : Nothing[e] <= Brought(Summary[t][first].token, e)
        BY MainType, BroughtType DEF Nothing
      <3>2. Nothing \in Counts
        BY DEF Nothing, Counts
      <3>3. Within(t, to)
        BY <2>5, <3>1, <3>2, MainFoundWithin
      <3>4. QED
        BY <2>1, <2>2, <3>3, BoundMove DEF Moves
    <2>6. QED
      BY <2>2, <2>3, <2>4, <2>5
  <1>5. ASSUME NEW s \in Sessions, NEW t \in Transactions, PricesArrive(s, t) PROVE BoundInv'
    <2> DEFINE k == task[s][t]
    <2>1. UNCHANGED <<tokenTable, applied>> /\ k.pc = "price"
      BY <1>5, PricesEffect
    <2>2. PICK to \in TaskStates :
              /\ Moves(s, t, to)
              /\ to.pc = "select" /\ to.at = k.at /\ to.token = k.token /\ to.late = {}
              /\ \A e \in Entries : to.counted[e] = k.counted[e] + One(e, Counted(t, to.at))
      BY <1>5, PricesEffect
    <2>3. ASSUME NEW e \in Entries
          PROVE  to.counted[e] + One(e, to.late) <= Brought(to.token, e) + One(e, Counted(t, to.at))
      <3>1. k.counted[e] <= Brought(k.token, e)
        BY <2>1 DEF BoundInv, Within
      <3>2. k.counted[e] \in Nat
        <4>1. k \in TaskStates
          BY DEF TypeInv
        <4>2. QED
          BY <4>1 DEF TaskStates, Counts
      <3>3. Brought(k.token, e) \in Nat
        BY <2>1, MainType, BroughtType DEF TypeInv, Chosen, Working
      <3>4. One(e, to.late) = 0
        BY <2>2 DEF One
      <3>5. QED
        BY <2>2, <3>1, <3>2, <3>3, <3>4, OneType
    <2>4. Within(t, to)
      BY <2>2, <2>3 DEF Within
    <2>5. QED
      BY <2>1, <2>2, <2>4, BoundMove DEF Moves
  <1>6. ASSUME NEW s \in Sessions, NEW t \in Transactions, LatePrice(s, t) PROVE BoundInv'
    <2> DEFINE k == task[s][t]
    <2>1. UNCHANGED <<tokenTable, applied>>
      BY <1>6, LateEffect
    <2>2. PICK p \in k.late, to \in TaskStates :
              /\ Moves(s, t, to)
              /\ to.pc = k.pc /\ to.at = k.at /\ to.token = k.token /\ to.seen = k.seen
              /\ to.late = k.late \ {p}
              /\ \A e \in Entries : to.counted[e] = k.counted[e] + One(e, {p})
      BY <1>6, LateEffect
    <2>3. k \in TaskStates /\ k.pc # "price"
      BY <2>2 DEF TypeInv, Chosen
    <2>4. ASSUME NEW e \in Entries
          PROVE  to.counted[e] + One(e, to.late) = k.counted[e] + One(e, k.late)
      <3>1. One(e, {p}) + One(e, k.late \ {p}) = One(e, k.late)
        BY DEF One
      <3>2. k.counted[e] \in Nat
        BY <2>3 DEF TaskStates, Counts
      <3>3. QED
        BY <2>2, <3>1, <3>2, OneType
    <2>5. Within(t, k)
      BY DEF BoundInv
    <2> HIDE DEF k
    <2>6. Within(t, to)
      BY <2>2, <2>3, <2>4, <2>5 DEF Within
    <2>7. QED
      BY <2>1, <2>2, <2>6, BoundMove DEF Moves
  <1>7. ASSUME NEW s \in Sessions, NEW t \in Transactions,
               SaveSelect(s, t) \/ DuplicateEntry(s, t)
        PROVE  BoundInv'
    <2> DEFINE k == task[s][t]
    <2>1. UNCHANGED <<tokenTable, applied>> /\ k.pc \in {"select", "insert"}
      BY <1>7 DEF SaveSelect, DuplicateEntry
    <2>2. PICK to \in TaskStates : /\ Moves(s, t, to) /\ Keeps(k, to)
                                   /\ to.pc \in {"select", "insert", "update"}
      <3>1. CASE SaveSelect(s, t)
        BY <3>1, SelectEffect
      <3>2. CASE DuplicateEntry(s, t)
        BY <3>2, DuplicateEffect
      <3>3. QED
        BY <1>7, <3>1, <3>2
    <2>3. Within(t, k)
      BY DEF BoundInv
    <2> HIDE DEF k
    <2>4. Within(t, to)
      BY <2>1, <2>2, <2>3 DEF Within, Keeps
    <2>5. QED
      BY <2>1, <2>2, <2>4, BoundMove DEF Moves
  <1>8. ASSUME NEW s \in Sessions, NEW t \in Transactions, SaveWrite(s, t) PROVE BoundInv'
    BY <1>8, BoundByWrite
  <1>9. ASSUME NEW s \in Sessions,
               LoadWallet(s) \/ SumRows(s) \/ SaveWallet(s) \/ SummaryFails(s)
        PROVE  BoundInv'
    <2>1. UNCHANGED <<tokenTable, task, applied>>
      BY <1>9 DEF LoadWallet, SumRows, SaveWallet, SummaryFails, SessionMoves
    <2>2. QED
      BY <2>1, BoundUnmoved
  <1>10. CASE ProcessEnds
    <2>1. /\ UNCHANGED <<tokenTable, applied>>
          /\ \A s \in Sessions, t \in Transactions : task'[s][t].pc = "off"
      BY <1>10, OffTask DEF ProcessEnds
    <2>2. QED
      BY <2>1, BoundUnmoved
  <1>11. CASE UNCHANGED vars
    BY <1>11, BoundUnmoved DEF vars
  <1>12. ASSUME NEW s \in Sessions, Drops(s) PROVE BoundInv'
    <2>1. /\ UNCHANGED <<tokenTable, applied>>
          /\ \A r \in Sessions \ {s} : task'[r] = task[r]
          /\ \A t \in Transactions : task'[s][t].pc = "off"
      BY <1>12, DropsEffect, OffTask
    <2>2. QED
      BY <2>1, BoundUnmoved
  <1>13. CASE RowPut
    BY <1>13, BoundUnmoved DEF RowPut
  <1>14. QED
    BY <1>1, <1>2, <1>3, <1>4, <1>5, <1>6, <1>7, <1>8, <1>9, <1>10, <1>11, <1>12, <1>13
       DEF OpenNext, RunNext, Starts, SessionStep, TaskStep, FindFails, PriceFails, SaveFails

LEMMA BoundInit == ASSUME Init PROVE IdInv /\ BoundInv
  <1>1. /\ \A s \in Sessions : session[s].id = 0
        /\ \A s \in Sessions, t \in Transactions : Ended(s, t) /\ task[s][t].pc = "off"
        /\ \A k \in Tokens : \A e \in Entries : applied[k][e] = {} /\ RowOf(k)[e] = 0
    BY IdleSession, OffTask DEF Init, Ended, RowOf, Nothing
  <1>2. IdInv
    BY <1>1 DEF Init, IdInv, Unmarked
  <1>3. BoundInv
    <2>1. Cardinality({}) = 0
      BY FS_EmptySet
    <2>2. \A k \in Tokens : \A e \in Entries : Cardinality(applied[k][e]) = 0
      BY <1>1, <2>1
    <2>3. NothingCountedTwice
      BY <1>1, <2>2 DEF NothingCountedTwice
    <2>4. \A s \in Sessions, t \in Transactions : Within(t, task[s][t])
      BY <1>1 DEF Within
    <2>5. QED
      BY <2>3, <2>4 DEF BoundInv
  <1>4. QED
    BY <1>2, <1>3

LEMMA BoundInvariant == Spec => [](IdInv /\ BoundInv)
  <1>1. Init => IdInv /\ BoundInv
    BY BoundInit
  <1>2. TypeInv /\ IdInv /\ BoundInv /\ [Next]_vars => IdInv' /\ BoundInv'
    BY IdStep, BoundStep, NextIsOpen
  <1>3. QED
    BY <1>1, <1>2, TypeInvariant, PTL DEF Spec

(***************************************************************************)
(* An analysis adds a transfer at most once to a column of a row, and only *)
(* if it saved its transaction, whatever runs at once, fails or is retried *)
(* (saveOrUpdateTokenHistory after ER_DUP_ENTRY among others).             *)
(***************************************************************************)
THEOREM CountedOnce == Spec => []NothingCountedTwice
  <1>1. BoundInv => NothingCountedTwice
    BY DEF BoundInv
  <1>2. QED
    BY <1>1, BoundInvariant, PTL

-----------------------------------------------------------------------------
(***************************************************************************)
(* A step of a task that keeps the others out and saves nothing.           *)
(***************************************************************************)
LEMMA ExactMove ==
    ASSUME TypeInv, OneByOne, NEW s \in Sessions, NEW t \in Transactions, NEW to,
           Move(s, t, to), UNCHANGED <<tokenTable, applied>>,
           \A r \in Sessions : session'[r].concurrent = session[r].concurrent,
           to.pc \notin {"off", "saved", "failed"} => ~ Ended(s, t),
           to.pc \notin {"off", "saved", "failed", "receipt"} =>
               \A u \in Transactions \ {t} : ~ InProgress(s, u),
           Exact(t, to)
    PROVE  OneByOne'
  <1>1. task' = [task EXCEPT ![s][t] = to]
    BY DEF Move
  <1>2. \A r \in Sessions, u \in Transactions :
            task'[r][u] = IF r = s /\ u = t THEN to ELSE task[r][u]
    BY <1>1 DEF TypeInv
  <1>3. \A r \in Sessions, u \in Transactions : ~ Ended(r, u)' => ~ Ended(r, u)
    BY <1>2 DEF Ended
  <1>4. ASSUME NEW r \in Sessions, NEW u \in Transactions, NEW v \in Transactions,
               InProgress(r, u)', InProgress(r, v)'
        PROVE  u = v
    <2>1. CASE r # s
      BY <1>2, <1>4, <2>1 DEF InProgress, Ended, OneByOne, Alone
    <2>2. CASE r = s /\ to.pc \in {"off", "saved", "failed", "receipt"}
      BY <1>2, <1>4, <2>2 DEF InProgress, Ended, OneByOne, Alone
    <2>3. CASE r = s /\ to.pc \notin {"off", "saved", "failed", "receipt"}
      BY <1>2, <1>4, <2>3 DEF InProgress, Ended
    <2>4. QED
      BY <2>1, <2>2, <2>3
  <1>5. Alone'
    BY <1>3, <1>4 DEF OneByOne, Alone
  <1>6. ASSUME NEW r \in Sessions, NEW u \in Transactions PROVE Exact(u, task[r][u])'
    <2>1. CASE r = s /\ u = t
      BY <1>2, <2>1 DEF Exact, RowOf
    <2>2. CASE ~ (r = s /\ u = t)
      <3>1. task'[r][u] = task[r][u] /\ Exact(u, task[r][u])
        BY <1>2, <2>2 DEF OneByOne
      <3>2. QED
        BY <3>1 DEF Exact, RowOf
    <2>3. QED
      BY <2>1, <2>2
  <1>7. QED
    BY <1>5, <1>6 DEF OneByOne

(***************************************************************************)
(* A task in progress stays alone.                                         *)
(***************************************************************************)
LEMMA ExactProgress ==
    ASSUME TypeInv, OneByOne, NEW s \in Sessions, NEW t \in Transactions, NEW to,
           Move(s, t, to), UNCHANGED <<session, tokenTable, applied>>,
           InProgress(s, t) \/ to.pc \in {"saved", "failed", "off"},
           Exact(t, to)
    PROVE  OneByOne'
  <1>1. to.pc \notin {"off", "saved", "failed"} => ~ Ended(s, t)
    BY DEF InProgress
  <1>2. to.pc \notin {"off", "saved", "failed", "receipt"} =>
            \A u \in Transactions \ {t} : ~ InProgress(s, u)
    BY DEF OneByOne, Alone
  <1>3. QED
    BY <1>1, <1>2, ExactMove

LEMMA ExactUnmoved ==
    ASSUME OneByOne, UNCHANGED <<tokenTable, applied, task>>,
           \A r \in Sessions : session'[r].concurrent = session[r].concurrent
    PROVE  OneByOne'
  <1>1. Alone'
    BY DEF OneByOne, Alone, InProgress, Ended
  <1>2. \A r \in Sessions, u \in Transactions : Exact(u, task[r][u])'
    BY DEF OneByOne, Exact, RowOf
  <1>3. QED
    BY <1>1, <1>2 DEF OneByOne

(***************************************************************************)
(* A price that is awaited is not among those the fallback leaves behind.  *)
(***************************************************************************)
LEMMA AwaitedCounted ==
    ASSUME NEW t \in Transactions, NEW main \in Candidates(t), NEW e \in Entries, Awaited(e[2])
    PROVE  /\ e[2] \notin NotAwaited(t, main)
           /\ One(e, Counted(t, main) \ NotAwaited(t, main)) = One(e, Counted(t, main))
  <1>1. e[2] \notin NotAwaited(t, main)
    <2> SUFFICES ASSUME e[2] \in NotAwaited(t, main) PROVE FALSE
      OBVIOUS
    <2>1. e[2][1] = t
      BY CountedPlaces
    <2>2. QED
      BY <2>1 DEF Awaited
  <1>2. QED
    BY <1>1 DEF One

LEMMA MainFoundExact ==
    ASSUME TypeInv, NEW t \in Transactions, NEW main \in Candidates(t), NEW row \in Counts,
           \A e \in Entries : row[e] = RowOf(Summary[t][main].token)[e]
    PROVE  Exact(t, MainFound(t, main, row))
  <1> DEFINE to == MainFound(t, main, row)
  <1>1. /\ to.pc \in {"price", "select"} /\ to.at = main
        /\ to.token = Summary[t][main].token
        /\ to.pc = "price" => to.counted = row
        /\ to.pc = "select" =>
              \A e \in Entries : to.counted[e] =
                  row[e] + One(e, Counted(t, main) \ NotAwaited(t, main))
    BY MainFoundEffect
  <1> HIDE DEF to
  <1>2. ASSUME NEW e \in Entries, Awaited(e[2])
        PROVE  to.counted[e] = RowOf(to.token)[e]
                                   + (IF to.pc = "price" THEN 0 ELSE One(e, Counted(t, to.at)))
    <2>1. row[e] \in Nat /\ row[e] = RowOf(to.token)[e]
      BY <1>1 DEF Counts
    <2>2. CASE to.pc = "price"
      BY <1>1, <2>1, <2>2
    <2>3. CASE to.pc = "select"
      <3>1. One(e, Counted(t, main) \ NotAwaited(t, main)) = One(e, Counted(t, main))
        BY <1>2, AwaitedCounted
      <3>2. to.counted[e] = row[e] + One(e, Counted(t, main))
        BY <1>1, <2>3, <3>1
      <3>3. QED
        BY <1>1, <2>1, <2>3, <3>2
    <2>4. QED
      BY <1>1, <2>2, <2>3
  <1>3. Exact(t, to)
    BY <1>1, <1>2 DEF Exact
  <1>4. QED
    BY <1>3 DEF to

LEMMA ExactByWrite ==
    ASSUME TypeInv, OneByOne, NEW s \in Sessions, NEW t \in Transactions,
           SaveWrite(s, t)
    PROVE  /\ OneByOne'
           /\ \A n \in Tokens, e \in Entries : Awaited(e[2]) =>
                  RowOf(n)'[e] = RowOf(n)[e] + (IF n = task[s][t].token
                                                THEN One(e, Counted(t, task[s][t].at))
                                                ELSE 0)
  <1>0. PICK k : k = task[s][t]
    OBVIOUS
  <1>1. /\ k \in TaskStates /\ Exact(t, k) /\ k.pc \in {"insert", "update"}
        /\ k.token \in Tokens /\ k.counted \in Counts /\ session' = session
    <2>1. k \in TaskStates
      BY <1>0 DEF TypeInv
    <2>2. QED
      BY <1>0, <2>1, WriteEffect DEF TaskStates, OneByOne
  <1>2. PICK to \in TaskStates : Move(s, t, to) /\ to.pc = "saved"
    BY WriteEffect DEF Moves
  <1>3. \A r \in Sessions, u \in Transactions :
            task'[r][u] = IF r = s /\ u = t THEN to ELSE task[r][u]
    <2>1. task' = [task EXCEPT ![s][t] = to]
      BY <1>2 DEF Move
    <2>2. QED
      BY <2>1 DEF TypeInv
  <1>4. PICK row \in Counts :
            /\ tokenTable' = [tokenTable EXCEPT ![k.token] = row]
            /\ \/ k.pc = "insert" /\ row = k.counted
               \/ /\ k.pc = "update" /\ tokenTable[k.token] \in Counts /\ k.seen \in Counts
                  /\ \A e \in Entries :
                        /\ row[e] \in {k.counted[e], tokenTable[k.token][e]}
                        /\ k.seen[e] # k.counted[e] => row[e] = k.counted[e]
    BY <1>0, WriteEffect
  <1>5. \A r \in Sessions, u \in Transactions : InProgress(r, u) => r = s /\ u = t
    BY <1>0, <1>1 DEF OneByOne, Alone, InProgress, Ended
  <1>6. \A r \in Sessions, u \in Transactions : ~ InProgress(r, u)'
    BY <1>2, <1>3, <1>5 DEF InProgress, Ended
  <1>7. Alone'
    <2>1. \A r \in Sessions, u \in Transactions : ~ Ended(r, u)' => ~ Ended(r, u)
      BY <1>2, <1>3 DEF Ended
    <2>2. QED
      BY <1>1, <1>6, <2>1 DEF OneByOne, Alone
  <1>8. \A e \in Entries : row[e] = k.counted[e]
    BY <1>1, <1>4 DEF Exact
  <1>9. ASSUME NEW n \in Tokens, NEW e \in Entries, Awaited(e[2])
        PROVE  RowOf(n)'[e] = RowOf(n)[e] + (IF n = k.token THEN One(e, Counted(t, k.at)) ELSE 0)
    <2>1. CASE n = k.token
      <3>1. RowOf(n)' = row
        BY <1>1, <1>4, <2>1, NoRowAssumption DEF RowOf, TypeInv
      <3>2. k.counted[e] = RowOf(n)[e] + One(e, Counted(t, k.at))
        BY <1>1, <1>9, <2>1 DEF Exact, Working
      <3>3. QED
        BY <1>8, <2>1, <3>1, <3>2
    <2>2. CASE n # k.token
      <3>1. RowOf(n)' = RowOf(n)
        BY <1>1, <1>4, <2>2 DEF RowOf, TypeInv
      <3>2. RowOf(n)[e] \in Nat
        BY DEF TypeInv, RowOf, Counts, Nothing
      <3>3. QED
        BY <2>2, <3>1, <3>2
    <2>3. QED
      BY <2>1, <2>2
  <1>10. ASSUME NEW r \in Sessions, NEW u \in Transactions PROVE Exact(u, task[r][u])'
    BY <1>6 DEF Exact, InProgress, Ended, Working
  <1>11. QED
    BY <1>0, <1>7, <1>9, <1>10 DEF OneByOne

LEMMA OneByOneStart ==
    ASSUME TypeInv, NEW s \in Sessions, NEW from \in Timestamps,
           NEW stored \in SUBSET Transactions, Begin(s, from, FALSE, stored),
           \A r \in Sessions \ {s} : ~ Busy(r)
    PROVE  OneByOne'
  <1>1. /\ session'[s].concurrent = FALSE
        /\ \A r \in Sessions \ {s} : task'[r] = task[r]
        /\ \A t \in Transactions : task'[s][t].pc \in {"off", "receipt"}
    BY BeginEffect
  <1>2. \A r \in Sessions, t \in Transactions : ~ Ended(r, t)' => r = s
    BY <1>1 DEF Ended, Busy
  <1>3. \A r \in Sessions, t \in Transactions : ~ InProgress(r, t)'
    BY <1>1, <1>2 DEF InProgress, Ended
  <1>4. Alone'
    BY <1>1, <1>2, <1>3 DEF Alone
  <1>5. ASSUME NEW r \in Sessions, NEW t \in Transactions PROVE Exact(t, task[r][t])'
    BY <1>3 DEF Exact, InProgress, Ended, Working
  <1>6. QED
    BY <1>4, <1>5 DEF OneByOne

LEMMA OneByOneStep ==
    ASSUME TypeInv, OneByOne, [RunNext]_vars
    PROVE  OneByOne'
  <1>2. ASSUME NEW s \in Sessions, NEW t \in Transactions, Throws(s, t) PROVE OneByOne'
    <2>1. Move(s, t, [task[s][t] EXCEPT !.pc = "failed"]) /\ UNCHANGED <<tokenTable, applied>>
      BY <1>2 DEF Throws
    <2>2. [task[s][t] EXCEPT !.pc = "failed"].pc = "failed"
      <3>1. task[s][t] \in TaskStates
        BY DEF TypeInv
      <3>2. QED
        BY <3>1 DEF TaskStates
    <2>3. PICK to : Move(s, t, to) /\ to.pc = "failed"
      BY <2>1, <2>2
    <2>4. Exact(t, to)
      BY <2>3 DEF Exact, Working
    <2>5. \A r \in Sessions : session'[r].concurrent = session[r].concurrent
      BY <1>2, ThrowsEffect
    <2>6. QED
      BY <2>1, <2>3, <2>4, <2>5, ExactMove
  <1>3. ASSUME NEW s \in Sessions, NEW t \in Transactions, ReceiptArrives(s, t)
        PROVE  OneByOne'
    <2>1. CASE Throws(s, t)
      BY <1>2, <2>1
    <2>2. CASE ~ Throws(s, t)
      <3>1. UNCHANGED <<session, tokenTable, applied>>
        BY <1>3, <2>2, ReceiptEffect
      <3>2. PICK to \in TaskStates : /\ Moves(s, t, to) /\ to.pc = "find" /\ to.late = {}
                                     /\ to.at \in Candidates(t)
                                     /\ \A i \in Candidates(t) : to.at <= i
        BY <1>3, <2>2, ReceiptEffect
      <3>3. task[s][t].pc = "receipt" /\ MayStart(s, t)
        BY <1>3 DEF ReceiptArrives
      <3>4. \A u \in Transactions \ {t} : ~ InProgress(s, u)
        BY <3>3 DEF MayStart, OneByOne, Alone, Ended
      <3>5. Exact(t, to)
        <4>1. \A i \in Candidates(t) : ~ (i < to.at)
          BY <3>2, CandidatesType
        <4>2. QED
          BY <3>2, <4>1 DEF Exact, Working
      <3>6. QED
        BY <3>1, <3>2, <3>3, <3>4, <3>5, ExactMove DEF Moves, Ended
    <2>3. QED
      BY <2>1, <2>2
  <1>4. ASSUME NEW s \in Sessions, NEW t \in Transactions, FindRow(s, t) PROVE OneByOne'
    <2> DEFINE at == task[s][t].at
               row == tokenTable[Summary[t][at].token]
    <2>1. /\ UNCHANGED <<session, tokenTable, applied>> /\ at \in Candidates(t)
          /\ task[s][t].pc = "find"
      BY <1>4, FindEffect
    <2>2. PICK to \in TaskStates :
              /\ Moves(s, t, to)
              /\ \/ row # NoRow /\ row \in Counts /\ to = MainFound(t, at, row)
                 \/ /\ row = NoRow
                    /\ to.pc = "find" /\ to.late = {}
                    /\ to.at \in Candidates(t) /\ to.at > at
                    /\ \A i \in Candidates(t) : i < to.at => i <= at
                 \/ \E first \in Candidates(t) :
                       /\ row = NoRow
                       /\ \A i \in Candidates(t) : first <= i /\ i <= at
                       /\ to = MainFound(t, first, Nothing)
      BY <1>4, FindEffect
    <2>3. InProgress(s, t) /\ Exact(t, task[s][t])
      BY <2>1 DEF OneByOne, InProgress, Ended
    <2>4. \A i \in Candidates(t) :
              i < at => tokenTable[Summary[t][i].token] = NoRow
      BY <2>1, <2>3 DEF Exact
    <2>5. CASE row # NoRow /\ row \in Counts /\ to = MainFound(t, at, row)
      <3>1. \A e \in Entries : row[e] = RowOf(Summary[t][at].token)[e]
        BY <2>5 DEF RowOf
      <3>2. Exact(t, to)
        BY <2>1, <2>5, <3>1, MainFoundExact
      <3>3. QED
        BY <2>1, <2>2, <2>3, <3>2, ExactProgress DEF Moves
    <2>6. CASE /\ row = NoRow
               /\ to.pc = "find" /\ to.late = {}
               /\ to.at \in Candidates(t) /\ to.at > at
               /\ \A i \in Candidates(t) : i < to.at => i <= at
      <3>1. ASSUME NEW i \in Candidates(t), i < to.at
            PROVE  tokenTable[Summary[t][i].token] = NoRow
        <4>1. i \in Nat /\ at \in Nat /\ i <= at
          BY <2>1, <2>6, <3>1, CandidatesType
        <4>2. i = at \/ i < at
          BY <4>1
        <4>3. QED
          BY <2>4, <2>6, <4>2
      <3>2. Exact(t, to)
        BY <2>6, <3>1 DEF Exact, Working
      <3>3. QED
        BY <2>1, <2>2, <2>3, <3>2, ExactProgress DEF Moves
    <2>7. ASSUME NEW first \in Candidates(t), row = NoRow,
                 \A i \in Candidates(t) : first <= i /\ i <= at,
                 to = MainFound(t, first, Nothing)
          PROVE  OneByOne'
      <3>1. tokenTable[Summary[t][first].token] = NoRow
        <4>1. first \in Nat /\ at \in Nat /\ first <= at
          BY <2>1, <2>7, CandidatesType
        <4>2. first = at \/ first < at
          BY <4>1
        <4>3. QED
          BY <2>4, <2>7, <4>2
      <3>2. Nothing \in Counts /\ RowOf(Summary[t][first].token) = Nothing
        BY <3>1 DEF RowOf, Nothing, Counts
      <3>3. Exact(t, to)
        BY <2>7, <3>2, MainFoundExact
      <3>4. QED
        BY <2>1, <2>2, <2>3, <3>3, ExactProgress DEF Moves
    <2>8. QED
      BY <2>2, <2>5, <2>6, <2>7
  <1>5. ASSUME NEW s \in Sessions, NEW t \in Transactions, PricesArrive(s, t)
        PROVE  OneByOne'
    <2>0. PICK k : k = task[s][t]
      OBVIOUS
    <2>1. UNCHANGED <<session, tokenTable, applied>> /\ k.pc = "price"
      BY <1>5, <2>0, PricesEffect
    <2>2. PICK to \in TaskStates :
              /\ Moves(s, t, to)
              /\ to.pc = "select" /\ to.at = k.at /\ to.token = k.token /\ to.late = {}
              /\ \A e \in Entries : to.counted[e] = k.counted[e] + One(e, Counted(t, to.at))
      BY <1>5, <2>0, PricesEffect
    <2>3. InProgress(s, t) /\ Exact(t, k) /\ k \in TaskStates
      BY <2>0, <2>1 DEF OneByOne, InProgress, Ended, TypeInv
    <2>4. \A e \in Entries : Awaited(e[2]) =>
              to.counted[e] = RowOf(to.token)[e] + One(e, Counted(t, to.at))
      <3> SUFFICES ASSUME NEW e \in Entries, Awaited(e[2])
                   PROVE  to.counted[e] = RowOf(to.token)[e] + One(e, Counted(t, to.at))
        OBVIOUS
      <3>1. k.counted[e] \in Nat
        BY <2>3 DEF TaskStates, Counts
      <3>2. k.counted[e] = RowOf(k.token)[e] + 0
        BY <2>1, <2>3 DEF Exact, Working
      <3>3. k.token \in Tokens
        BY <2>0, <2>1, MainType DEF TypeInv, Chosen, Working
      <3>4. RowOf(k.token)[e] \in Nat
        BY <3>3 DEF TypeInv, RowOf, Counts, Nothing
      <3>5. QED
        BY <2>2, <3>1, <3>2, <3>4
    <2>5. Exact(t, to)
      BY <2>2, <2>4 DEF Exact
    <2>6. QED
      BY <2>1, <2>2, <2>3, <2>5, ExactProgress DEF Moves
  <1>6. ASSUME NEW s \in Sessions, NEW t \in Transactions, LatePrice(s, t) PROVE OneByOne'
    <2> DEFINE k == task[s][t]
    <2>1. UNCHANGED <<session, tokenTable, applied>>
      BY <1>6, LateEffect
    <2>2. PICK p \in k.late, to \in TaskStates :
              /\ Moves(s, t, to)
              /\ to.pc = k.pc /\ to.at = k.at /\ to.token = k.token /\ to.seen = k.seen
              /\ to.late = k.late \ {p}
              /\ \A e \in Entries : to.counted[e] = k.counted[e] + One(e, {p})
      BY <1>6, LateEffect
    <2>3. Exact(t, k) /\ k \in TaskStates /\ Chosen(t, k)
      BY DEF OneByOne, TypeInv
    <2>4. k.at \in Candidates(t) /\ p \in NotAwaited(t, k.at)
      BY <2>2, <2>3 DEF Chosen
    <2>5. ASSUME NEW e \in Entries, Awaited(e[2]) PROVE to.counted[e] = k.counted[e]
      <3>1. e[2] # p
        BY <2>4, <2>5, AwaitedCounted
      <3>2. k.counted[e] \in Nat
        BY <2>3 DEF TaskStates, Counts
      <3>3. QED
        BY <2>2, <3>1, <3>2 DEF One
    <2>6. Exact(t, to)
      BY <2>2, <2>3, <2>5 DEF Exact
    <2>7. CASE InProgress(s, t)
      BY <2>1, <2>2, <2>3, <2>6, <2>7, ExactProgress DEF Moves
    <2>8. CASE ~ InProgress(s, t)
      <3>1. to.pc \in {"off", "saved", "failed", "receipt"}
        BY <2>2, <2>8 DEF InProgress, Ended
      <3>2. to.pc \notin {"off", "saved", "failed"} => ~ Ended(s, t)
        BY <2>2 DEF Ended
      <3>3. QED
        BY <2>1, <2>2, <2>3, <2>6, <3>1, <3>2, ExactMove DEF Moves
    <2>9. QED
      BY <2>7, <2>8
  <1>7. ASSUME NEW s \in Sessions, NEW t \in Transactions, SaveSelect(s, t) PROVE OneByOne'
    <2>0. PICK k : k = task[s][t]
      OBVIOUS
    <2>1. UNCHANGED <<session, tokenTable, applied>> /\ k.pc = "select"
      BY <1>7, <2>0, SelectEffect
    <2>2. PICK to \in TaskStates :
              /\ Moves(s, t, to) /\ Keeps(k, to)
              /\ to.pc = IF tokenTable[to.token] = NoRow THEN "insert" ELSE "update"
              /\ to.seen = tokenTable[to.token]
      BY <1>7, <2>0, SelectEffect
    <2>3. InProgress(s, t) /\ Exact(t, k)
      BY <2>0, <2>1 DEF OneByOne, InProgress, Ended
    <2>4. Exact(t, to)
      BY <2>1, <2>2, <2>3 DEF Exact, Keeps, Working
    <2>5. QED
      BY <2>1, <2>2, <2>3, <2>4, ExactProgress DEF Moves
  <1>8. ASSUME NEW s \in Sessions, NEW t \in Transactions, DuplicateEntry(s, t)
        PROVE  OneByOne'
    <2>1. task[s][t].pc = "insert" /\ tokenTable[task[s][t].token] # NoRow
      BY <1>8, DuplicateEffect
    <2>2. QED
      BY <2>1 DEF OneByOne, Exact
  <1>9. ASSUME NEW s \in Sessions, NEW t \in Transactions, SaveWrite(s, t) PROVE OneByOne'
    BY <1>9, ExactByWrite
  <1>10. ASSUME NEW s \in Sessions, NEW to, SessionMoves(s, to),
                to.concurrent = session[s].concurrent
         PROVE  OneByOne'
    <2>1. /\ UNCHANGED <<tokenTable, applied, task>>
          /\ \A r \in Sessions : session'[r].concurrent = session[r].concurrent
      BY <1>10 DEF SessionMoves, TypeInv
    <2>2. QED
      BY <2>1, ExactUnmoved
  <1>11. ASSUME NEW s \in Sessions,
                LoadWallet(s) \/ SumRows(s) \/ SaveWallet(s) \/ SummaryFails(s)
         PROVE  OneByOne'
    <2>1. CASE LoadWallet(s)
      BY <1>10, <2>1, LoadEffect
    <2>2. CASE SumRows(s)
      BY <1>10, <2>2, SumEffect
    <2>3. CASE SaveWallet(s)
      <3>1. SessionMoves(s, [session[s] EXCEPT !.pc = "done"])
        BY <2>3 DEF SaveWallet
      <3>2. QED
        BY <1>10, <3>1, SettleEffect
    <2>4. CASE SummaryFails(s)
      <3>1. SessionMoves(s, [session[s] EXCEPT !.pc = "failed"])
        BY <2>4 DEF SummaryFails
      <3>2. QED
        BY <1>10, <3>1, SettleEffect
    <2>5. QED
      BY <1>11, <2>1, <2>2, <2>3, <2>4
  <1>12. CASE ProcessEnds
    <2>1. \A r \in Sessions, t \in Transactions : task'[r][t].pc = "off"
      BY <1>12, OffTask DEF ProcessEnds
    <2>2. Alone'
      BY <2>1 DEF Alone, InProgress, Ended
    <2>3. ASSUME NEW r \in Sessions, NEW t \in Transactions PROVE Exact(t, task[r][t])'
      BY <2>1 DEF Exact, Working
    <2>4. QED
      BY <2>2, <2>3 DEF OneByOne
  <1>13. CASE UNCHANGED vars
    BY <1>13, ExactUnmoved DEF vars
  <1>14. ASSUME NEW s \in Sessions, Drops(s) PROVE OneByOne'
    <2>1. /\ UNCHANGED <<tokenTable, applied>>
          /\ \A r \in Sessions \ {s} : session'[r] = session[r] /\ task'[r] = task[r]
          /\ \A t \in Transactions : task'[s][t].pc = "off"
      BY <1>14, DropsEffect, OffTask
    <2>2. Alone'
      BY <2>1 DEF OneByOne, Alone, InProgress, Ended
    <2>3. ASSUME NEW r \in Sessions, NEW t \in Transactions PROVE Exact(t, task[r][t])'
      <3>1. CASE r = s
        BY <2>1, <3>1 DEF Exact, Working
      <3>2. CASE r # s
        <4>1. task'[r][t] = task[r][t] /\ Exact(t, task[r][t])
          BY <2>1, <3>2 DEF OneByOne
        <4>2. QED
          BY <2>1, <4>1 DEF Exact, RowOf
      <3>3. QED
        BY <3>1, <3>2
    <2>4. QED
      BY <2>2, <2>3 DEF OneByOne
  <1>15. CASE RowPut
    BY <1>15, ExactUnmoved DEF RowPut
  <1>16. QED
    BY <1>2, <1>3, <1>4, <1>5, <1>6, <1>7, <1>8, <1>9, <1>11, <1>12, <1>13, <1>14,
       <1>15
       DEF RunNext, SessionStep, TaskStep, FindFails, PriceFails, SaveFails

LEMMA RowsExactStep ==
    ASSUME TypeInv, IdInv, OneByOne, RowsExact, [OpenNext]_vars
    PROVE  RowsExact'
  <1>1. ASSUME UNCHANGED <<tokenTable, applied>> PROVE RowsExact'
    BY <1>1 DEF RowsExact, RowOf, Brought
  <1>2. ASSUME NEW s \in Sessions, NEW t \in Transactions, SaveWrite(s, t) PROVE RowsExact'
    <2> SUFFICES ASSUME NEW n \in Tokens, NEW e \in Entries, Awaited(e[2])
                 PROVE  RowOf(n)'[e] = Brought(n, e)'
      BY DEF RowsExact, Brought
    <2>1. RowOf(n)[e] = Brought(n, e) /\ Brought(n, e) \in Nat
      BY BroughtType DEF RowsExact
    <2>2. Brought(n, e)' = Brought(n, e) + (IF n = task[s][t].token
                                            THEN One(e, Counted(t, task[s][t].at))
                                            ELSE 0)
      BY <1>2, BroughtByWrite
    <2>3. RowOf(n)'[e] = RowOf(n)[e] + (IF n = task[s][t].token
                                        THEN One(e, Counted(t, task[s][t].at))
                                        ELSE 0)
      BY <1>2, ExactByWrite
    <2>4. QED
      BY <2>1, <2>2, <2>3
  <1>3. ASSUME NEW s \in Sessions, Starts(s) \/ Drops(s) PROVE RowsExact'
    BY <1>1, <1>3, DropsEffect DEF Starts, Begin
  <1>4. CASE ProcessEnds
    BY <1>1, <1>4 DEF ProcessEnds
  <1>5. CASE IdsKept
    BY <1>1, <1>5 DEF IdsKept
  <1>6. QED
    BY <1>2, <1>3, <1>4, <1>5, StepsKeepIds

LEMMA OverlapStays == ASSUME overlap, [OpenNext]_vars PROVE overlap'
  <1>1. ASSUME NEW s \in Sessions, Starts(s) PROVE overlap'
    BY <1>1, Zenon DEF Starts, Begin
  <1>2. ASSUME NEW s \in Sessions, NEW t \in Transactions, NEW to, Move(s, t, to)
        PROVE  overlap'
    BY <1>2 DEF Move
  <1>3. ASSUME NEW s \in Sessions, NEW t \in Transactions, Throws(s, t) PROVE overlap'
    BY <1>2, <1>3 DEF Throws
  <1>4. ASSUME NEW s \in Sessions, NEW t \in Transactions, TaskStep(s, t) PROVE overlap'
    <2>1. CASE ReceiptArrives(s, t) \/ FindFails(s, t) \/ PriceFails(s, t) \/ SaveFails(s, t)
      BY <1>2, <1>3, <2>1, Zenon DEF ReceiptArrives, FindFails, PriceFails, SaveFails
    <2>2. CASE FindRow(s, t)
      BY <1>2, <2>2, Zenon DEF FindRow
    <2>3. CASE PricesArrive(s, t) \/ SaveSelect(s, t) \/ DuplicateEntry(s, t) \/ SaveWrite(s, t)
      BY <1>2, <2>3, Zenon DEF PricesArrive, SaveSelect, DuplicateEntry, SaveWrite
    <2>4. QED
      BY <1>4, <2>1, <2>2, <2>3 DEF TaskStep
  <1>5. ASSUME NEW s \in Sessions, NEW t \in Transactions, LatePrice(s, t) PROVE overlap'
    BY <1>2, <1>5, Zenon DEF LatePrice
  <1>6. ASSUME NEW s \in Sessions,
               LoadWallet(s) \/ SumRows(s) \/ SaveWallet(s) \/ SummaryFails(s)
        PROVE  overlap'
    BY <1>6 DEF LoadWallet, SumRows, SaveWallet, SummaryFails, SessionMoves
  <1>7. QED
    BY <1>1, <1>4, <1>5, <1>6 DEF OpenNext, RunNext, Drops, RowPut, ProcessEnds, SessionStep, vars

LEMMA ExactStep ==
    ASSUME TypeInv, IdInv, ExactInv, [OpenNext]_vars
    PROVE  ExactInv'
  <1> SUFFICES ASSUME ~ overlap' PROVE OneByOne' /\ RowsExact'
    BY DEF ExactInv
  <1>1. OneByOne /\ RowsExact
    BY OverlapStays DEF ExactInv
  <1>2. ASSUME NEW s \in Sessions, Starts(s) PROVE OneByOne'
    <2>1. PICK from \in Timestamps, concurrent \in BOOLEAN, stored \in SUBSET Transactions :
             Begin(s, from, concurrent, stored)
      BY <1>2 DEF Starts
    <2>2. overlap' = (overlap \/ concurrent \/ \E r \in Sessions \ {s} : Busy(r))
      BY <2>1, BeginEffect
    <2>3. concurrent = FALSE /\ \A r \in Sessions \ {s} : ~ Busy(r)
      BY <2>2
    <2>4. QED
      BY <2>1, <2>3, OneByOneStart
  <1>3. QED
    BY <1>1, <1>2, OneByOneStep, RowsExactStep DEF OpenNext

LEMMA ExactInit == ASSUME Init PROVE ExactInv
  <1>1. \A r \in Sessions, t \in Transactions : task[r][t].pc = "off"
    BY OffTask DEF Init
  <1>2. Alone
    BY <1>1 DEF Alone, InProgress, Ended
  <1>3. \A k \in Tokens : \A e \in Entries : RowOf(k)[e] = 0 /\ Brought(k, e) = 0
    BY FS_EmptySet DEF Init, RowOf, Nothing, Brought
  <1>4. \A r \in Sessions, t \in Transactions : Exact(t, task[r][t])
    BY <1>1 DEF Exact, Working
  <1>5. QED
    BY <1>2, <1>3, <1>4 DEF ExactInv, OneByOne, RowsExact

LEMMA ExactMeansKept == ASSUME ExactInv PROVE NoUpdateLost
  BY DEF ExactInv, OneByOne, RowsExact, NoUpdateLost, Brought

(***************************************************************************)
(* As long as no two tasks were in progress together, the rows hold each   *)
(* awaited transfer exactly as often as it was saved: nothing is lost to a *)
(* failure, a retry or a crash.                                            *)
(***************************************************************************)
THEOREM UpdatesKept == Spec => []NoUpdateLost
  <1>1. Init => ExactInv
    BY ExactInit
  <1>2. TypeInv /\ IdInv /\ ExactInv /\ [Next]_vars => ExactInv'
    BY ExactStep, NextIsOpen
  <1>3. ExactInv => NoUpdateLost
    BY ExactMeansKept
  <1>4. QED
    BY <1>1, <1>2, <1>3, TypeInvariant, BoundInvariant, PTL DEF Spec

-----------------------------------------------------------------------------

LEMMA SumUnmoved ==
    ASSUME SumInv, UNCHANGED <<tokenTable, walletRow>>,
           \A r \in Sessions :
               /\ session'[r].wallet = session[r].wallet
               /\ \/ session'[r].pc = session[r].pc
                  \/ session[r].pc = "processing" /\ session'[r].pc = "failed",
           \A r \in Sessions, u \in Transactions : Ended(r, u) => Ended(r, u)'
    PROVE  SumInv'
  <1>1. \A r \in Sessions : OthersIdle(r)' => OthersIdle(r)
    BY DEF OthersIdle
  <1>2. ASSUME NEW r \in Sessions, session'[r].pc \notin {"processing", "failed"},
               NEW t \in Transactions
        PROVE  Ended(r, t)'
    BY <1>2 DEF SumInv
  <1>3. ASSUME NEW r \in Sessions, session'[r].pc = "summed", OthersIdle(r)'
        PROVE  session'[r].wallet.summary = TotalOf(tokenTable)
    BY <1>1, <1>3 DEF SumInv
  <1>4. ASSUME NEW r \in Sessions, session'[r].pc = "done", OthersIdle(r)'
        PROVE  walletRow.summary = TotalOf(tokenTable)
    BY <1>1, <1>4 DEF SumInv
  <1>5. TotalOf(tokenTable)' = TotalOf(tokenTable) /\ walletRow'.summary = walletRow.summary
    OBVIOUS
  <1>6. QED
    BY <1>2, <1>3, <1>4, <1>5 DEF SumInv

(***************************************************************************)
(* While a session is on its way, none of the others is left alone.        *)
(***************************************************************************)
LEMMA SumMoves ==
    ASSUME TypeInv, SumInv, NEW s \in Sessions, NEW to, SessionMoves(s, to),
           to.pc \in {"loaded", "summed", "done", "failed"},
           to.pc # "failed" => \A t \in Transactions : Ended(s, t),
           to.pc = "summed" => to.wallet.summary = TotalOf(tokenTable),
           to.pc = "done" => (OthersIdle(s) => walletRow'.summary = TotalOf(tokenTable))
    PROVE  SumInv'
  <1>1. \A r \in Sessions : session'[r] = IF r = s THEN to ELSE session[r]
    BY DEF SessionMoves, TypeInv
  <1>2. \A r \in Sessions \ {s} : ~ OthersIdle(r)'
    BY <1>1 DEF OthersIdle
  <1>3. OthersIdle(s)' => OthersIdle(s)
    BY <1>1 DEF OthersIdle
  <1>4. \A r \in Sessions, t \in Transactions : Ended(r, t)' <=> Ended(r, t)
    BY DEF SessionMoves, Ended
  <1>5. TotalOf(tokenTable)' = TotalOf(tokenTable)
    BY DEF SessionMoves
  <1>6. ASSUME NEW r \in Sessions
        PROVE  /\ session'[r].pc \notin {"processing", "failed"} =>
                      \A t \in Transactions : Ended(r, t)'
               /\ session'[r].pc = "summed" /\ OthersIdle(r)' =>
                      session'[r].wallet.summary = TotalOf(tokenTable)'
               /\ session'[r].pc = "done" /\ OthersIdle(r)' =>
                      walletRow'.summary = TotalOf(tokenTable)'
    <2>1. CASE r = s
      BY <1>1, <1>3, <1>4, <1>5, <2>1
    <2>2. CASE r # s
      BY <1>1, <1>2, <1>4, <2>2 DEF SumInv
    <2>3. QED
      BY <2>1, <2>2
  <1>7. QED
    BY <1>6 DEF SumInv

LEMMA SumStep ==
    ASSUME TypeInv, SumInv, [Next]_vars
    PROVE  SumInv'
  <1>1. ASSUME NEW s \in Sessions, NEW from \in Timestamps, NEW concurrent \in BOOLEAN,
               Begin(s, from, concurrent, Transactions)
        PROVE  SumInv'
    <2>1. /\ session'[s].pc = "processing"
          /\ \A r \in Sessions \ {s} : session'[r] = session[r] /\ task'[r] = task[r]
      BY <1>1, BeginEffect
    <2>2. \A r \in Sessions \ {s} : ~ OthersIdle(r)'
      BY <2>1 DEF OthersIdle
    <2>3. QED
      BY <2>1, <2>2 DEF SumInv, Ended
  <1>2. ASSUME NEW s \in Sessions, NEW t \in Transactions, Throws(s, t) PROVE SumInv'
    <2>1. UNCHANGED <<tokenTable, walletRow>>
      BY <1>2 DEF Throws, Move
    <2>2. \A r \in Sessions :
              /\ session'[r].wallet = session[r].wallet
              /\ \/ session'[r].pc = session[r].pc
                 \/ session[r].pc = "processing" /\ session'[r].pc = "failed"
      BY <1>2, ThrowsEffect
    <2>3. \A r \in Sessions, u \in Transactions : Ended(r, u) => Ended(r, u)'
      BY <1>2, ThrowsKeepsIds DEF IdsKept
    <2>4. QED
      BY <2>1, <2>2, <2>3, SumUnmoved
  <1>3. ASSUME UNCHANGED <<session, walletRow, tokenTable>>, IdsKept PROVE SumInv'
    <2>1. \A r \in Sessions, u \in Transactions : Ended(r, u) => Ended(r, u)'
      BY <1>3 DEF IdsKept
    <2>2. QED
      BY <1>3, <2>1, SumUnmoved
  <1>4. ASSUME NEW s \in Sessions, NEW t \in Transactions, NEW to, Move(s, t, to),
               UNCHANGED <<session, tokenTable, applied>>,
               ~ Ended(s, t) \/ to.pc = task[s][t].pc
        PROVE  SumInv'
    <2>1. UNCHANGED walletRow
      BY <1>4 DEF Move
    <2>2. QED
      BY <1>3, <1>4, <2>1, MoveKeepsIds
  <1>5. ASSUME NEW s \in Sessions, NEW t \in Transactions,
               \/ ReceiptArrives(s, t) \/ FindRow(s, t) \/ PricesArrive(s, t)
               \/ SaveSelect(s, t) \/ DuplicateEntry(s, t)
        PROVE  SumInv'
    <2>1. CASE Throws(s, t)
      BY <1>2, <2>1
    <2>2. CASE ~ Throws(s, t)
      <3>1. ~ Ended(s, t)
        BY <1>5 DEF ReceiptArrives, FindRow, PricesArrive, SaveSelect, DuplicateEntry, Ended
      <3>2. UNCHANGED <<session, tokenTable, applied>>
        BY <1>5, <2>2
           DEF ReceiptArrives, FindRow, PricesArrive, SaveSelect, DuplicateEntry
      <3>3. \E to : Move(s, t, to)
        BY <1>5, <2>2
           DEF ReceiptArrives, FindRow, PricesArrive, SaveSelect, DuplicateEntry
      <3>4. QED
        BY <1>4, <3>1, <3>2, <3>3
    <2>3. QED
      BY <2>1, <2>2
  <1>6. ASSUME NEW s \in Sessions, NEW t \in Transactions, LatePrice(s, t) PROVE SumInv'
    <2>1. PICK to \in TaskStates : /\ Moves(s, t, to)
                                   /\ to.pc = task[s][t].pc /\ to.token = task[s][t].token
                                   /\ to.seen = task[s][t].seen
      BY <1>6, LateEffect
    <2>2. UNCHANGED <<session, tokenTable, applied>>
      BY <1>6, LateEffect
    <2>3. QED
      BY <1>4, <2>1, <2>2 DEF Moves
  <1>7. ASSUME NEW s \in Sessions, NEW t \in Transactions, SaveWrite(s, t) PROVE SumInv'
    <2>1. PICK to \in TaskStates : Move(s, t, to) /\ to.pc = "saved"
      BY <1>7, WriteEffect DEF Moves
    <2>2. \A r \in Sessions, u \in Transactions : Ended(r, u) => Ended(r, u)'
      <3>1. task' = [task EXCEPT ![s][t] = to]
        BY <2>1 DEF Move
      <3>2. \A r \in Sessions, u \in Transactions :
                task'[r][u] = IF r = s /\ u = t THEN to ELSE task[r][u]
        BY <3>1 DEF TypeInv
      <3>3. QED
        BY <2>1, <3>2 DEF Ended
    <2>3. ~ Ended(s, t) /\ session' = session
      BY <1>7 DEF SaveWrite, Ended
    <2>4. session[s].pc \in {"processing", "failed"}
      BY <2>3 DEF SumInv
    <2>5. \A r \in Sessions : session[r].pc \in {"summed", "done"} => ~ OthersIdle(r)'
      BY <2>3, <2>4 DEF OthersIdle
    <2>6. QED
      BY <2>2, <2>3, <2>5 DEF SumInv
  <1>8. ASSUME NEW s \in Sessions, LoadWallet(s) PROVE SumInv'
    <2>1. PICK to : SessionMoves(s, to) /\ to.pc = "loaded"
      BY <1>8, LoadEffect
    <2>2. \A t \in Transactions : Ended(s, t)
      BY <1>8 DEF LoadWallet
    <2>3. QED
      BY <2>1, <2>2, SumMoves
  <1>9. ASSUME NEW s \in Sessions, SumRows(s) PROVE SumInv'
    <2>1. PICK to : /\ SessionMoves(s, to) /\ to.pc = "summed"
                    /\ to.wallet.summary = TotalOf(tokenTable)
      BY <1>9, SumEffect
    <2>2. \A t \in Transactions : Ended(s, t)
      BY <1>9 DEF SumRows, SumInv
    <2>3. QED
      BY <2>1, <2>2, SumMoves
  <1>10. ASSUME NEW s \in Sessions, SaveWallet(s) PROVE SumInv'
    <2>1. /\ SessionMoves(s, [session[s] EXCEPT !.pc = "done"]) /\ session[s].pc = "summed"
          /\ walletRow' = session[s].wallet
      BY <1>10 DEF SaveWallet
    <2>2. PICK to : SessionMoves(s, to) /\ to.pc = "done"
      BY <2>1, SettleEffect
    <2>3. /\ \A t \in Transactions : Ended(s, t)
          /\ OthersIdle(s) => walletRow'.summary = TotalOf(tokenTable)
      BY <2>1 DEF SumInv
    <2>4. QED
      BY <2>2, <2>3, SumMoves
  <1>11. ASSUME NEW s \in Sessions, SummaryFails(s) PROVE SumInv'
    <2>1. SessionMoves(s, [session[s] EXCEPT !.pc = "failed"])
      BY <1>11 DEF SummaryFails
    <2>2. PICK to : SessionMoves(s, to) /\ to.pc = "failed"
      BY <2>1, SettleEffect
    <2>3. QED
      BY <2>2, SumMoves
  <1>12. CASE ProcessEnds
    BY <1>12, IdleSession, OffTask DEF ProcessEnds, SumInv, Ended
  <1>13. CASE UNCHANGED vars
    BY <1>3, <1>13 DEF vars, IdsKept, Ended
  <1>14. QED
    BY <1>1, <1>2, <1>5, <1>6, <1>7, <1>8, <1>9, <1>10, <1>11, <1>12, <1>13
       DEF Next, SessionStep, TaskStep, FindFails, PriceFails, SaveFails

(***************************************************************************)
(* When an analysis has ended well and no other call was made meanwhile,   *)
(* the summary is the sum of the token rows, in both modes: no task left   *)
(* behind still writes a row.                                              *)
(***************************************************************************)
THEOREM SummarySound == Spec => []SummaryIsSum
  <1>1. Init => SumInv
    BY IdleSession, OffTask DEF Init, SumInv, Ended
  <1>2. TypeInv /\ SumInv /\ [Next]_vars => SumInv'
    BY SumStep
  <1>3. SumInv => SummaryIsSum
    BY DEF SumInv, SummaryIsSum, OthersIdle
  <1>4. QED
    BY <1>1, <1>2, <1>3, TypeInvariant, PTL DEF Spec

-----------------------------------------------------------------------------
(***************************************************************************)
(* The sum over the rows is a number for every transfer.                   *)
(***************************************************************************)
LEMMA TotalType ==
    ASSUME NEW table \in [Tokens -> Counts \cup {NoRow}]
    PROVE  TotalOf(table) \in [Places -> Nat]
  <1> DEFINE rows == {k \in Tokens : table[k] # NoRow}
  <1>1. IsFiniteSet(rows)
    <2>1. rows \in SUBSET Tokens /\ IsFiniteSet(Tokens)
      BY SummaryAssumption
    <2> HIDE DEF rows
    <2>2. QED
      BY <2>1, FS_Subset
  <1>2. ASSUME NEW p \in Places
        PROVE  MapThenSumSet(LAMBDA k : table[k][<<"performanceUSD", p>>], rows) \in Nat
    <2> DEFINE e == <<"performanceUSD", p>>
               first(T) == CHOOSE x \in T : TRUE
               Right(f) == f = [T \in SUBSET rows |->
                                  IF T = {} THEN 0 ELSE table[first(T)][e] + f[T \ {first(T)}]]
               g == CHOOSE f : Right(f)
               pick == [T \in SUBSET rows |-> first(T)]
               step == [k \in rows |-> [d \in Nat |-> table[k][e] + d]]
    <2>1. \A k \in rows : table[k][e] \in Nat
      <3>1. e \in Entries
        BY DEF Entries
      <3>2. QED
        BY <3>1 DEF Counts
    <2>2. \A T \in SUBSET rows : T # {} => pick[T] = first(T) /\ first(T) \in T
      OBVIOUS
    <2>3. \A k \in rows : \A d \in Nat : step[k][d] = table[k][e] + d /\ step[k][d] \in Nat
      BY <2>1
    <2>4. \E f \in [SUBSET rows -> Nat] : Right(f)
      <3>1. PICK f \in [SUBSET rows -> Nat] : Recursion(f, rows, 0, pick, step)
        <4>1. \A T \in SUBSET rows : T # {} => pick[T] \in T
          BY <2>2
        <4>2. \A k \in rows : \A d \in Nat : step[k][d] \in Nat
          BY <2>3
        <4> HIDE DEF pick, step, rows
        <4>3. QED
          BY <1>1, <4>1, <4>2, RecursionOverSubsets
      <3> HIDE DEF first, rows, e
      <3>2. ASSUME NEW T \in SUBSET rows, T # {}
            PROVE  f[T] = table[first(T)][e] + f[T \ {first(T)}]
        <4>1. first(T) \in rows /\ f[T \ {first(T)}] \in Nat
          BY <2>2, <3>2
        <4>2. f[T] = step[first(T)][f[T \ {first(T)}]]
          <5> HIDE DEF step
          <5>1. pick[T] = first(T)
            BY <2>2, <3>2
          <5> HIDE DEF pick
          <5>2. QED
            BY <3>1, <3>2, <5>1 DEF Recursion
        <4> HIDE DEF step
        <4>3. QED
          BY <2>3, <4>1, <4>2
      <3>3. f[{}] = 0 /\ f = [T \in SUBSET rows |-> f[T]]
        <4> HIDE DEF pick, step
        <4>1. QED
          BY <3>1 DEF Recursion
      <3>4. Right(f)
        <4> HIDE DEF step, pick
        <4>1. QED
          BY <3>2, <3>3
      <3>5. QED
        BY <3>4
    <2>5. Right(g)
      <3> HIDE DEF Right
      <3>1. QED
        BY <2>4
    <2>6. MapThenSumSet(LAMBDA k : table[k][<<"performanceUSD", p>>], rows) = g[rows]
      BY DEF MapThenSumSet, MapThenFoldSet
    <2> HIDE DEF g
    <2>7. g[rows] \in Nat
      <3> DEFINE Reached == {n \in Nat : \A T \in SUBSET rows :
                                            Cardinality(T) <= n => g[T] \in Nat}
      <3>1. ASSUME NEW T \in SUBSET rows
            PROVE  /\ IsFiniteSet(T) /\ Cardinality(T) \in Nat
                   /\ Cardinality(T) = 0 <=> T = {}
        <4> HIDE DEF rows
        <4>1. QED
          BY <1>1, FS_Subset, FS_CardinalityType, FS_EmptySet
      <3>2. 0 \in Reached
        <4>1. g[{}] = 0
          BY <2>5
        <4>2. ASSUME NEW T \in SUBSET rows, Cardinality(T) <= 0 PROVE T = {}
          BY <3>1, <4>2
        <4> HIDE DEF rows
        <4>3. QED
          BY <4>1, <4>2
      <3>3. ASSUME NEW n \in Nat, n \in Reached PROVE n + 1 \in Reached
        <4>1. ASSUME NEW T \in SUBSET rows, Cardinality(T) <= n + 1 PROVE g[T] \in Nat
          <5>1. CASE T = {}
            BY <2>5, <5>1
          <5>2. CASE T # {}
            <6>1. first(T) \in T /\ first(T) \in rows /\ T \ {first(T)} \in SUBSET rows
              BY <2>2, <5>2
            <6> HIDE DEF first, rows, e
            <6>2. Cardinality(T \ {first(T)}) = Cardinality(T) - 1
              BY <3>1, <6>1, FS_RemoveElement
            <6>3. Cardinality(T \ {first(T)}) <= n
              BY <3>1, <4>1, <6>2
            <6>4. g[T \ {first(T)}] \in Nat
              BY <3>3, <6>1, <6>3
            <6>5. g[T] = table[first(T)][e] + g[T \ {first(T)}]
              BY <2>5, <5>2
            <6>6. QED
              BY <2>1, <6>1, <6>4, <6>5
          <5>3. QED
            BY <5>1, <5>2
        <4> HIDE DEF rows
        <4>2. QED
          BY <4>1
      <3> HIDE DEF Reached
      <3>4. Nat \subseteq Reached
        BY <3>2, <3>3, InductiveSet
      <3>5. rows \in SUBSET rows /\ Cardinality(rows) \in Nat
        BY <3>1
      <3>6. Cardinality(rows) \in Reached
        BY <3>4, <3>5
      <3>7. QED
        BY <3>5, <3>6 DEF Reached
    <2>8. QED
      BY <2>6, <2>7
  <1>3. TotalOf(table) = [p \in Places |->
             MapThenSumSet(LAMBDA k : table[k][<<"performanceUSD", p>>], rows)]
    BY DEF TotalOf
  <1> HIDE DEF rows
  <1>4. QED
    BY <1>2, <1>3

(***************************************************************************)
(* The rows of the wallet, in the database and in the memory of a session, *)
(* hold numbers.                                                           *)
(***************************************************************************)
NumbersInv ==
    /\ walletRow \in WalletRows
    /\ session \in [Sessions -> SessionStates]
    /\ overlap \in BOOLEAN

LEMMA IdleNumbers == Idle \in SessionStates /\ Idle.wallet \in WalletRows
  <1>1. [p \in Places |-> 0] \in [Places -> Nat]
    OBVIOUS
  <1>2. [start |-> 0, summary |-> [p \in Places |-> 0]] \in WalletRows
    BY <1>1 DEF WalletRows
  <1>3. 0 \in 0 .. MaxAnalyses
    BY SummaryAssumption
  <1>4. Idle.wallet \in WalletRows
    BY <1>2 DEF Idle
  <1>5. QED
    BY <1>2, <1>3, <1>4 DEF Idle, SessionStates

LEMMA NumbersStep ==
    ASSUME TypeInv, NumbersInv, [OpenNext]_vars
    PROVE  NumbersInv'
  <1>1. ASSUME UNCHANGED <<walletRow, session, overlap>> PROVE NumbersInv'
    BY <1>1 DEF NumbersInv
  <1>2. ASSUME NEW s \in Sessions, NEW to \in SessionStates, SessionMoves(s, to),
               walletRow' \in WalletRows
        PROVE  NumbersInv'
    BY <1>2 DEF NumbersInv, SessionMoves
  <1>3. ASSUME NEW s \in Sessions, NEW from \in Timestamps, NEW concurrent \in BOOLEAN,
               NEW stored, Begin(s, from, concurrent, stored)
        PROVE  NumbersInv'
    <2> DEFINE new == [Idle EXCEPT !.pc = "processing", !.id = analyses + 1,
                                   !.concurrent = concurrent, !.from = from]
    <2>1. session' = [session EXCEPT ![s] = new] /\ UNCHANGED walletRow
      BY <1>3 DEF Begin
    <2>2. analyses + 1 \in 0 .. MaxAnalyses /\ from \in Nat
      BY <1>3, SummaryAssumption DEF Begin, TypeInv
    <2>3. new \in SessionStates
      BY <2>2, IdleNumbers DEF SessionStates
    <2>4. overlap' \in BOOLEAN
      BY <1>3 DEF Begin
    <2> HIDE DEF new
    <2>5. QED
      BY <2>1, <2>3, <2>4 DEF NumbersInv
  <1>4. ASSUME NEW s \in Sessions, NEW pc \in {"done", "failed"}
        PROVE  [session[s] EXCEPT !.pc = pc] \in SessionStates
    <2>1. session[s] \in SessionStates
      BY DEF NumbersInv
    <2>2. QED
      BY <2>1 DEF SessionStates
  <1>5. ASSUME NEW s \in Sessions, NEW t \in Transactions, Throws(s, t) PROVE NumbersInv'
    <2>1. UNCHANGED <<walletRow, overlap>>
      BY <1>5 DEF Throws, Move
    <2>2. session' = session \/ session' = [session EXCEPT ![s].pc = "failed"]
      BY <1>5 DEF Throws
    <2>3. session' = session \/ session' = [session EXCEPT ![s] = [session[s] EXCEPT !.pc = "failed"]]
      BY <2>2 DEF NumbersInv
    <2>4. QED
      BY <1>4, <2>1, <2>3 DEF NumbersInv
  <1>6. ASSUME NEW s \in Sessions, NEW t \in Transactions,
               TaskStep(s, t) \/ LatePrice(s, t)
        PROVE  NumbersInv'
    <2>1. CASE Throws(s, t)
      BY <1>5, <2>1
    <2>2. CASE ~ Throws(s, t)
      <3>1. \/ ReceiptArrives(s, t) \/ FindRow(s, t) \/ PricesArrive(s, t) \/ SaveSelect(s, t)
            \/ DuplicateEntry(s, t) \/ SaveWrite(s, t) \/ LatePrice(s, t)
        BY <1>6, <2>2 DEF TaskStep, FindFails, PriceFails, SaveFails
      <3>2. (\E to : Move(s, t, to)) /\ UNCHANGED session
        <4>1. CASE ReceiptArrives(s, t)
          BY <2>2, <4>1 DEF ReceiptArrives
        <4>2. CASE FindRow(s, t)
          BY <4>2 DEF FindRow
        <4>3. CASE PricesArrive(s, t)
          BY <4>3 DEF PricesArrive
        <4>4. CASE SaveSelect(s, t)
          BY <4>4 DEF SaveSelect
        <4>5. CASE DuplicateEntry(s, t)
          BY <4>5 DEF DuplicateEntry
        <4>6. CASE SaveWrite(s, t)
          BY <4>6 DEF SaveWrite
        <4>7. CASE LatePrice(s, t)
          BY <4>7 DEF LatePrice
        <4>8. QED
          BY <3>1, <4>1, <4>2, <4>3, <4>4, <4>5, <4>6, <4>7
      <3>3. UNCHANGED <<walletRow, session, overlap>>
        BY <3>2 DEF Move
      <3>4. QED
        BY <1>1, <3>3
    <2>3. QED
      BY <2>1, <2>2
  <1>7. ASSUME NEW s \in Sessions, LoadWallet(s) PROVE NumbersInv'
    <2> DEFINE wallet == IF walletRow.start < session[s].from
                         THEN [walletRow EXCEPT !.start = session[s].from]
                         ELSE walletRow
               to == [session[s] EXCEPT !.pc = "loaded", !.wallet = wallet]
    <2>1. SessionMoves(s, to) /\ UNCHANGED walletRow
      BY <1>7 DEF LoadWallet
    <2>2. session[s] \in SessionStates /\ walletRow \in WalletRows
      BY DEF NumbersInv
    <2>3. wallet \in WalletRows
      BY <2>2 DEF WalletRows, SessionStates
    <2> HIDE DEF wallet
    <2>4. to \in SessionStates
      BY <2>2, <2>3 DEF SessionStates
    <2> HIDE DEF to
    <2>5. QED
      BY <1>2, <2>1, <2>2, <2>4
  <1>8. ASSUME NEW s \in Sessions, SumRows(s) PROVE NumbersInv'
    <2> DEFINE total == TotalOf(tokenTable)
               to == [session[s] EXCEPT !.pc = "summed", !.wallet.summary = total]
    <2>1. SessionMoves(s, to) /\ UNCHANGED walletRow
      BY <1>8 DEF SumRows
    <2>2. session[s] \in SessionStates /\ walletRow \in WalletRows
      BY DEF NumbersInv
    <2>3. total \in [Places -> Nat]
      BY TotalType DEF TypeInv
    <2> HIDE DEF total
    <2>4. to \in SessionStates
      BY <2>2, <2>3 DEF SessionStates, WalletRows
    <2> HIDE DEF to
    <2>5. QED
      BY <1>2, <2>1, <2>2, <2>4
  <1>9. ASSUME NEW s \in Sessions, SaveWallet(s) PROVE NumbersInv'
    <2>1. walletRow' = session[s].wallet /\ SessionMoves(s, [session[s] EXCEPT !.pc = "done"])
      BY <1>9 DEF SaveWallet
    <2>2. session[s].wallet \in WalletRows
      BY DEF NumbersInv, SessionStates
    <2>3. QED
      BY <1>2, <1>4, <2>1, <2>2
  <1>10. ASSUME NEW s \in Sessions, SummaryFails(s) PROVE NumbersInv'
    <2>1. UNCHANGED walletRow /\ SessionMoves(s, [session[s] EXCEPT !.pc = "failed"])
      BY <1>10 DEF SummaryFails
    <2>2. walletRow' \in WalletRows
      BY <2>1 DEF NumbersInv
    <2>3. QED
      BY <1>2, <1>4, <2>1, <2>2
  <1>11. CASE ProcessEnds
    BY <1>11, IdleNumbers DEF ProcessEnds, NumbersInv
  <1>12. CASE UNCHANGED vars
    BY <1>1, <1>12 DEF vars
  <1>13. ASSUME NEW s \in Sessions, Drops(s) PROVE NumbersInv'
    BY <1>13, IdleNumbers DEF Drops, NumbersInv
  <1>14. CASE RowPut
    BY <1>14 DEF RowPut, NumbersInv
  <1>15. QED
    BY <1>3, <1>6, <1>7, <1>8, <1>9, <1>10, <1>11, <1>12, <1>13, <1>14
       DEF OpenNext, RunNext, Starts, SessionStep

LEMMA NumbersInvariant == Spec => []NumbersInv
  <1>1. Init => NumbersInv
    BY IdleNumbers DEF Init, NumbersInv
  <1>2. TypeInv /\ NumbersInv /\ [Next]_vars => NumbersInv'
    BY NumbersStep, NextIsOpen
  <1>3. QED
    BY <1>1, <1>2, TypeInvariant, PTL DEF Spec

LEMMA NumbersMeanTypes == ASSUME TypeInv, NumbersInv PROVE TypeOK
  BY DEF TypeInv, NumbersInv, TypeOK

(***************************************************************************)
(* The types, for any number of rows: the counts of a row, and the sums    *)
(* over the rows in the wallet's summary, are numbers.                     *)
(***************************************************************************)
THEOREM TypeCorrect == Spec => []TypeOK
  <1>1. TypeInv /\ NumbersInv => TypeOK
    BY NumbersMeanTypes
  <1>2. QED
    BY <1>1, TypeInvariant, NumbersInvariant, PTL

-----------------------------------------------------------------------------
(***************************************************************************)
(* One analysis by itself, with no other that writes: what it has saved    *)
(* counts in its row, and what it sums up is all of it.                    *)
(***************************************************************************)
SavedIn(s, t) ==
    task[s][t].pc = "saved" =>
        /\ task[s][t].token \in Tokens
        /\ \A e \in Entries : e[2] \in Counted(t, task[s][t].at) /\ Awaited(e[2])
              => RowOf(task[s][t].token)[e] > 0

Settled(s) ==
    /\ session[s].pc \notin {"processing", "failed"} => \A t \in Transactions : Ended(s, t)
    /\ session[s].pc = "summed" => session[s].wallet.summary = TotalOf(tokenTable)
    /\ session[s].pc = "done" => walletRow.summary = TotalOf(tokenTable)

ByItself(s) == OneByOne /\ Settled(s) /\ \A t \in Transactions : SavedIn(s, t)

(***************************************************************************)
(* A step on a transaction: only a write ends it well, nothing takes it    *)
(* back, and one at a time it does not end the call.                       *)
(***************************************************************************)
LEMMA TaskMoves ==
    ASSUME TypeInv, NEW s \in Sessions, NEW t \in Transactions, TaskStep(s, t)
    PROVE  /\ ~ Ended(s, t)
           /\ \A r \in Sessions, u \in Transactions : r # s \/ u # t => task'[r][u] = task[r][u]
           /\ task'[s][t].pc # "off"
           /\ task'[s][t].pc = "saved" => SaveWrite(s, t)
           /\ SaveWrite(s, t) \/ UNCHANGED tokenTable
           /\ UNCHANGED <<walletRow, analyses>>
           /\ ~ session[s].concurrent => session' = session
  <1> DEFINE Moved(to) == Move(s, t, to) /\ (to.pc = "saved" => SaveWrite(s, t)) /\ to.pc # "off"
  <1>1. ASSUME NEW to, Moved(to)
        PROVE  /\ \A r \in Sessions, u \in Transactions :
                      r # s \/ u # t => task'[r][u] = task[r][u]
               /\ task'[s][t].pc # "off"
               /\ task'[s][t].pc = "saved" => SaveWrite(s, t)
               /\ UNCHANGED <<walletRow, analyses>>
    <2>1. task' = [task EXCEPT ![s][t] = to] /\ UNCHANGED <<walletRow, analyses>>
      BY <1>1 DEF Move
    <2>2. \A r \in Sessions, u \in Transactions :
              task'[r][u] = IF r = s /\ u = t THEN to ELSE task[r][u]
      BY <2>1 DEF TypeInv
    <2>3. QED
      BY <1>1, <2>1, <2>2
  <1>2. ASSUME Throws(s, t)
        PROVE  /\ \E to : Moved(to)
               /\ UNCHANGED tokenTable
               /\ ~ session[s].concurrent => session' = session
    <2>1. Move(s, t, [task[s][t] EXCEPT !.pc = "failed"])
      BY <1>2 DEF Throws
    <2>2. [task[s][t] EXCEPT !.pc = "failed"].pc = "failed"
      BY DEF TypeInv, TaskStates
    <2>3. Moved([task[s][t] EXCEPT !.pc = "failed"])
      BY <2>1, <2>2
    <2> HIDE DEF Moved
    <2>4. QED
      BY <1>2, <2>3 DEF Throws
  <1>3. CASE Throws(s, t)
    <2>1. ~ Ended(s, t)
      <3>1. CASE ReceiptArrives(s, t)
        BY <3>1 DEF ReceiptArrives, Ended
      <3>2. CASE FindRow(s, t) \/ FindFails(s, t)
        BY <3>2 DEF FindRow, FindFails, Ended
      <3>3. CASE PricesArrive(s, t) \/ PriceFails(s, t)
        BY <3>3 DEF PricesArrive, PriceFails, Ended
      <3>4. CASE SaveSelect(s, t) \/ DuplicateEntry(s, t) \/ SaveFails(s, t)
        BY <3>4 DEF SaveSelect, DuplicateEntry, SaveFails, Ended
      <3>5. CASE SaveWrite(s, t)
        BY <3>5, WriteEffect DEF Ended
      <3>6. QED
        BY <3>1, <3>2, <3>3, <3>4, <3>5 DEF TaskStep
    <2> HIDE DEF Moved
    <2>2. QED
      BY <1>1, <1>2, <1>3, <2>1
  <1>4. ASSUME ~ Throws(s, t)
        PROVE  \/ ReceiptArrives(s, t) \/ FindRow(s, t) \/ PricesArrive(s, t)
               \/ SaveSelect(s, t) \/ DuplicateEntry(s, t) \/ SaveWrite(s, t)
    BY <1>4 DEF TaskStep, FindFails, PriceFails, SaveFails
  <1>5. ASSUME NEW to \in TaskStates, Moves(s, t, to), to.pc \notin {"off", "saved"}
        PROVE  Moved(to)
    BY <1>5 DEF Moves
  <1> DEFINE Effect == /\ ~ Ended(s, t) /\ session' = session
                       /\ SaveWrite(s, t) \/ UNCHANGED tokenTable
                       /\ \E to : Moved(to)
  <1> HIDE DEF Moved
  <1>6. CASE ReceiptArrives(s, t) /\ ~ Throws(s, t)
    <2>1. /\ UNCHANGED <<session, tokenTable, applied>>
          /\ \E to \in TaskStates : Moves(s, t, to) /\ to.pc = "find"
      BY <1>6, ReceiptEffect
    <2>2. ~ Ended(s, t)
      BY <1>6 DEF ReceiptArrives, Ended
    <2>3. QED
      BY <1>1, <1>5, <2>1, <2>2
  <1>7. CASE FindRow(s, t)
    <2>1. UNCHANGED <<session, tokenTable, applied>> /\ task[s][t].pc = "find"
      BY <1>7, FindEffect
    <2>2. \E to \in TaskStates : Moves(s, t, to) /\ to.pc \in {"find", "price", "select"}
      <3> DEFINE at == task[s][t].at
                 row == tokenTable[Summary[t][at].token]
      <3>1. at \in Candidates(t)
        BY <1>7, FindEffect
      <3>2. PICK to \in TaskStates :
               /\ Moves(s, t, to)
               /\ \/ row # NoRow /\ row \in Counts /\ to = MainFound(t, at, row)
                  \/ to.pc = "find"
                  \/ \E first \in Candidates(t) : to = MainFound(t, first, Nothing)
        BY <1>7, FindEffect
      <3>3. Nothing \in Counts
        BY DEF Nothing, Counts
      <3> HIDE DEF at, row
      <3>4. \A main \in Candidates(t), found \in Counts :
                MainFound(t, main, found).pc \in {"price", "select"}
        BY MainFoundEffect
      <3>5. to.pc \in {"find", "price", "select"}
        BY <3>1, <3>2, <3>3, <3>4
      <3>6. QED
        BY <3>2, <3>5
    <2>3. ~ Ended(s, t)
      BY <2>1 DEF Ended
    <2>4. QED
      BY <1>1, <1>5, <2>1, <2>2, <2>3
  <1>8. CASE PricesArrive(s, t)
    <2>1. /\ UNCHANGED <<session, tokenTable, applied>> /\ task[s][t].pc = "price"
          /\ \E to \in TaskStates : Moves(s, t, to) /\ to.pc = "select"
      BY <1>8, PricesEffect
    <2>2. ~ Ended(s, t)
      BY <2>1 DEF Ended
    <2>3. QED
      BY <1>1, <1>5, <2>1, <2>2
  <1>9. CASE SaveSelect(s, t)
    <2>1. /\ UNCHANGED <<session, tokenTable, applied>> /\ task[s][t].pc = "select"
          /\ \E to \in TaskStates : Moves(s, t, to) /\ to.pc \in {"insert", "update"}
      BY <1>9, SelectEffect
    <2>2. ~ Ended(s, t)
      BY <2>1 DEF Ended
    <2>3. QED
      BY <1>1, <1>5, <2>1, <2>2
  <1>10. CASE DuplicateEntry(s, t)
    <2>1. /\ UNCHANGED <<session, tokenTable, applied>> /\ task[s][t].pc = "insert"
          /\ \E to \in TaskStates : Moves(s, t, to) /\ to.pc = "select"
      BY <1>10, DuplicateEffect
    <2>2. ~ Ended(s, t)
      BY <2>1 DEF Ended
    <2>3. QED
      BY <1>1, <1>5, <2>1, <2>2
  <1>11. CASE SaveWrite(s, t)
    <2>1. /\ session' = session /\ task[s][t].pc \in {"insert", "update"}
          /\ \E to \in TaskStates : Moves(s, t, to) /\ to.pc = "saved"
      BY <1>11, WriteEffect
    <2>2. PICK to \in TaskStates : Moves(s, t, to) /\ to.pc = "saved"
      BY <2>1
    <2>3. Moved(to)
      BY <1>11, <2>2 DEF Moved, Moves
    <2>4. ~ Ended(s, t)
      BY <2>1 DEF Ended
    <2>5. QED
      BY <1>1, <1>11, <2>1, <2>3, <2>4
  <1>12. QED
    BY <1>3, <1>4, <1>6, <1>7, <1>8, <1>9, <1>10, <1>11

LEMMA LateMoves ==
    ASSUME TypeInv, NEW s \in Sessions, NEW t \in Transactions, LatePrice(s, t)
    PROVE  /\ UNCHANGED <<session, tokenTable, walletRow, analyses>>
           /\ task[s][t].late # {}
           /\ \A r \in Sessions, u \in Transactions :
                 /\ task'[r][u].pc = task[r][u].pc
                 /\ task'[r][u].at = task[r][u].at
                 /\ task'[r][u].token = task[r][u].token
  <1>0. PICK p \in task[s][t].late : \E to \in TaskStates :
            /\ Moves(s, t, to)
            /\ to.pc = task[s][t].pc /\ to.at = task[s][t].at
            /\ to.token = task[s][t].token /\ to.seen = task[s][t].seen
            /\ to.late = task[s][t].late \ {p}
            /\ \A e \in Entries : to.counted[e] = task[s][t].counted[e] + One(e, {p})
    BY LateEffect
  <1>1. PICK to \in TaskStates : /\ Moves(s, t, to)
                                 /\ to.pc = task[s][t].pc /\ to.at = task[s][t].at
                                 /\ to.token = task[s][t].token
    BY <1>0
  <1>2. UNCHANGED <<session, tokenTable>> /\ task[s][t].late # {}
    BY <1>0, LateEffect
  <1>3. task' = [task EXCEPT ![s][t] = to] /\ UNCHANGED <<walletRow, analyses>>
    BY <1>1 DEF Moves, Move
  <1>4. \A r \in Sessions, u \in Transactions :
            task'[r][u] = IF r = s /\ u = t THEN to ELSE task[r][u]
    BY <1>3 DEF TypeInv
  <1>5. QED
    BY <1>1, <1>2, <1>3, <1>4

(***************************************************************************)
(* A call touches its own objects only, and an idle one does nothing.      *)
(***************************************************************************)
LEMMA OwnMoves ==
    ASSUME TypeInv, NEW s \in Sessions,
           \/ SessionStep(s) \/ Starts(s) \/ Drops(s)
           \/ \E t \in Transactions : LatePrice(s, t)
    PROVE  \A r \in Sessions \ {s} : /\ session'[r] = session[r]
                                     /\ \A u \in Transactions : task'[r][u] = task[r][u]
  <1>1. ASSUME NEW t \in Transactions, TaskStep(s, t)
        PROVE  \A r \in Sessions \ {s} : /\ session'[r] = session[r]
                                         /\ \A u \in Transactions : task'[r][u] = task[r][u]
    <2>1. session' = session \/ session' = [session EXCEPT ![s].pc = "failed"]
      <3>1. ASSUME Throws(s, t)
            PROVE  session' = session \/ session' = [session EXCEPT ![s].pc = "failed"]
        BY <3>1 DEF Throws
      <3>2. CASE ReceiptArrives(s, t) \/ FindFails(s, t) \/ PriceFails(s, t) \/ SaveFails(s, t)
        BY <3>1, <3>2, Zenon DEF ReceiptArrives, FindFails, PriceFails, SaveFails
      <3>3. CASE FindRow(s, t) \/ PricesArrive(s, t) \/ SaveSelect(s, t)
        BY <3>3, Zenon DEF FindRow, PricesArrive, SaveSelect
      <3>4. CASE DuplicateEntry(s, t) \/ SaveWrite(s, t)
        BY <3>4, Zenon DEF DuplicateEntry, SaveWrite
      <3>5. QED
        BY <1>1, <3>2, <3>3, <3>4 DEF TaskStep
    <2>2. \A r \in Sessions \ {s} : session'[r] = session[r]
      BY <2>1 DEF TypeInv
    <2>3. QED
      BY <1>1, <2>2, TaskMoves
  <1>2. ASSUME NEW t \in Transactions, LatePrice(s, t)
        PROVE  \A r \in Sessions \ {s} : /\ session'[r] = session[r]
                                         /\ \A u \in Transactions : task'[r][u] = task[r][u]
    <2>1. PICK to \in TaskStates : Moves(s, t, to)
      BY <1>2, LateEffect
    <2>2. task' = [task EXCEPT ![s][t] = to] /\ session' = session
      BY <1>2, <2>1, LateEffect DEF Moves, Move
    <2>3. QED
      BY <2>2 DEF TypeInv
  <1>3. CASE LoadWallet(s) \/ SumRows(s) \/ SaveWallet(s) \/ SummaryFails(s)
    <2>1. \E to : SessionMoves(s, to)
      BY <1>3, Zenon DEF LoadWallet, SumRows, SaveWallet, SummaryFails
    <2>2. QED
      BY <2>1 DEF SessionMoves, TypeInv
  <1>4. CASE Starts(s)
    BY <1>4, BeginEffect DEF Starts
  <1>5. CASE Drops(s)
    BY <1>5, DropsEffect
  <1>6. QED
    BY <1>1, <1>2, <1>3, <1>4, <1>5 DEF SessionStep

LEMMA StepsAreBusy == ASSUME TypeInv, NEW s \in Sessions, SessionStep(s) PROVE Busy(s)
  <1>1. ASSUME NEW t \in Transactions, TaskStep(s, t) PROVE Busy(s)
    BY <1>1, TaskMoves DEF Busy
  <1>2. CASE LoadWallet(s) \/ SumRows(s) \/ SaveWallet(s) \/ SummaryFails(s)
    BY <1>2 DEF LoadWallet, SumRows, SaveWallet, SummaryFails, Busy
  <1>3. QED
    BY <1>1, <1>2 DEF SessionStep

LEMMA SavedStays ==
    ASSUME NEW s \in Sessions, NEW t \in Transactions, SavedIn(s, t), UNCHANGED tokenTable,
           /\ task'[s][t].pc = task[s][t].pc
           /\ task'[s][t].at = task[s][t].at
           /\ task'[s][t].token = task[s][t].token
    PROVE  SavedIn(s, t)'
  BY DEF SavedIn, RowOf

LEMMA SavedByWrite ==
    ASSUME TypeInv, NEW s \in Sessions, ByItself(s), NEW t \in Transactions, SaveWrite(s, t)
    PROVE  \A u \in Transactions : SavedIn(s, u)'
  <1> SUFFICES ASSUME NEW u \in Transactions, task'[s][u].pc = "saved"
               PROVE  /\ task'[s][u].token \in Tokens
                      /\ \A n \in Tokens : n = task'[s][u].token =>
                            \A e \in Entries :
                               e[2] \in Counted(u, task'[s][u].at) /\ Awaited(e[2])
                               => RowOf(n)'[e] > 0
    BY DEF SavedIn, Counted, Directed, Fallback, Awaited, NotAwaited, Candidates, Entries, Places,
           RowOf, Nothing
  <1>1. \A n \in Tokens, e \in Entries : Awaited(e[2]) =>
            RowOf(n)'[e] = RowOf(n)[e] + (IF n = task[s][t].token
                                          THEN One(e, Counted(t, task[s][t].at))
                                          ELSE 0)
    BY ExactByWrite DEF ByItself
  <1>2. \A n \in Tokens, e \in Entries : RowOf(n)[e] \in Nat
    BY DEF TypeInv, RowOf, Counts, Nothing
  <1>3. CASE u = t
    <2>1. PICK to : Moves(s, t, to) /\ Keeps(task[s][t], to) /\ task[s][t].token \in Tokens
      BY WriteEffect
    <2>2. task'[s][t] = to
      BY <2>1 DEF Moves, Move, TypeInv
    <2>3. task'[s][u].token = task[s][t].token /\ task'[s][u].at = task[s][t].at
      BY <1>3, <2>1, <2>2 DEF Keeps
    <2>4. QED
      BY <1>1, <1>2, <1>3, <2>1, <2>3 DEF One
  <1>4. CASE u # t
    <2>1. task'[s][u] = task[s][u]
      BY <1>4, TaskMoves DEF TaskStep
    <2>2. /\ task[s][u].token \in Tokens
          /\ \A e \in Entries : e[2] \in Counted(u, task[s][u].at) /\ Awaited(e[2])
                => RowOf(task[s][u].token)[e] > 0
      BY <2>1 DEF ByItself, SavedIn
    <2>3. QED
      BY <1>1, <1>2, <2>1, <2>2 DEF One
  <1>5. QED
    BY <1>3, <1>4

LEMMA ByItselfStart ==
    ASSUME TypeInv, NEW s \in Sessions, NEW from \in Timestamps,
           NEW stored \in SUBSET Transactions, Begin(s, from, FALSE, stored),
           \A r \in Sessions \ {s} : ~ Busy(r)
    PROVE  ByItself(s)'
  <1>1. /\ session'[s].pc = "processing"
        /\ \A t \in Transactions : task'[s][t].pc \in {"off", "receipt"}
    BY BeginEffect
  <1>2. Settled(s)'
    BY <1>1 DEF Settled
  <1>3. \A t \in Transactions : SavedIn(s, t)'
    BY <1>1 DEF SavedIn
  <1>4. QED
    BY <1>2, <1>3, OneByOneStart DEF ByItself

LEMMA ByItselfStep ==
    ASSUME TypeInv, NEW s \in Sessions, ByItself(s),
           SessionStep(s) \/ (\E t \in Transactions : LatePrice(s, t)) \/ UNCHANGED vars
    PROVE  ByItself(s)'
  <1>1. OneByOne'
    BY OneByOneStep DEF ByItself, RunNext
  <1>2. ASSUME UNCHANGED <<session, tokenTable, walletRow>>,
               \A t \in Transactions : /\ task'[s][t].pc = task[s][t].pc
                                       /\ task'[s][t].at = task[s][t].at
                                       /\ task'[s][t].token = task[s][t].token
        PROVE  ByItself(s)'
    <2>1. Settled(s)'
      BY <1>2 DEF ByItself, Settled, Ended
    <2>2. \A t \in Transactions : SavedIn(s, t)'
      BY <1>2, SavedStays DEF ByItself
    <2>3. QED
      BY <1>1, <2>1, <2>2 DEF ByItself
  <1>3. ASSUME NEW t \in Transactions, LatePrice(s, t) PROVE ByItself(s)'
    BY <1>2, <1>3, LateMoves
  <1>4. CASE UNCHANGED vars
    BY <1>2, <1>4 DEF vars
  <1>5. ASSUME NEW t \in Transactions, TaskStep(s, t) PROVE ByItself(s)'
    <2>1. ~ Ended(s, t) /\ ~ session[s].concurrent
      BY <1>5, TaskMoves DEF ByItself, OneByOne, Alone
    <2>2. session' = session /\ session[s].pc \in {"processing", "failed"}
      BY <1>5, <2>1, TaskMoves DEF ByItself, Settled
    <2>3. Settled(s)'
      BY <2>2 DEF Settled
    <2>4. CASE SaveWrite(s, t)
      BY <1>1, <2>3, <2>4, SavedByWrite DEF ByItself
    <2>5. CASE ~ SaveWrite(s, t)
      <3>1. /\ UNCHANGED tokenTable
            /\ task'[s][t].pc # "saved"
            /\ \A u \in Transactions \ {t} : task'[s][u] = task[s][u]
        BY <1>5, <2>5, TaskMoves
      <3>2. \A u \in Transactions \ {t} : SavedIn(s, u)'
        BY <3>1, SavedStays DEF ByItself
      <3>3. SavedIn(s, t)'
        BY <3>1 DEF SavedIn
      <3>4. QED
        BY <1>1, <2>3, <3>2, <3>3 DEF ByItself
    <2>6. QED
      BY <2>4, <2>5
  <1>6. ASSUME NEW to, SessionMoves(s, to), to.pc \in {"loaded", "summed", "done", "failed"},
               to.pc # "failed" => \A t \in Transactions : Ended(s, t),
               to.pc = "summed" => to.wallet.summary = TotalOf(tokenTable),
               to.pc = "done" => walletRow'.summary = TotalOf(tokenTable)
        PROVE  ByItself(s)'
    <2>1. session'[s] = to /\ UNCHANGED <<tokenTable, task>>
      BY <1>6 DEF SessionMoves, TypeInv
    <2>2. Settled(s)'
      BY <1>6, <2>1 DEF Settled, Ended
    <2>3. \A t \in Transactions : SavedIn(s, t)'
      BY <2>1, SavedStays DEF ByItself
    <2>4. QED
      BY <1>1, <2>2, <2>3 DEF ByItself
  <1>7. CASE LoadWallet(s)
    <2>1. PICK to : SessionMoves(s, to) /\ to.pc = "loaded"
      BY <1>7, LoadEffect
    <2>2. \A t \in Transactions : Ended(s, t)
      BY <1>7 DEF LoadWallet
    <2>3. QED
      BY <1>6, <2>1, <2>2
  <1>8. CASE SumRows(s)
    <2>1. PICK to : /\ SessionMoves(s, to) /\ to.pc = "summed"
                    /\ to.wallet.summary = TotalOf(tokenTable)
      BY <1>8, SumEffect
    <2>2. \A t \in Transactions : Ended(s, t)
      BY <1>8 DEF SumRows, ByItself, Settled
    <2>3. QED
      BY <1>6, <2>1, <2>2
  <1>9. CASE SaveWallet(s)
    <2>1. /\ SessionMoves(s, [session[s] EXCEPT !.pc = "done"]) /\ session[s].pc = "summed"
          /\ walletRow' = session[s].wallet
      BY <1>9 DEF SaveWallet
    <2>2. PICK to : SessionMoves(s, to) /\ to.pc = "done"
      BY <2>1, SettleEffect
    <2>3. (\A t \in Transactions : Ended(s, t)) /\ walletRow'.summary = TotalOf(tokenTable)
      BY <2>1 DEF ByItself, Settled
    <2>4. QED
      BY <1>6, <2>2, <2>3
  <1>10. CASE SummaryFails(s)
    <2>1. SessionMoves(s, [session[s] EXCEPT !.pc = "failed"])
      BY <1>10 DEF SummaryFails
    <2>2. PICK to : SessionMoves(s, to) /\ to.pc = "failed"
      BY <2>1, SettleEffect
    <2>3. QED
      BY <1>6, <2>2
  <1>11. QED
    BY <1>3, <1>4, <1>5, <1>7, <1>8, <1>9, <1>10 DEF SessionStep

-----------------------------------------------------------------------------
(***************************************************************************)
(* What holds of the rows whatever runs beside the analyses: the same      *)
(* invariant, for a module that composes them with other code.             *)
(***************************************************************************)
RowsInv == TypeInv /\ NumbersInv /\ IdInv /\ BoundInv /\ ExactInv

LEMMA RowsInit == ASSUME Init PROVE RowsInv
  <1>1. NumbersInv
    BY IdleNumbers DEF Init, NumbersInv
  <1>2. QED
    BY <1>1, TypeInit, BoundInit, ExactInit DEF RowsInv

LEMMA RowsStep == ASSUME RowsInv, [OpenNext]_vars PROVE RowsInv'
  BY TypeStep, NumbersStep, IdStep, BoundStep, ExactStep DEF RowsInv

LEMMA RowsMean == ASSUME RowsInv PROVE TypeOK /\ NothingCountedTwice /\ NoUpdateLost
  BY NumbersMeanTypes, ExactMeansKept DEF RowsInv, BoundInv

=============================================================================
