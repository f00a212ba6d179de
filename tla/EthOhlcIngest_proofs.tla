------------------------ MODULE EthOhlcIngest_proofs ------------------------
(***************************************************************************)
(* Proofs about EthOhlcIngest, for any sessions, chunk lengths and clocks: *)
(* what resuming at the last record keeps true of the price table.         *)
(***************************************************************************)
EXTENDS EthOhlcIngest, TLAPS

Writing == {"save", "insert", "update"}

(***************************************************************************)
(* A call stays between its start and its end, and a chunk that is not the *)
(* last one, or is measured in numbers, was received up to its end.        *)
(***************************************************************************)
Bounds(c) ==
    /\ c.end <= clock
    /\ c.text => asText
    /\ c.pc = "fetch" => c.start < c.end
    /\ c.pc \in Writing \cup {"chunk"} =>
          /\ c.start < c.until /\ c.until <= c.end /\ c.to <= c.until
          /\ c.end <= c.asOf
          /\ (c.until < c.end \/ ~ c.text) /\ ~ c.lagged => c.to >= c.until - 1
    /\ c.pc \in Writing => c.start <= c.next /\ c.next <= c.to

TypeInv ==
    /\ TypeOK
    /\ \A s \in Sessions : Bounds(session[s])
    /\ \A m \in Saved : m <= clock

(***************************************************************************)
(* What is saved has no hole, and what a call is done with is saved.       *)
(***************************************************************************)
Filled(n) == \A m \in Minutes : m < n => m \in Saved

Ahead(c) ==
    /\ c.pc \in Writing \cup {"fetch", "chunk"} => 0 \in Saved
    /\ c.pc = "fetch"    => Filled(c.start)
    /\ c.pc \in Writing  => Filled(c.next)
    /\ c.pc = "chunk"    => Filled(c.to + 1)
    /\ c.pc = "done" /\ ~ asText /\ ~ c.lagged => Filled(c.end)

FillInv ==
    ~ gap => /\ \A m \in Saved : Filled(m)
             /\ \A s \in Sessions : Ahead(session[s])

(***************************************************************************)
(* One call after the other, what a call goes past is final.               *)
(***************************************************************************)
Closed(n) == \A m \in Minutes : m < n => table[m] = "closed"

Final(c) ==
    /\ c.pc \in Writing \cup {"fetch", "chunk"} => \A n \in Saved : n <= c.end
    /\ c.pc = "fetch"                       => Closed(c.start)
    /\ c.pc \in Writing                     => Closed(c.next)
    /\ c.pc = "chunk" /\ c.until < c.end    => Closed(c.to + 1)

OneByOne ==
    /\ \A r, s \in Sessions : Busy(r) /\ Busy(s) => r = s
    /\ \A m, n \in Saved : m < n => table[m] = "closed"
    /\ \A s \in Sessions : Final(session[s])

FinalInv == ~ gap /\ ~ overlap => OneByOne

-----------------------------------------------------------------------------

LEMMA IdleType == Idle \in States
  BY DEF Idle, States

LEMMA MoveTypes ==
    ASSUME TypeInv, NEW s \in Sessions, NEW to \in States, Bounds(to), Move(s, to),
           gap' \in BOOLEAN, overlap' \in BOOLEAN,
           table' \in [Minutes -> Candles \cup {"none"}],
           \A m \in Saved' : m <= clock
    PROVE  TypeInv'
  <1>1. session' \in [Sessions -> States]
    BY DEF TypeInv, TypeOK, Move
  <1>2. \A r \in Sessions : session'[r] = IF r = s THEN to ELSE session[r]
    BY DEF TypeInv, TypeOK, Move
  <1>3. \A r \in Sessions : Bounds(session[r])'
    BY <1>2 DEF TypeInv, Bounds, Move
  <1>4. QED
    BY <1>1, <1>3 DEF TypeInv, TypeOK, Move

(***************************************************************************)
(* What the steps of a call do.                                            *)
(***************************************************************************)
LEMMA BeginEffect ==
    ASSUME TypeInv, NEW s \in Sessions, Begin(s)
    PROVE  /\ UNCHANGED <<clock, asText, table, gap>>
           /\ overlap' = (overlap \/ \E r \in Sessions \ {s} : Busy(r))
           /\ \E last \in Saved : \E to \in States :
                 /\ Move(s, to) /\ Bounds(to)
                 /\ IsLast(last) /\ to.start = last /\ to.end = clock
                 /\ to.pc = IF last < clock THEN "fetch" ELSE "done"
  <1>1. PICK last \in Saved :
            /\ IsLast(last)
            /\ Move(s, [Idle EXCEPT !.pc = IF ResumeAt(last) < clock THEN "fetch" ELSE "done",
                                    !.start = ResumeAt(last),
                                    !.text = asText,
                                    !.end = clock])
    BY DEF Begin
  <1> DEFINE to == [Idle EXCEPT !.pc = IF ResumeAt(last) < clock THEN "fetch" ELSE "done",
                                !.start = ResumeAt(last),
                                !.text = asText,
                                !.end = clock]
  <1>2. last \in Nat /\ clock \in Nat /\ asText \in BOOLEAN
    BY OhlcAssumption DEF TypeInv, TypeOK, Saved, Minutes
  <1>3. /\ to \in States /\ to.start = last /\ to.end = clock /\ to.text = asText
        /\ to.pc = IF last < clock THEN "fetch" ELSE "done"
    BY <1>2, IdleType DEF Idle, States, ResumeAt
  <1>4. Move(s, to)
    BY <1>1
  <1> HIDE DEF to
  <1>5. Bounds(to)
    BY <1>2, <1>3 DEF Bounds, Writing
  <1>6. QED
    BY <1>1, <1>3, <1>4, <1>5 DEF Begin, Move

LEMMA DataEffect ==
    ASSUME TypeInv, NEW s \in Sessions, DataArrives(s)
    PROVE  LET c == session[s]
           IN  /\ UNCHANGED <<clock, asText, table, gap, overlap>> /\ c.pc = "fetch"
               /\ \E to \in States :
                     /\ Move(s, to) /\ Bounds(to)
                     /\ to.start = c.start /\ to.end = c.end /\ to.next = c.start
                     /\ to.to >= c.start - 1
                     /\ to.pc = IF to.to < c.start THEN "chunk" ELSE "save"
  <1> DEFINE c == session[s]
  <1>1. c.pc = "fetch" /\ UNCHANGED <<clock, asText, table, gap, overlap>>
    BY DEF DataArrives, Move
  <1>2. PICK listed \in (c.start - 1) .. NextEnd(c) :
            LET to == IF listed < c.start + MaxSize THEN listed ELSE c.start + MaxSize - 1
            IN  Move(s, [c EXCEPT !.pc = IF to < c.start THEN "chunk" ELSE "save",
                                  !.until = NextEnd(c),
                                  !.next = c.start,
                                  !.to = to,
                                  !.asOf = clock,
                                  !.lagged = @ \/ listed < NextEnd(c) - 1])
    BY DEF DataArrives
  <1> DEFINE last == IF listed < c.start + MaxSize THEN listed ELSE c.start + MaxSize - 1
             after == [c EXCEPT !.pc = IF last < c.start THEN "chunk" ELSE "save",
                                !.until = NextEnd(c),
                                !.next = c.start,
                                !.to = last,
                                !.asOf = clock,
                                !.lagged = @ \/ listed < NextEnd(c) - 1]
  <1>3. c \in States /\ clock \in Nat
    BY OhlcAssumption DEF TypeInv, TypeOK, Minutes
  <1>4. /\ c.start \in Nat /\ c.end \in Nat /\ c.start < c.end /\ c.end <= clock
        /\ c.text \in BOOLEAN /\ (c.text => asText) /\ c.lagged \in BOOLEAN
    BY <1>1, <1>3 DEF TypeInv, Bounds, States
  <1>5. /\ NextEnd(c) \in Nat /\ c.start < NextEnd(c) /\ NextEnd(c) <= c.end
        /\ NextEnd(c) < c.end \/ ~ c.text => NextEnd(c) <= c.start + Chunk
    BY <1>4, OhlcAssumption DEF NextEnd
  <1>6. /\ listed \in Int /\ last \in Int /\ last <= NextEnd(c) /\ last >= c.start - 1
        /\ (NextEnd(c) < c.end \/ ~ c.text) /\ ~ (listed < NextEnd(c) - 1)
              => last >= NextEnd(c) - 1
    BY <1>4, <1>5, OhlcAssumption
  <1>7. Move(s, after)
    BY <1>2
  <1> HIDE DEF last
  <1>8. /\ after \in States /\ after.start = c.start /\ after.end = c.end
        /\ after.next = c.start /\ after.to = last /\ after.until = NextEnd(c)
        /\ after.text = c.text /\ after.asOf = clock
        /\ after.pc = IF last < c.start THEN "chunk" ELSE "save"
        /\ after.lagged = (c.lagged \/ listed < NextEnd(c) - 1)
    BY <1>3, <1>4, <1>5, <1>6 DEF States
  <1> HIDE DEF after
  <1>9. (after.until < after.end \/ ~ after.text) /\ ~ after.lagged
            => after.to >= after.until - 1
    <2>1. ~ after.lagged => ~ (listed < NextEnd(c) - 1)
      BY <1>8, Zenon
    <2>2. QED
      BY <1>6, <1>8, <2>1
  <1>10. Bounds(after)
    <2>1. /\ after.end <= clock /\ (after.text => asText)
          /\ after.pc # "fetch" /\ after.start < after.until /\ after.until <= after.end
          /\ after.to <= after.until /\ after.end <= after.asOf
      BY <1>4, <1>5, <1>6, <1>8
    <2>2. after.pc \in Writing => after.start <= after.next /\ after.next <= after.to
      BY <1>4, <1>6, <1>8 DEF Writing
    <2>3. QED
      BY <1>9, <2>1, <2>2 DEF Bounds
  <1>11. QED
    BY <1>1, <1>6, <1>7, <1>8, <1>10

(***************************************************************************)
(* What a call that fails, stops or goes to the insert or the update does  *)
(* to the call alone.                                                      *)
(***************************************************************************)
Turns(s) == SaveSelect(s) \/ FetchFails(s) \/ SaveFails(s) \/ DuplicateEntry(s)

LEMMA TurnEffect ==
    ASSUME TypeInv, NEW s \in Sessions, Turns(s) \/ NoRecord(s)
    PROVE  /\ UNCHANGED <<clock, asText, table, gap, overlap>>
           /\ \E to \in States :
                 /\ Move(s, to) /\ Bounds(to)
                 /\ \/ to.pc \in {"failed", "stopped"}
                    \/ /\ session[s].pc = "save" /\ to.pc \in {"insert", "update"}
                       /\ to.start = session[s].start /\ to.end = session[s].end
                       /\ to.next = session[s].next
  <1> DEFINE c == session[s]
  <1>1. c \in States /\ Bounds(c)
    BY DEF TypeInv, TypeOK
  <1>2. CASE NoRecord(s)
    <2> DEFINE to == [Idle EXCEPT !.pc = "failed"]
    <2>1. to \in States /\ to.pc = "failed" /\ to.end = 0 /\ to.text = FALSE
      BY IdleType DEF Idle, States
    <2>2. clock \in Nat
      BY OhlcAssumption DEF TypeInv, TypeOK, Minutes
    <2>3. Bounds(to)
      BY <2>1, <2>2 DEF Bounds, Writing
    <2>4. QED
      BY <1>2, <2>1, <2>3 DEF NoRecord, Move
  <1>3. CASE Fail(s)
    <2> DEFINE to == [c EXCEPT !.pc = "failed"]
    <2>1. /\ to \in States /\ to.pc = "failed" /\ to.end = c.end /\ to.text = c.text
      BY <1>1 DEF States
    <2>2. Bounds(to)
      BY <1>1, <2>1 DEF Bounds, Writing
    <2>3. QED
      BY <1>3, <2>1, <2>2 DEF Fail, Move
  <1>4. CASE DuplicateEntry(s)
    <2> DEFINE to == [c EXCEPT !.pc = "stopped"]
    <2>1. /\ to \in States /\ to.pc = "stopped" /\ to.end = c.end /\ to.text = c.text
      BY <1>1 DEF States
    <2>2. Bounds(to)
      BY <1>1, <2>1 DEF Bounds, Writing
    <2>3. QED
      BY <1>4, <2>1, <2>2 DEF DuplicateEntry, Move
  <1>5. CASE SaveSelect(s)
    <2> DEFINE to == [c EXCEPT !.pc = IF table[c.next] = "none" THEN "insert" ELSE "update"]
    <2>1. c.pc = "save"
      BY <1>5 DEF SaveSelect
    <2>2. /\ to \in States /\ to.pc \in {"insert", "update"}
          /\ to.start = c.start /\ to.end = c.end /\ to.text = c.text /\ to.next = c.next
          /\ to.until = c.until /\ to.to = c.to /\ to.asOf = c.asOf /\ to.lagged = c.lagged
      BY <1>1 DEF States
    <2>3. Bounds(to)
      <3> HIDE DEF to
      <3>1. QED
        BY <1>1, <2>1, <2>2 DEF Bounds, Writing
    <2>4. QED
      BY <1>5, <2>1, <2>2, <2>3 DEF SaveSelect, Move
  <1>6. QED
    BY <1>2, <1>3, <1>4, <1>5 DEF Turns, FetchFails, SaveFails

LEMMA SaveEffect ==
    ASSUME TypeInv, NEW s \in Sessions, SaveCandle(s)
    PROVE  LET c == session[s]
           IN  /\ UNCHANGED <<clock, asText, gap, overlap>>
               /\ c.pc \in Writing /\ c.next \in Minutes
               /\ c.pc = "insert" \/ c.pc = "update"
               /\ table' = [table EXCEPT ![c.next] = IF c.next < c.asOf THEN "closed" ELSE "open"]
               /\ Saved' = Saved \cup {c.next}
               /\ \E to \in States :
                     /\ Move(s, to) /\ Bounds(to)
                     /\ to.end = c.end /\ to.next = c.next + 1 /\ to.to = c.to
                     /\ to.until = c.until
                     /\ to.pc = IF c.next < c.to THEN "save" ELSE "chunk"
  <1> DEFINE c == session[s]
             to == [c EXCEPT !.pc = IF c.next < c.to THEN "save" ELSE "chunk",
                             !.next = @ + 1]
  <1>1. /\ UNCHANGED <<clock, asText, gap, overlap>> /\ Move(s, to)
        /\ c.pc = "insert" \/ c.pc = "update"
        /\ table' = [table EXCEPT ![c.next] = IF c.next < c.asOf THEN "closed" ELSE "open"]
    BY DEF SaveCandle, Move
  <1>2. c.pc \in Writing
    BY <1>1 DEF Writing
  <1>3. c \in States /\ Bounds(c)
    BY DEF TypeInv, TypeOK
  <1>4. clock \in Minutes /\ MaxTime \in Nat
    BY OhlcAssumption DEF TypeInv, TypeOK
  <1>5. /\ c.start \in Nat /\ c.next \in Nat /\ c.to \in Int /\ c.until \in Nat
        /\ c.end \in Nat /\ c.asOf \in Nat
        /\ c.start <= c.next /\ c.next <= c.to /\ c.to <= c.until /\ c.until <= c.end
        /\ c.end <= clock
    BY <1>2, <1>3 DEF Bounds, States
  <1>6. c.next \in Minutes
    BY <1>4, <1>5 DEF Minutes
  <1>7. Saved' = Saved \cup {c.next}
    BY <1>1, <1>6 DEF TypeInv, TypeOK, Saved
  <1>8. /\ to \in States
        /\ to.start = c.start /\ to.end = c.end /\ to.text = c.text /\ to.next = c.next + 1
        /\ to.until = c.until /\ to.to = c.to /\ to.asOf = c.asOf /\ to.lagged = c.lagged
        /\ to.pc = IF c.next < c.to THEN "save" ELSE "chunk"
    <2>1. c.next + 1 \in Nat /\ DOMAIN c = DOMAIN to
      BY <1>5
    <2>2. /\ to.start = c.start /\ to.end = c.end /\ to.text = c.text
          /\ to.next = c.next + 1 /\ to.until = c.until /\ to.to = c.to
          /\ to.asOf = c.asOf /\ to.lagged = c.lagged
          /\ to.pc = IF c.next < c.to THEN "save" ELSE "chunk"
      BY <1>3 DEF States
    <2>3. to \in States
      BY <1>3, <2>1 DEF States
    <2>4. QED
      BY <2>2, <2>3
  <1> HIDE DEF to
  <1>9. Bounds(to)
    <2>1. to.pc # "fetch" /\ to.end <= clock /\ (to.text => asText)
      BY <1>3, <1>8 DEF Bounds
    <2>2. /\ to.start < to.until /\ to.until <= to.end /\ to.to <= to.until
          /\ to.end <= to.asOf
          /\ (to.until < to.end \/ ~ to.text) /\ ~ to.lagged => to.to >= to.until - 1
      BY <1>2, <1>3, <1>8 DEF Bounds
    <2>3. to.pc \in Writing => to.start <= to.next /\ to.next <= to.to
      BY <1>5, <1>8 DEF Writing
    <2>4. QED
      BY <2>1, <2>2, <2>3 DEF Bounds
  <1>10. QED
    BY <1>1, <1>2, <1>6, <1>7, <1>8, <1>9

LEMMA ChunkEffect ==
    ASSUME TypeInv, NEW s \in Sessions, ChunkDone(s)
    PROVE  LET c == session[s]
           IN  /\ UNCHANGED <<clock, asText, table, overlap>>
               /\ c.pc = "chunk"
               /\ gap' = (gap \/ (c.until < c.end /\ c.lagged))
               /\ \E to \in States :
                     /\ Move(s, to) /\ Bounds(to)
                     /\ to.start = c.until /\ to.end = c.end /\ to.lagged = c.lagged
                     /\ to.pc = IF c.until < c.end THEN "fetch" ELSE "done"
  <1> DEFINE c == session[s]
             to == [c EXCEPT !.pc = IF c.until < c.end THEN "fetch" ELSE "done",
                             !.start = c.until,
                             !.text = FALSE]
  <1>1. /\ UNCHANGED <<clock, asText, table, overlap>> /\ c.pc = "chunk" /\ Move(s, to)
        /\ gap' = (gap \/ (c.until < c.end /\ c.lagged))
    BY DEF ChunkDone, NextStart, Move
  <1>2. c \in States /\ Bounds(c)
    BY DEF TypeInv, TypeOK
  <1>3. /\ to \in States /\ to.start = c.until /\ to.end = c.end /\ to.lagged = c.lagged
        /\ to.text = FALSE /\ to.pc = IF c.until < c.end THEN "fetch" ELSE "done"
    BY <1>2 DEF States
  <1> HIDE DEF to
  <1>4. Bounds(to)
    BY <1>2, <1>3 DEF Bounds, Writing
  <1>5. QED
    BY <1>1, <1>3, <1>4

-----------------------------------------------------------------------------

LEMMA TypeInvariant == Spec => []TypeInv
  <1>1. Init => TypeInv
    <2> SUFFICES ASSUME Init PROVE TypeInv
      OBVIOUS
    <2>1. TypeOK
      <3>1. table \in [Minutes -> Candles \cup {"none"}]
        BY DEF Init, Candles
      <3>2. session \in [Sessions -> States] /\ clock \in Minutes
        BY IdleType, OhlcAssumption DEF Init, Minutes
      <3>3. QED
        BY <3>1, <3>2 DEF Init, TypeOK
    <2>2. \A s \in Sessions : Bounds(session[s])
      BY DEF Init, Idle, Bounds, Writing
    <2>3. \A m \in Saved : m <= clock
      BY DEF Init, Saved, Minutes
    <2>4. QED
      BY <2>1, <2>2, <2>3 DEF TypeInv
  <1>2. TypeInv /\ [Next]_vars => TypeInv'
    <2> SUFFICES ASSUME TypeInv, [Next]_vars PROVE TypeInv'
      OBVIOUS
    <2>1. /\ gap \in BOOLEAN /\ overlap \in BOOLEAN /\ clock \in Minutes /\ clock \in Int
          /\ table \in [Minutes -> Candles \cup {"none"}]
          /\ session \in [Sessions -> States] /\ MaxTime \in Nat
          /\ \A m \in Saved : m \in Int /\ m <= clock
      BY OhlcAssumption DEF TypeInv, TypeOK, Minutes, Saved
    <2>2. ASSUME NEW s \in Sessions, Begin(s) PROVE TypeInv'
      <3>1. PICK to \in States : Move(s, to) /\ Bounds(to)
        BY <2>2, BeginEffect
      <3>2. UNCHANGED <<clock, table, gap>> /\ overlap' \in BOOLEAN
        BY <2>2, BeginEffect
      <3>3. QED
        BY <2>1, <3>1, <3>2, MoveTypes DEF Saved
    <2>3. ASSUME NEW s \in Sessions, DataArrives(s) PROVE TypeInv'
      <3>1. PICK to \in States : Move(s, to) /\ Bounds(to)
        BY <2>3, DataEffect
      <3>2. UNCHANGED <<clock, table, gap, overlap>>
        BY <2>3, DataEffect
      <3>3. QED
        BY <2>1, <3>1, <3>2, MoveTypes DEF Saved
    <2>4. ASSUME NEW s \in Sessions, Turns(s) \/ NoRecord(s) PROVE TypeInv'
      <3>1. PICK to \in States : Move(s, to) /\ Bounds(to)
        BY <2>4, TurnEffect
      <3>2. UNCHANGED <<clock, table, gap, overlap>>
        BY <2>4, TurnEffect
      <3>3. QED
        BY <2>1, <3>1, <3>2, MoveTypes DEF Saved
    <2>5. ASSUME NEW s \in Sessions, SaveCandle(s) PROVE TypeInv'
      <3>1. PICK to \in States : Move(s, to) /\ Bounds(to)
        BY <2>5, SaveEffect
      <3>2. /\ UNCHANGED <<clock, gap, overlap>> /\ session[s].next \in Minutes
            /\ session[s].pc \in Writing /\ Saved' = Saved \cup {session[s].next}
        BY <2>5, SaveEffect
      <3>3. table' \in [Minutes -> Candles \cup {"none"}]
        BY <2>1, <2>5, <3>2, SaveEffect DEF Candles
      <3>4. session[s].next <= clock
        BY <2>1, <3>2 DEF TypeInv, Bounds, States, Minutes
      <3>5. QED
        BY <2>1, <3>1, <3>2, <3>3, <3>4, MoveTypes
    <2>6. ASSUME NEW s \in Sessions, ChunkDone(s) PROVE TypeInv'
      <3>1. PICK to \in States : Move(s, to) /\ Bounds(to)
        BY <2>6, ChunkEffect
      <3>2. UNCHANGED <<clock, table, overlap>> /\ gap' \in BOOLEAN
        BY <2>6, ChunkEffect
      <3>3. QED
        BY <2>1, <3>1, <3>2, MoveTypes DEF Saved
    <2>7. CASE Tick
      <3>1. clock' = clock + 1 /\ clock' \in Minutes
        BY <2>1, <2>7 DEF Tick, Minutes
      <3>2. TypeOK' /\ UNCHANGED <<asText, session>> /\ Saved' = Saved
        BY <2>7, <3>1 DEF Tick, TypeInv, TypeOK, Saved
      <3>3. ASSUME NEW s \in Sessions PROVE Bounds(session[s])'
        BY <2>1, <3>1, <3>2 DEF TypeInv, Bounds, States
      <3>4. QED
        BY <2>1, <3>1, <3>2, <3>3 DEF TypeInv
    <2>8. CASE ProcessEnds
      <3>1. TypeOK' /\ UNCHANGED <<clock, asText>> /\ Saved' = Saved
        BY <2>8, IdleType DEF ProcessEnds, TypeInv, TypeOK, Saved
      <3>2. ASSUME NEW s \in Sessions PROVE Bounds(session[s])'
        BY <2>1, <2>8 DEF ProcessEnds, Idle, Bounds, Writing, Minutes
      <3>3. QED
        BY <2>1, <3>1, <3>2 DEF TypeInv
    <2>9. CASE UNCHANGED vars
      BY <2>9 DEF vars, TypeInv, TypeOK, Bounds, Saved
    <2>10. QED
      BY <2>2, <2>3, <2>4, <2>5, <2>6, <2>7, <2>8, <2>9 DEF Next, SessionStep, Turns
  <1>3. QED
    BY <1>1, <1>2, PTL DEF Spec

(***************************************************************************)
(* Every variable keeps its type.                                          *)
(***************************************************************************)
THEOREM TypeCorrect == Spec => []TypeOK
  <1>1. TypeInv => TypeOK
    BY DEF TypeInv
  <1>2. QED
    BY <1>1, TypeInvariant, PTL

-----------------------------------------------------------------------------

LEMMA FillMove ==
    ASSUME TypeInv, FillInv, ~ gap, NEW s \in Sessions, NEW to \in States, Move(s, to),
           Saved \subseteq Saved', \A m \in Saved' : Filled(m)', Ahead(to)'
    PROVE  FillInv'
  <1>1. \A r \in Sessions : session'[r] = IF r = s THEN to ELSE session[r]
    BY DEF TypeInv, TypeOK, Move
  <1>2. \A r \in Sessions : Ahead(session[r])
    BY DEF FillInv
  <1>3. \A r \in Sessions : Ahead(session[r])'
    BY <1>1, <1>2 DEF Ahead, Filled, Move
  <1>4. QED
    BY <1>3 DEF FillInv

LEMMA FillInvariant == Spec => []FillInv
  <1>1. Init => FillInv
    BY DEF Init, FillInv, Saved, Filled, Minutes, Ahead, Idle, Writing
  <1>2. TypeInv /\ TypeInv' /\ FillInv /\ [Next]_vars => FillInv'
    <2> SUFFICES ASSUME TypeInv, TypeInv', FillInv, [Next]_vars, ~ gap'
                 PROVE  FillInv'
      BY DEF FillInv
    <2>1. ~ gap
      <3>1. gap \in BOOLEAN
        BY DEF TypeInv, TypeOK
      <3>2. ASSUME NEW s \in Sessions, ChunkDone(s) PROVE ~ gap
        BY <3>1, <3>2 DEF ChunkDone
      <3>3. QED
        BY <3>1, <3>2 DEF Next, SessionStep, Begin, NoRecord, DataArrives, FetchFails, Fail,
                          SaveSelect, SaveCandle, DuplicateEntry, SaveFails, Tick, ProcessEnds, vars
    <2>2. /\ \A m \in Saved : m \in Minutes /\ Filled(m)
          /\ \A s \in Sessions : Ahead(session[s]) /\ session[s] \in States
          /\ MaxTime \in Nat /\ clock \in Minutes /\ Minutes \subseteq Nat
      BY <2>1, OhlcAssumption DEF FillInv, Saved, TypeInv, TypeOK, Minutes
    <2>3. ASSUME UNCHANGED table
          PROVE  /\ Saved' = Saved /\ \A m \in Saved' : Filled(m)'
                 /\ \A n \in Int : Filled(n)' <=> Filled(n)
      BY <2>2, <2>3 DEF Saved, Filled
    <2>4. ASSUME NEW s \in Sessions, Begin(s) PROVE FillInv'
      <3>1. PICK last \in Saved, to \in States :
                /\ Move(s, to) /\ to.start = last /\ to.end = clock
                /\ to.pc = IF last < clock THEN "fetch" ELSE "done"
        BY <2>4, BeginEffect
      <3>2. UNCHANGED table
        BY <2>4, BeginEffect
      <3>3. Filled(last) /\ last \in Nat /\ 0 \in Saved /\ clock \in Nat
        BY <2>2 DEF Filled, Minutes
      <3>4. ~ (last < clock) => Filled(clock)
        BY <3>3 DEF Filled, Minutes
      <3>5. Ahead(to)
        BY <3>1, <3>3, <3>4 DEF Ahead, Writing
      <3>6. Ahead(to)'
        BY <2>4, <3>2, <3>5, BeginEffect DEF Ahead, Filled, Saved
      <3>7. QED
        BY <2>1, <2>3, <3>1, <3>2, <3>6, FillMove
    <2>5. ASSUME NEW s \in Sessions, DataArrives(s) PROVE FillInv'
      <3> DEFINE c == session[s]
      <3>1. PICK to \in States :
                /\ Move(s, to)
                /\ to.start = c.start /\ to.end = c.end /\ to.next = c.start
                /\ to.to >= c.start - 1
                /\ to.pc = IF to.to < c.start THEN "chunk" ELSE "save"
        BY <2>5, DataEffect
      <3>2. UNCHANGED <<table, asText>> /\ c.pc = "fetch"
        BY <2>5, DataEffect
      <3>3. Filled(c.start) /\ 0 \in Saved /\ c.start \in Nat
        BY <2>2, <3>2 DEF Ahead, States
      <3>4. to.to < c.start => to.to + 1 = c.start
        BY <3>1, <3>3 DEF States
      <3>5. Ahead(to)
        BY <3>1, <3>3, <3>4 DEF Ahead, Writing
      <3>6. Ahead(to)'
        BY <3>2, <3>5 DEF Ahead, Filled, Saved
      <3>7. QED
        BY <2>1, <2>3, <3>1, <3>2, <3>6, FillMove
    <2>6. ASSUME NEW s \in Sessions, Turns(s) \/ NoRecord(s) PROVE FillInv'
      <3>1. PICK to \in States :
                 /\ Move(s, to)
                 /\ \/ to.pc \in {"failed", "stopped"}
                    \/ /\ session[s].pc = "save" /\ to.pc \in {"insert", "update"}
                       /\ to.next = session[s].next
        BY <2>6, TurnEffect
      <3>2. UNCHANGED <<table, asText>>
        BY <2>6, TurnEffect
      <3>3. Ahead(to)
        BY <2>2, <3>1 DEF Ahead, Writing
      <3>4. Ahead(to)'
        BY <3>2, <3>3 DEF Ahead, Filled, Saved
      <3>5. QED
        BY <2>1, <2>3, <3>1, <3>2, <3>4, FillMove
    <2>7. ASSUME NEW s \in Sessions, SaveCandle(s) PROVE FillInv'
      <3>1. PICK c : c = session[s]
        OBVIOUS
      <3>2. PICK to \in States :
                /\ Move(s, to) /\ to.next = c.next + 1 /\ to.to = c.to
                /\ to.pc = IF c.next < c.to THEN "save" ELSE "chunk"
        BY <2>7, <3>1, SaveEffect
      <3>3. /\ c.pc \in Writing /\ c.next \in Minutes /\ Saved' = Saved \cup {c.next}
        BY <2>7, <3>1, SaveEffect
      <3>4. Filled(c.next) /\ 0 \in Saved /\ c.next \in Nat /\ c.to \in Int /\ c.next <= c.to
        BY <2>2, <3>1, <3>3 DEF Ahead, States, TypeInv, Bounds
      <3>5. \A m \in Saved' : Filled(m)'
        BY <2>2, <3>3, <3>4 DEF Filled
      <3>6. Filled(c.next + 1)'
        BY <2>2, <3>3, <3>4 DEF Filled
      <3>7. Ahead(to)'
        BY <3>2, <3>3, <3>4, <3>6 DEF Ahead, Writing
      <3>8. QED
        BY <2>1, <3>2, <3>3, <3>5, <3>7, FillMove
    <2>8. ASSUME NEW s \in Sessions, ChunkDone(s) PROVE FillInv'
      <3> DEFINE c == session[s]
      <3>1. PICK to \in States :
                /\ Move(s, to)
                /\ to.start = c.until /\ to.end = c.end /\ to.lagged = c.lagged
                /\ to.pc = IF c.until < c.end THEN "fetch" ELSE "done"
        BY <2>8, ChunkEffect
      <3>2. UNCHANGED <<table, asText>> /\ c.pc = "chunk" /\ ~ (c.until < c.end /\ c.lagged)
        BY <2>8, ChunkEffect
      <3>3. /\ Filled(c.to + 1) /\ 0 \in Saved /\ c.until \in Nat /\ c.to \in Int /\ c.end \in Nat
            /\ c.until <= c.end /\ (c.text => asText)
            /\ (c.until < c.end \/ ~ c.text) /\ ~ c.lagged => c.to >= c.until - 1
        BY <2>2, <3>2 DEF Ahead, States, TypeInv, Bounds
      <3>4. c.to >= c.until - 1 => Filled(c.until)
        BY <2>2, <3>3 DEF Filled
      <3>5. c.until < c.end => Filled(c.until)
        BY <3>2, <3>3, <3>4
      <3>6. ~ (c.until < c.end) /\ ~ asText /\ ~ c.lagged => Filled(c.end)
        <4>1. ~ (c.until < c.end) => c.until = c.end
          BY <3>3
        <4>2. QED
          BY <3>3, <3>4, <4>1
      <3>7. Ahead(to)
        BY <3>1, <3>3, <3>5, <3>6 DEF Ahead, Writing
      <3>8. Ahead(to)'
        BY <3>2, <3>7 DEF Ahead, Filled, Saved
      <3>9. QED
        BY <2>1, <2>3, <3>1, <3>2, <3>8, FillMove
    <2>9. CASE Tick
      BY <2>1, <2>2, <2>3, <2>9 DEF Tick, FillInv, Ahead, Filled, Saved
    <2>10. CASE ProcessEnds
      <3>1. \A s \in Sessions : Ahead(session[s])'
        BY <2>10 DEF ProcessEnds, Idle, Ahead, Writing
      <3>2. QED
        BY <2>3, <2>10, <3>1 DEF ProcessEnds, FillInv
    <2>11. CASE UNCHANGED vars
      BY <2>1, <2>2, <2>3, <2>11 DEF vars, FillInv, Ahead, Filled, Saved
    <2>12. QED
      BY <2>4, <2>5, <2>6, <2>7, <2>8, <2>9, <2>10, <2>11 DEF Next, SessionStep, Turns
  <1>3. QED
    BY <1>1, <1>2, TypeInvariant, PTL DEF Spec

(***************************************************************************)
(* However many calls run together, fail, stop or start again, the price   *)
(* table only grows by the minute after its last one.                      *)
(***************************************************************************)
THEOREM TableGrows == Spec => GrowsByOne
  <1>1. TypeInv /\ FillInv /\ [Next]_vars
            => [~ gap' /\ Saved' # Saved
                   => \E m \in Saved : IsLast(m) /\ Saved' = Saved \cup {m + 1}]_vars
    <2> SUFFICES ASSUME TypeInv, FillInv, [Next]_vars, ~ gap', Saved' # Saved
                 PROVE  \E m \in Saved : IsLast(m) /\ Saved' = Saved \cup {m + 1}
      OBVIOUS
    <2>1. table' # table
      BY DEF Saved
    <2>2. PICK s \in Sessions : SaveCandle(s)
      BY <2>1 DEF Next, SessionStep, Begin, NoRecord, DataArrives, FetchFails, Fail, SaveSelect,
                  DuplicateEntry, SaveFails, ChunkDone, Tick, ProcessEnds, vars
    <2> DEFINE n == session[s].next
    <2>3. /\ session[s].pc \in Writing /\ n \in Minutes /\ Saved' = Saved \cup {n}
          /\ UNCHANGED gap
      BY <2>2, SaveEffect
    <2>4. /\ n \notin Saved /\ 0 \in Saved /\ Filled(n) /\ n \in Nat /\ n <= MaxTime
          /\ \A m \in Saved : m \in Minutes /\ m \in Nat /\ Filled(m)
          /\ MaxTime \in Nat
      BY <2>3, OhlcAssumption DEF FillInv, Ahead, Minutes, Saved
    <2>5. n - 1 \in Minutes /\ n - 1 \in Saved
      BY <2>4 DEF Filled, Minutes
    <2>6. \A m \in Saved : m <= n - 1
      BY <2>3, <2>4 DEF Filled
    <2>7. IsLast(n - 1) /\ (n - 1) + 1 = n
      BY <2>4, <2>5, <2>6 DEF IsLast
    <2>8. QED
      BY <2>3, <2>5, <2>7
  <1>2. QED
    BY <1>1, TypeInvariant, FillInvariant, PTL DEF Spec, GrowsByOne

(***************************************************************************)
(* A call that has gone through to its end leaves no minute without price. *)
(***************************************************************************)
THEOREM PassFills == Spec => []PassComplete
  <1>1. TypeInv /\ FillInv => PassComplete
    <2> SUFFICES ASSUME TypeInv, FillInv, NEW s \in Sessions, session[s].pc = "done",
                        ~ asText, ~ gap, ~ session[s].lagged,
                        NEW m \in 0 .. session[s].end - 1
                 PROVE  m \in Saved
      BY DEF PassComplete
    <2>1. session[s].end \in Nat /\ session[s].end <= clock /\ clock \in 0 .. MaxTime
          /\ MaxTime \in Nat
      BY OhlcAssumption DEF TypeInv, TypeOK, Bounds, States, Minutes
    <2>2. Filled(session[s].end)
      BY DEF FillInv, Ahead
    <2>3. QED
      BY <2>1, <2>2 DEF Filled, Minutes
  <1>2. QED
    BY <1>1, TypeInvariant, FillInvariant, PTL

-----------------------------------------------------------------------------

LEMMA FinalMove ==
    ASSUME TypeInv, OneByOne, NEW s \in Sessions, NEW to \in States, Move(s, to),
           UNCHANGED table, Final(to),
           to.pc \in Writing \cup {"fetch", "chunk"} => Busy(s)
    PROVE  OneByOne'
  <1>1. \A r \in Sessions : session'[r] = IF r = s THEN to ELSE session[r]
    BY DEF TypeInv, TypeOK, Move
  <1>2. Saved' = Saved
    BY DEF Saved
  <1>3. \A r \in Sessions : Busy(r)' => Busy(r)
    BY <1>1 DEF Busy, Writing
  <1>4. \A r \in Sessions : Final(session[r])'
    <2>1. \A r \in Sessions : Final(session[r])
      BY DEF OneByOne
    <2>2. Final(to)'
      BY <1>2 DEF Final, Closed
    <2>3. ASSUME NEW r \in Sessions, r # s PROVE Final(session[r])'
      BY <1>1, <1>2, <2>1, <2>3 DEF Final, Closed
    <2>4. QED
      BY <1>1, <2>2, <2>3
  <1>5. QED
    BY <1>2, <1>3, <1>4 DEF OneByOne

LEMMA FinalInvariant == Spec => []FinalInv
  <1>1. Init => FinalInv
    <2> SUFFICES ASSUME Init PROVE OneByOne
      BY DEF FinalInv
    <2>1. \A m \in Saved : m = 0
      BY DEF Init, Saved
    <2>2. QED
      BY <2>1 DEF Init, OneByOne, Busy, Final, Idle, Writing
  <1>2. TypeInv /\ TypeInv' /\ FillInv /\ FinalInv /\ [Next]_vars => FinalInv'
    <2> SUFFICES ASSUME TypeInv, TypeInv', FillInv, FinalInv, [Next]_vars, ~ gap', ~ overlap'
                 PROVE  OneByOne'
      BY DEF FinalInv
    <2>1. ~ gap /\ ~ overlap
      <3>1. gap \in BOOLEAN /\ overlap \in BOOLEAN
        BY DEF TypeInv, TypeOK
      <3>2. ASSUME NEW s \in Sessions, ChunkDone(s) PROVE ~ gap /\ ~ overlap
        BY <3>1, <3>2 DEF ChunkDone
      <3>3. ASSUME NEW s \in Sessions, Begin(s) PROVE ~ gap /\ ~ overlap
        BY <3>1, <3>3 DEF Begin
      <3>4. QED
        BY <3>1, <3>2, <3>3
           DEF Next, SessionStep, NoRecord, DataArrives, FetchFails, Fail, SaveSelect,
               SaveCandle, DuplicateEntry, SaveFails, Tick, ProcessEnds, vars
    <2>2. /\ OneByOne
          /\ \A r, s \in Sessions : Busy(r) /\ Busy(s) => r = s
          /\ \A m, n \in Saved : m < n => table[m] = "closed"
          /\ \A s \in Sessions : Final(session[s]) /\ session[s] \in States
                                 /\ Bounds(session[s])
          /\ \A m \in Saved : m <= clock
          /\ Saved \subseteq Minutes /\ Minutes \subseteq Nat
          /\ session \in [Sessions -> States]
          /\ table \in [Minutes -> Candles \cup {"none"}]
      BY <2>1 DEF FinalInv, OneByOne, TypeInv, TypeOK, Saved, Minutes
    <2>3. ASSUME NEW s \in Sessions, Begin(s) PROVE OneByOne'
      <3>1. PICK last \in Saved, to \in States :
                /\ Move(s, to) /\ IsLast(last) /\ to.start = last /\ to.end = clock
                /\ to.pc = IF last < clock THEN "fetch" ELSE "done"
        BY <2>3, BeginEffect
      <3>2. /\ UNCHANGED <<table, clock>>
            /\ overlap' = (overlap \/ \E r \in Sessions \ {s} : Busy(r))
        BY <2>3, BeginEffect
      <3>3. \A r \in Sessions \ {s} : ~ Busy(r)
        BY <3>2, Zenon
      <3>4. \A r \in Sessions : session'[r] = IF r = s THEN to ELSE session[r]
        BY <2>2, <3>1 DEF Move
      <3>5. Saved' = Saved
        BY <3>2 DEF Saved
      <3>6. \A q, r \in Sessions : Busy(q)' /\ Busy(r)' => q = r
        BY <3>3, <3>4 DEF Busy
      <3>7. Final(to)
        <4>1. Closed(last)
          <5>1. Filled(last)
            BY <2>1 DEF FillInv
          <5>2. QED
            BY <2>2, <5>1 DEF Filled, Closed
        <4>2. QED
          BY <2>2, <3>1, <4>1 DEF Final, Writing
      <3>8. Final(to)'
        BY <3>2, <3>5, <3>7 DEF Final, Closed
      <3>9. ASSUME NEW r \in Sessions, r # s PROVE Final(session[r])'
        BY <2>2, <3>2, <3>4, <3>5, <3>9 DEF Final, Closed
      <3>10. QED
        BY <2>2, <3>2, <3>4, <3>5, <3>6, <3>8, <3>9 DEF OneByOne
    <2>4. ASSUME NEW s \in Sessions, DataArrives(s) PROVE OneByOne'
      <3> DEFINE c == session[s]
      <3>1. PICK to \in States :
                /\ Move(s, to)
                /\ to.start = c.start /\ to.end = c.end /\ to.next = c.start
                /\ to.to >= c.start - 1
                /\ to.pc = IF to.to < c.start THEN "chunk" ELSE "save"
        BY <2>4, DataEffect
      <3>2. UNCHANGED table /\ c.pc = "fetch"
        BY <2>4, DataEffect
      <3>3. Closed(c.start) /\ c.start \in Nat /\ \A n \in Saved : n <= c.end
        BY <2>2, <3>2 DEF Final, States
      <3>4. to.to < c.start => to.to + 1 = c.start
        BY <3>1, <3>3 DEF States
      <3>5. Final(to)
        BY <3>1, <3>3, <3>4 DEF Final, Writing
      <3>6. Busy(s)
        BY <3>2 DEF Busy
      <3>7. QED
        BY <2>2, <3>1, <3>2, <3>5, <3>6, FinalMove
    <2>5. ASSUME NEW s \in Sessions, Turns(s) \/ NoRecord(s) PROVE OneByOne'
      <3>1. PICK to \in States :
                 /\ Move(s, to)
                 /\ \/ to.pc \in {"failed", "stopped"}
                    \/ /\ session[s].pc = "save" /\ to.pc \in {"insert", "update"}
                       /\ to.end = session[s].end /\ to.next = session[s].next
        BY <2>5, TurnEffect
      <3>2. UNCHANGED table
        BY <2>5, TurnEffect
      <3>3. Final(to)
        BY <2>2, <3>1 DEF Final, Writing
      <3>4. to.pc \in Writing \cup {"fetch", "chunk"} => Busy(s)
        BY <3>1 DEF Busy, Writing
      <3>5. QED
        BY <2>2, <3>1, <3>2, <3>3, <3>4, FinalMove
    <2>6. ASSUME NEW s \in Sessions, SaveCandle(s) PROVE OneByOne'
      <3>1. PICK c : c = session[s]
        OBVIOUS
      <3>2. PICK to \in States :
                /\ Move(s, to) /\ to.end = c.end /\ to.next = c.next + 1
                /\ to.to = c.to /\ to.until = c.until
                /\ to.pc = IF c.next < c.to THEN "save" ELSE "chunk"
        BY <2>6, <3>1, SaveEffect
      <3>3. /\ c.pc \in Writing /\ c.next \in Minutes /\ Saved' = Saved \cup {c.next}
            /\ table' = [table EXCEPT ![c.next] = IF c.next < c.asOf THEN "closed" ELSE "open"]
        BY <2>6, <3>1, SaveEffect
      <3>4. /\ Closed(c.next) /\ (\A n \in Saved : n <= c.end)
            /\ c.next \in Nat /\ c.to \in Int /\ c.until \in Nat /\ c.end \in Nat /\ c.asOf \in Nat
            /\ c.next <= c.to /\ c.to <= c.until /\ c.until <= c.end /\ c.end <= c.asOf
        BY <2>2, <3>1, <3>3 DEF Final, States, Bounds
      <3>5. /\ \A m \in Minutes : m # c.next => table'[m] = table[m]
            /\ c.next < c.asOf => table'[c.next] = "closed"
        BY <2>2, <3>3
      <3>6. \A r \in Sessions : session'[r] = IF r = s THEN to ELSE session[r]
        BY <2>2, <3>2 DEF Move
      <3>7. Busy(s) /\ \A r \in Sessions : r # s => ~ Busy(r)
        <4>1. Busy(s)
          BY <3>1, <3>3 DEF Busy, Writing
        <4>2. QED
          BY <2>2, <4>1
      <3>8. \A q, r \in Sessions : Busy(q)' /\ Busy(r)' => q = r
        BY <3>6, <3>7 DEF Busy
      <3>9. \A n \in Saved' : n <= c.end
        BY <3>3, <3>4
      <3>10. ASSUME NEW m \in Saved', NEW n \in Saved', m < n PROVE table'[m] = "closed"
        <4>1. CASE m = c.next
          <5>1. n \in Nat /\ n <= c.end
            BY <2>2, <3>3, <3>9
          <5>2. c.next < c.asOf
            BY <3>4, <3>10, <4>1, <5>1
          <5>3. QED
            BY <3>5, <4>1, <5>2
        <4>2. CASE m # c.next /\ n = c.next
          BY <2>2, <3>3, <3>4, <3>5, <3>10, <4>2 DEF Closed
        <4>3. CASE m # c.next /\ n # c.next
          BY <2>2, <3>3, <3>5, <3>10, <4>3
        <4>4. QED
          BY <4>1, <4>2, <4>3
      <3>11. c.next < c.asOf => Closed(c.next + 1)'
        BY <2>2, <3>4, <3>5 DEF Closed
      <3>12. Final(to)'
        <4>1. c.next < c.to \/ c.until < c.end => Closed(c.next + 1)'
          BY <3>4, <3>11
        <4>2. ~ (c.next < c.to) => c.next = c.to
          BY <3>4
        <4>3. QED
          BY <3>2, <3>4, <3>9, <4>1, <4>2 DEF Final, Writing
      <3>13. ASSUME NEW r \in Sessions, r # s PROVE Final(session[r])'
        BY <3>6, <3>7, <3>13 DEF Final, Busy, Writing
      <3>14. QED
        BY <3>6, <3>8, <3>10, <3>12, <3>13 DEF OneByOne
    <2>7. ASSUME NEW s \in Sessions, ChunkDone(s) PROVE OneByOne'
      <3> DEFINE c == session[s]
      <3>1. PICK to \in States :
                /\ Move(s, to)
                /\ to.start = c.until /\ to.end = c.end
                /\ to.pc = IF c.until < c.end THEN "fetch" ELSE "done"
        BY <2>7, ChunkEffect
      <3>2. UNCHANGED table /\ c.pc = "chunk" /\ ~ (c.until < c.end /\ c.lagged)
        BY <2>7, ChunkEffect
      <3>3. /\ c.until < c.end => Closed(c.to + 1)
            /\ \A n \in Saved : n <= c.end
            /\ c.until \in Nat /\ c.to \in Int /\ c.end \in Nat
            /\ (c.until < c.end \/ ~ c.text) /\ ~ c.lagged => c.to >= c.until - 1
        BY <2>2, <3>2 DEF Final, States, Bounds, Writing
      <3>4. c.until < c.end => Closed(c.until)
        BY <2>2, <3>2, <3>3 DEF Closed
      <3>5. Final(to)
        BY <3>1, <3>3, <3>4 DEF Final, Writing
      <3>6. Busy(s)
        BY <3>2 DEF Busy
      <3>7. QED
        BY <2>2, <3>1, <3>2, <3>5, <3>6, FinalMove
    <2>8. CASE Tick \/ UNCHANGED vars
      <3>1. UNCHANGED <<table, session>>
        BY <2>8 DEF Tick, vars
      <3>2. QED
        BY <2>2, <3>1 DEF OneByOne, Busy, Final, Closed, Saved
    <2>9. CASE ProcessEnds
      <3>1. UNCHANGED table /\ \A s \in Sessions : session'[s] = Idle
        BY <2>9 DEF ProcessEnds
      <3>2. QED
        BY <2>2, <3>1 DEF OneByOne, Busy, Final, Closed, Saved, Idle, Writing
    <2>10. QED
      BY <2>3, <2>4, <2>5, <2>6, <2>7, <2>8, <2>9 DEF Next, SessionStep, Turns
  <1>3. QED
    BY <1>1, <1>2, TypeInvariant, FillInvariant, PTL DEF Spec

(***************************************************************************)
(* As long as calls follow one another, every minute before the last one   *)
(* saved has its final price, and the look up finds it.                    *)
(***************************************************************************)
THEOREM PricesKnown == Spec => []PricesFinal
  <1>1. TypeInv /\ FillInv /\ FinalInv => PricesFinal
    <2> SUFFICES ASSUME TypeInv, FillInv, FinalInv, ~ gap, ~ overlap,
                        NEW last \in Saved, NEW m \in Minutes, m < last
                 PROVE  table[m] = "closed" /\ FindClosestRecord(m) = {m}
      BY DEF PricesFinal
    <2>1. m \in Saved
      BY DEF FillInv, Filled
    <2>2. table[m] = "closed"
      BY <2>1 DEF FinalInv, OneByOne
    <2>3. Saved \subseteq Int
      BY DEF Saved, Minutes
    <2>4. FindClosestRecord(m) = {m}
      <3>1. \A n \in Saved : Distance(m, m) = 0 /\ Distance(n, m) >= 0
                             /\ (Distance(n, m) <= 0 => n = m)
        BY <2>1, <2>3 DEF Distance
      <3>2. QED
        BY <2>1, <3>1 DEF FindClosestRecord
    <2>5. QED
      BY <2>2, <2>4
  <1>2. QED
    BY <1>1, TypeInvariant, FillInvariant, FinalInvariant, PTL

=============================================================================
