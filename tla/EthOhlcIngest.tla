---------------------------- MODULE EthOhlcIngest ----------------------------
(***************************************************************************)
(* EthOhlcService.getEthOhlc: the table of one-minute ETH candles is       *)
(* brought up to the present by requests for chunks of time, from the last *)
(* record on, and saved one candle after the other.  Every session does    *)
(* this before it ingests and analyses a wallet; the table is shared.      *)
(*                                                                         *)
(* Time is counted in minutes.  startTimestamp and endTimestamp, which no  *)
(* caller passes, are left out.  Prices matter only in that a candle read  *)
(* in its own minute ("open") is not the final one ("closed").             *)
(***************************************************************************)
EXTENDS Integers, FiniteSets

CONSTANTS
    Sessions,
    Chunk,      \* MAX_RECORDS_PER_REQUEST, as the length of a chunk
    MaxSize,    \* max_size of a request: the most candles in a response
    MaxTime     \* bound on the clock

ASSUME OhlcAssumption ==
    /\ Chunk \in Nat \ {0}
    /\ MaxSize \in Nat /\ MaxSize >= Chunk
    /\ MaxTime \in Nat \ {0}

VARIABLES
    clock,      \* the present minute
    asText,     \* does the driver return the BIGINT timestampOpen as text?
    table,      \* the candle of each minute
    session,    \* where each call of getEthOhlc is
    gap,        \* history: has a call gone on behind what the service had listed?
    overlap     \* history: have two calls ever been in progress at once?

vars == <<clock, asText, table, session, gap, overlap>>

Minutes == 0 .. MaxTime

Candles == {"closed", "open"}

States ==
    [ pc     : {"idle", "fetch", "save", "insert", "update", "chunk",
                "done", "stopped", "failed"},
      start  : Nat,       \* current_start
      text   : BOOLEAN,   \* is current_start still what the driver returned, as text?
      end    : Nat,       \* current_end
      until  : Nat,       \* next_end
      next   : Nat,       \* minute of arrElem
      to     : Int,       \* last minute of the response
      asOf   : Nat,       \* when the response was made
      lagged : BOOLEAN ]  \* did a response end before what was asked for?

TypeOK == /\ clock \in Minutes
          /\ asText \in BOOLEAN
          /\ table \in [Minutes -> Candles \cup {"none"}]
          /\ session \in [Sessions -> States]
          /\ gap \in BOOLEAN
          /\ overlap \in BOOLEAN

Idle == [ pc |-> "idle", start |-> 0, text |-> FALSE, end |-> 0, until |-> 0, next |-> 0,
          to |-> 0, asOf |-> 0, lagged |-> FALSE ]

(***************************************************************************)
(* The table is empty, or holds what the download script left.             *)
(***************************************************************************)
Init == /\ clock = 1
        /\ asText \in BOOLEAN
        /\ \E first \in {"none", "closed"} :
              table = [m \in Minutes |-> IF m = 0 THEN first ELSE "none"]
        /\ session = [s \in Sessions |-> Idle]
        /\ gap = FALSE
        /\ overlap = FALSE

-----------------------------------------------------------------------------

Saved == {m \in Minutes : table[m] # "none"}

IsLast(m) == m \in Saved /\ \A n \in Saved : n <= m

Busy(s) == session[s].pc \in {"fetch", "save", "insert", "update", "chunk"}

Move(s, to) ==
    /\ session' = [session EXCEPT ![s] = to]
    /\ UNCHANGED <<clock, asText>>

(***************************************************************************)
(* findLastRecordTimestamp, then the first test of the loop.               *)
(***************************************************************************)
\* Mutants of ResumeAt: the minute after the last record, and the one before.
ResumeAfter(last) == last + 1

ResumeBefore(last) == last - 1

ResumeAt(last) == last

Begin(s) ==
    /\ ~ Busy(s)
    /\ \E last \in Saved :
          /\ IsLast(last)
          /\ Move(s, [Idle EXCEPT !.pc = IF ResumeAt(last) < clock THEN "fetch" ELSE "done",
                                  !.start = ResumeAt(last),
                                  !.text = asText,
                                  !.end = clock])
    /\ overlap' = (overlap \/ \E r \in Sessions \ {s} : Busy(r))
    /\ UNCHANGED <<table, gap>>

NoRecord(s) ==
    /\ ~ Busy(s)
    /\ Saved = {}
    /\ Move(s, [Idle EXCEPT !.pc = "failed"])
    /\ UNCHANGED <<table, gap, overlap>>

(***************************************************************************)
(* Math.min(current_start + 2500 * 60, current_end): with text the sum is  *)
(* a concatenation, a number beyond any end.                               *)
(***************************************************************************)
NextEnd(c) == IF c.text \/ c.start + Chunk > c.end THEN c.end ELSE c.start + Chunk

(***************************************************************************)
(* The service returns the candles from current_start on in order, at most *)
(* max_size; it may not have the last minutes yet, and whether next_end    *)
(* itself is among them is not known.                                      *)
(***************************************************************************)
DataArrives(s) ==
    LET c == session[s]
    IN  /\ c.pc = "fetch"
        /\ \E listed \in (c.start - 1) .. NextEnd(c) :
              LET to == IF listed < c.start + MaxSize THEN listed ELSE c.start + MaxSize - 1
              IN  Move(s, [c EXCEPT !.pc = IF to < c.start THEN "chunk" ELSE "save",
                                    !.until = NextEnd(c),
                                    !.next = c.start,
                                    !.to = to,
                                    !.asOf = clock,
                                    !.lagged = @ \/ listed < NextEnd(c) - 1])
        /\ UNCHANGED <<table, gap, overlap>>

Fail(s) ==
    /\ Move(s, [session[s] EXCEPT !.pc = "failed"])
    /\ UNCHANGED <<table, gap, overlap>>

\* Mutant of FetchFails: the error is logged and the loop goes on.
FetchFailsSwallowed(s) ==
    /\ session[s].pc = "fetch"
    /\ Move(s, [session[s] EXCEPT !.pc = "chunk", !.until = NextEnd(session[s])])
    /\ UNCHANGED <<table, gap, overlap>>

FetchFails(s) == session[s].pc = "fetch" /\ Fail(s)

(***************************************************************************)
(* save() looks whether the candle is there, then inserts or updates it.   *)
(***************************************************************************)
SaveSelect(s) ==
    LET c == session[s]
    IN  /\ c.pc = "save"
        /\ Move(s, [c EXCEPT !.pc = IF table[c.next] = "none" THEN "insert" ELSE "update"])
        /\ UNCHANGED <<table, gap, overlap>>

SaveCandle(s) ==
    LET c == session[s]
    IN  /\ \/ c.pc = "insert" /\ table[c.next] = "none"
           \/ c.pc = "update"
        /\ table' = [table EXCEPT ![c.next] = IF c.next < c.asOf THEN "closed" ELSE "open"]
        /\ Move(s, [c EXCEPT !.pc = IF c.next < c.to THEN "save" ELSE "chunk",
                             !.next = @ + 1])
        /\ UNCHANGED <<gap, overlap>>

(***************************************************************************)
(* ER_DUP_ENTRY, because another session inserted the candle in between:   *)
(* both loops are left and the call returns.  Other errors are thrown.     *)
(***************************************************************************)
DuplicateEntry(s) ==
    LET c == session[s]
    IN  /\ c.pc = "insert" /\ table[c.next] # "none"
        /\ Move(s, [c EXCEPT !.pc = "stopped"])
        /\ UNCHANGED <<table, gap, overlap>>

SaveFails(s) == session[s].pc \in {"save", "insert", "update"} /\ Fail(s)

(***************************************************************************)
(* current_start = next_end; a second later the loop goes on or ends.      *)
(***************************************************************************)
\* Mutants of NextStart: the minute after next_end, and the last one received.
NextStartAfter(c) == c.until + 1

NextStartAtLast(c) == IF c.to < c.start THEN c.start ELSE c.to

NextStart(c) == c.until

ChunkDone(s) ==
    LET c == session[s]
        more == NextStart(c) < c.end
    IN  /\ c.pc = "chunk"
        /\ Move(s, [c EXCEPT !.pc = IF more THEN "fetch" ELSE "done",
                             !.start = NextStart(c),
                             !.text = FALSE])
        /\ gap' = (gap \/ (more /\ c.lagged))
        /\ UNCHANGED <<table, overlap>>

SessionStep(s) ==
    \/ DataArrives(s) \/ FetchFails(s)
    \/ SaveSelect(s)  \/ SaveCandle(s) \/ DuplicateEntry(s) \/ SaveFails(s)
    \/ ChunkDone(s)

-----------------------------------------------------------------------------

Tick == /\ clock < MaxTime
        /\ clock' = clock + 1
        /\ UNCHANGED <<asText, table, session, gap, overlap>>

ProcessEnds ==
    /\ session' = [s \in Sessions |-> Idle]
    /\ UNCHANGED <<clock, asText, table, gap, overlap>>

Next == \/ \E s \in Sessions : Begin(s) \/ NoRecord(s) \/ SessionStep(s)
        \/ Tick
        \/ ProcessEnds

(***************************************************************************)
(* Requests and saves settle, and timers fire.                             *)
(***************************************************************************)
Spec == Init /\ [][Next]_vars /\ \A s \in Sessions : WF_vars(SessionStep(s))

-----------------------------------------------------------------------------
(***************************************************************************)
(* findClosestRecord, used by getETHtoUSD for the price of a transfer: the *)
(* nearest candle less than two minutes away.                              *)
(***************************************************************************)
Distance(m, n) == IF m < n THEN n - m ELSE m - n

FindClosestRecord(time) ==
    {m \in Saved : /\ Distance(m, time) < 2
                   /\ \A n \in Saved : Distance(m, time) <= Distance(n, time)}

(***************************************************************************)
(* The table only ever grows by the minute after its last one, whoever     *)
(* writes it, however often a call fails, stops at a duplicate or starts   *)
(* again: otherwise the missing minute would never be asked for again.     *)
(* (Unless the service was behind and the call went on regardless.)        *)
(***************************************************************************)
GrowsByOne ==
    [][~ gap' /\ Saved' # Saved
            => \E m \in Saved : IsLast(m) /\ Saved' = Saved \cup {m + 1}]_vars

(***************************************************************************)
(* If no two calls ran together, the price of every minute before the last *)
(* one saved is known, and is the final one.                               *)
(***************************************************************************)
PricesFinal ==
    ~ gap /\ ~ overlap =>
        \A last \in Saved : IsLast(last) =>
            \A m \in Minutes : m < last => table[m] = "closed" /\ FindClosestRecord(m) = {m}

(***************************************************************************)
(* When a call has gone through to its end, every minute before that has   *)
(* a price, if the service had them all.  (With a timestamp read as text   *)
(* the only request is for everything, of which max_size candles come.)    *)
(***************************************************************************)
PassComplete ==
    \A s \in Sessions :
        /\ session[s].pc = "done"
        /\ ~ asText /\ ~ gap /\ ~ session[s].lagged
        => \A m \in 0 .. session[s].end - 1 : m \in Saved

(***************************************************************************)
(* Every call ends.                                                        *)
(***************************************************************************)
PassEnds == \A s \in Sessions : Busy(s) ~> ~ Busy(s)

=============================================================================
