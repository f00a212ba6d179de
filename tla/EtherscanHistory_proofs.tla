----------------------- MODULE EtherscanHistory_proofs -----------------------
(***************************************************************************)
(* Proofs about EtherscanHistory, for any lists, page size and number of   *)
(* pages: what a stream has read when it returns, when the guard against   *)
(* truncation refuses a range, what the merge makes of two lists, how the  *)
(* streams settle the call, and that all of it together implements the     *)
(* safety part of HistoryFetch.                                            *)
(***************************************************************************)
EXTENDS EtherscanHistory, InductionLemmas, SequenceTheorems

Before(page) == (page - 1) * Offset   \* items on the pages before this one

TypeInv ==
    /\ listing \in [Kinds -> Seq(Hashes)]
    /\ indexed \in [Kinds -> Nat]
    /\ promised \in [Kinds -> Nat]
    /\ dropped \in [Kinds -> Seq(Hashes)]
    /\ stream \in [Kinds -> Streams]
    /\ \A k \in Kinds : promised[k] <= indexed[k] /\ indexed[k] <= Len(listing[k])

(***************************************************************************)
(* The guard at work.                                                      *)
(***************************************************************************)
GuardInv ==
    \A k \in Kinds :
        /\ stream[k].pc = "truncated" => indexed[k] + Len(dropped[k]) >= MaxPages * Offset
        /\ stream[k].pc = "returned"  => promised[k] < MaxPages * Offset

(***************************************************************************)
(* As long as no item was dropped, what a stream has read is the head of   *)
(* the list: the pages before the present one, and all that was promised   *)
(* when it returns.                                                        *)
(***************************************************************************)
ReadsHead(k) ==
    /\ Len(stream[k].got) <= indexed[k]
    /\ \A i \in 1 .. Len(stream[k].got) : stream[k].got[i] = listing[k][i]

ReadsAll(k) == Len(stream[k].got) >= promised[k]

PagesInv ==
    \A k \in Kinds : dropped[k] = <<>> /\ ~ Threw(k) =>
        /\ ReadsHead(k)
        /\ IF stream[k].pc = "returned" THEN ReadsAll(k)
           ELSE Len(stream[k].got) = Before(stream[k].page)

(***************************************************************************)
(* A stream that returns has read the list from its head on, each item     *)
(* once and in its order, at least as far as it went when the call began.  *)
(* (Unless a reorganisation took an item of that list away.)               *)
(***************************************************************************)
StreamWhole ==
    \A k \in Kinds : stream[k].pc = "returned" /\ dropped[k] = <<>> =>
        ReadsHead(k) /\ ReadsAll(k)

-----------------------------------------------------------------------------

LEMMA TimesMonotone ==
    ASSUME NEW a \in Nat, NEW b \in Nat, NEW c \in Nat, a <= b
    PROVE  a * c <= b * c
  <1>1. PICK d \in Nat : b = a + d
    <2>1. b - a \in Nat /\ b = a + (b - a)
      OBVIOUS
    <2>2. QED
      BY <2>1
  <1>2. b * c = a * c + d * c /\ a * c \in Nat /\ d * c \in Nat
    BY <1>1
  <1>3. QED
    BY <1>2

(***************************************************************************)
(* Where a page lies in the list.                                          *)
(***************************************************************************)
LEMMA PageBounds ==
    ASSUME NEW page \in 1 .. MaxPages
    PROVE  /\ Before(page) \in Nat /\ page * Offset \in Nat /\ MaxPages * Offset \in Nat
           /\ page * Offset = Before(page) + Offset
           /\ Before(page + 1) = page * Offset
           /\ page * Offset <= MaxPages * Offset
           /\ page >= MaxPages => page * Offset = MaxPages * Offset
  <1>1. page \in Nat /\ page - 1 \in Nat /\ page <= MaxPages /\ MaxPages \in Nat /\ Offset \in Nat
    BY PageAssumption
  <1>2. page * Offset <= MaxPages * Offset
    BY <1>1, TimesMonotone
  <1>3. /\ Before(page) \in Nat /\ page * Offset \in Nat /\ MaxPages * Offset \in Nat
        /\ page * Offset = Before(page) + Offset
    BY <1>1 DEF Before
  <1>4. (page + 1) - 1 = page
    BY <1>1
  <1>5. Before(page + 1) = page * Offset
    BY <1>4 DEF Before
  <1>6. page >= MaxPages => page = MaxPages
    BY <1>1
  <1>7. QED
    BY <1>2, <1>3, <1>5, <1>6

LEMMA PageRead ==
    ASSUME TypeInv, NEW k \in Kinds, NEW page \in 1 .. MaxPages
    PROVE  LET p == PageOf(k, page)
               upTo == IF page * Offset <= indexed[k] THEN page * Offset ELSE indexed[k]
           IN  /\ p \in Seq(Hashes)
               /\ Len(p) = IF Before(page) <= upTo THEN upTo - Before(page) ELSE 0
               /\ \A i \in 1 .. Len(p) : p[i] = listing[k][Before(page) + i]
  <1> DEFINE upTo == IF page * Offset <= indexed[k] THEN page * Offset ELSE indexed[k]
             first == Before(page) + 1
  <1>1. /\ listing[k] \in Seq(Hashes) /\ indexed[k] \in Nat /\ indexed[k] <= Len(listing[k])
        /\ Before(page) \in Nat /\ page * Offset \in Nat
    BY PageBounds DEF TypeInv
  <1>2. first \in Int /\ first >= 1 /\ upTo \in Int /\ upTo <= Len(listing[k])
    BY <1>1
  <1>3. \A i \in first .. upTo : listing[k][i] \in Hashes
    BY <1>1, <1>2
  <1>4. PageOf(k, page) = SubSeq(listing[k], first, upTo)
    BY DEF PageOf, Before
  <1>5. first = Before(page) + 1
    OBVIOUS
  <1> HIDE DEF upTo, first
  <1>6. /\ PageOf(k, page) \in Seq(Hashes)
        /\ Len(PageOf(k, page)) = IF first <= upTo THEN upTo - first + 1 ELSE 0
        /\ \A i \in 1 .. upTo - first + 1 : PageOf(k, page)[i] = listing[k][first + i - 1]
    BY <1>2, <1>3, <1>4, SubSeqProperties
  <1>7. Len(PageOf(k, page)) = IF Before(page) <= upTo THEN upTo - Before(page) ELSE 0
    BY <1>1, <1>2, <1>6, <1>5
  <1>8. ASSUME NEW i \in 1 .. Len(PageOf(k, page))
        PROVE  PageOf(k, page)[i] = listing[k][Before(page) + i]
    <2>1. i \in 1 .. upTo - first + 1 /\ first + i - 1 = Before(page) + i
      BY <1>1, <1>2, <1>6, <1>5
    <2>2. QED
      BY <1>6, <2>1
  <1>9. QED
    BY <1>6, <1>7, <1>8 DEF upTo

(***************************************************************************)
(* What is left of a list when an item is taken out.                       *)
(***************************************************************************)
LEMMA RemoveAtProperties ==
    ASSUME NEW S, NEW s \in Seq(S), NEW i \in 1 .. Len(s)
    PROVE  RemoveAt(s, i) \in Seq(S) /\ Len(RemoveAt(s, i)) = Len(s) - 1
  <1>1. /\ SubSeq(s, 1, i - 1) \in Seq(S) /\ Len(SubSeq(s, 1, i - 1)) = i - 1
    <2>1. /\ 1 \in Int /\ i - 1 \in Int /\ \A j \in 1 .. i - 1 : s[j] \in S
      OBVIOUS
    <2>2. QED
      BY <2>1, SubSeqProperties
  <1>2. /\ SubSeq(s, i + 1, Len(s)) \in Seq(S) /\ Len(SubSeq(s, i + 1, Len(s))) = Len(s) - i
    <2>1. /\ i + 1 \in Int /\ Len(s) \in Int /\ \A j \in i + 1 .. Len(s) : s[j] \in S
      OBVIOUS
    <2>2. QED
      BY <2>1, SubSeqProperties
  <1>3. PICK a, b : a = SubSeq(s, 1, i - 1) /\ b = SubSeq(s, i + 1, Len(s))
    OBVIOUS
  <1>4. a \o b \in Seq(S) /\ Len(a \o b) = Len(a) + Len(b)
    BY <1>1, <1>2, <1>3, ConcatProperties
  <1>5. RemoveAt(s, i) = a \o b
    BY <1>3 DEF RemoveAt
  <1>6. Len(a) = i - 1 /\ Len(b) = Len(s) - i /\ Len(s) \in Nat
    BY <1>1, <1>2, <1>3
  <1>7. QED
    BY <1>4, <1>5, <1>6

-----------------------------------------------------------------------------
(***************************************************************************)
(* What the steps do to a stream and to the list.                          *)
(***************************************************************************)
LEMMA ArrivesEffect ==
    ASSUME TypeInv, NEW k \in Kinds, PageArrives(k)
    PROVE  LET old == stream[k]
               all == old.got \o PageOf(k, old.page)
           IN  /\ Requesting(k)
               /\ UNCHANGED <<listing, indexed, promised, dropped>>
               /\ \E new \in Streams :
                     /\ stream' = [stream EXCEPT ![k] = new]
                     /\ \/ /\ new.pc = "returned" /\ new.got = all
                           /\ Len(PageOf(k, old.page)) < Offset
                        \/ /\ new.pc = "page" /\ new.got = all /\ new.page = old.page + 1
                           /\ Len(PageOf(k, old.page)) >= Offset
                        \/ /\ new.pc = "truncated" /\ new.got = <<>> /\ old.page >= MaxPages
                           /\ Len(PageOf(k, old.page)) >= Offset
  <1> DEFINE old == stream[k]
             page == PageOf(k, old.page)
             all == old.got \o page
  <1>1. old \in Streams /\ old.page \in 1 .. MaxPages /\ old.got \in Seq(Hashes)
    BY DEF TypeInv, Streams
  <1>2. page \in Seq(Hashes)
    BY <1>1, PageRead
  <1>3. all \in Seq(Hashes)
    BY <1>1, <1>2, ConcatProperties
  <1>4. Requesting(k) /\ UNCHANGED <<listing, indexed, promised, dropped>>
    BY DEF PageArrives
  <1>5. CASE Len(page) < Offset /\ Return(k, all)
    <2> DEFINE new == [old EXCEPT !.pc = "returned", !.got = all]
    <2>1. new \in Streams /\ new.pc = "returned" /\ new.got = all
      BY <1>1, <1>3 DEF Streams
    <2>2. stream' = [stream EXCEPT ![k] = new]
      BY <1>5 DEF Return, TypeInv
    <2>3. QED
      BY <1>4, <1>5, <2>1, <2>2
  <1>6. CASE /\ Len(page) >= Offset /\ MorePages(k)
             /\ stream' = [stream EXCEPT ![k] = [ pc   |-> "page",
                                                  page |-> @.page + 1,
                                                  got  |-> all ]]
    <2> DEFINE new == [pc |-> "page", page |-> old.page + 1, got |-> all]
    <2>1. old.page + 1 \in 1 .. MaxPages
      BY <1>1, <1>6, PageAssumption DEF MorePages
    <2>2. new \in Streams
      BY <1>3, <2>1 DEF Streams
    <2>3. QED
      BY <1>4, <1>6, <2>2
  <1>7. CASE Len(page) >= Offset /\ ~ MorePages(k) /\ Throw(k, "truncated")
    <2> DEFINE new == [old EXCEPT !.pc = "truncated", !.got = <<>>]
    <2>1. new \in Streams /\ new.pc = "truncated" /\ new.got = <<>>
      BY <1>1, EmptySeq DEF Streams
    <2>2. stream' = [stream EXCEPT ![k] = new]
      BY <1>7 DEF Throw, TypeInv
    <2>3. old.page >= MaxPages
      BY <1>1, <1>7, PageAssumption DEF MorePages
    <2>4. QED
      BY <1>4, <1>7, <2>1, <2>2, <2>3
  <1>8. QED
    BY <1>5, <1>6, <1>7 DEF PageArrives

Waits(k) == RateLimited(k) \/ RetryPage(k) \/ RequestFails(k)

LEMMA WaitsEffect ==
    ASSUME TypeInv, NEW k \in Kinds, Waits(k)
    PROVE  /\ UNCHANGED <<listing, indexed, promised, dropped>>
           /\ \E new \in Streams :
                 /\ stream' = [stream EXCEPT ![k] = new]
                 /\ \/ new.pc = "failed"
                    \/ /\ new.pc \in {"delay", "retry"} /\ stream[k].pc \in {"page", "delay"}
                       /\ new.page = stream[k].page /\ new.got = stream[k].got
  <1>1. stream[k] \in Streams
    BY DEF TypeInv
  <1>2. CASE RateLimited(k)
    <2> DEFINE new == [stream[k] EXCEPT !.pc = "delay"]
    <2>1. new \in Streams /\ new.pc = "delay" /\ new.page = stream[k].page /\ new.got = stream[k].got
      BY <1>1 DEF Streams
    <2>2. QED
      BY <1>2, <2>1 DEF RateLimited, TypeInv
  <1>3. CASE RetryPage(k)
    <2> DEFINE new == [stream[k] EXCEPT !.pc = "retry"]
    <2>1. new \in Streams /\ new.pc = "retry" /\ new.page = stream[k].page /\ new.got = stream[k].got
      BY <1>1 DEF Streams
    <2>2. QED
      BY <1>3, <2>1 DEF RetryPage, TypeInv
  <1>4. CASE RequestFails(k)
    <2> DEFINE new == [stream[k] EXCEPT !.pc = "failed", !.got = <<>>]
    <2>1. new \in Streams /\ new.pc = "failed"
      BY <1>1, EmptySeq DEF Streams
    <2>2. QED
      BY <1>4, <2>1 DEF RequestFails, Throw, TypeInv
  <1>5. QED
    BY <1>2, <1>3, <1>4 DEF Waits

LEMMA ReorganiseEffect ==
    ASSUME TypeInv, NEW k \in Kinds, Reorganise(k)
    PROVE  /\ listing' \in [Kinds -> Seq(Hashes)] /\ dropped' \in [Kinds -> Seq(Hashes)]
           /\ indexed' = [indexed EXCEPT ![k] = @ - 1] /\ indexed[k] >= 1
           /\ promised' = [j \in Kinds |-> 0] /\ UNCHANGED stream
           /\ Len(listing'[k]) = Len(listing[k]) - 1 /\ Len(dropped'[k]) = Len(dropped[k]) + 1
           /\ \A j \in Kinds \ {k} : listing'[j] = listing[j] /\ dropped'[j] = dropped[j]
  <1>1. PICK i \in 1 .. indexed[k] :
            /\ listing' = [listing EXCEPT ![k] = RemoveAt(@, i)]
            /\ dropped' = [dropped EXCEPT ![k] = Append(@, listing[k][i])]
    BY DEF Reorganise
  <1>2. /\ listing[k] \in Seq(Hashes) /\ dropped[k] \in Seq(Hashes)
        /\ indexed[k] \in Nat /\ indexed[k] <= Len(listing[k])
    BY DEF TypeInv
  <1>3. i \in 1 .. Len(listing[k]) /\ indexed[k] >= 1
    BY <1>2
  <1>4. /\ RemoveAt(listing[k], i) \in Seq(Hashes)
        /\ Len(RemoveAt(listing[k], i)) = Len(listing[k]) - 1
    BY <1>2, <1>3, RemoveAtProperties
  <1>5. /\ Append(dropped[k], listing[k][i]) \in Seq(Hashes)
        /\ Len(Append(dropped[k], listing[k][i])) = Len(dropped[k]) + 1
    BY <1>2, <1>3
  <1>6. QED
    BY <1>1, <1>3, <1>4, <1>5 DEF Reorganise, TypeInv

-----------------------------------------------------------------------------

LEMMA TypeInitial ==
    ASSUME Init
    PROVE  TypeInv
  <1>1. listing \in [Kinds -> Seq(Hashes)]
    BY ListingAssumption DEF Init
  <1>2. /\ indexed \in [Kinds -> Nat] /\ promised = indexed
        /\ \A k \in Kinds : indexed[k] <= Len(listing[k])
    <2>1. PICK n : n = Len(listing["normal"]) + Len(listing["internal"])
      OBVIOUS
    <2>2. n \in Nat
      BY <1>1, <2>1 DEF Kinds
    <2>3. indexed \in [Kinds -> 0 .. n]
      BY <2>1 DEF Init
    <2>4. indexed \in [Kinds -> Nat]
      BY <2>2, <2>3
    <2>5. QED
      BY <2>4 DEF Init
  <1>3. dropped \in [Kinds -> Seq(Hashes)]
    BY DEF Init
  <1>4. stream \in [Kinds -> Streams]
    <2>1. 1 \in 1 .. MaxPages
      BY PageAssumption
    <2>2. [pc |-> "page", page |-> 1, got |-> <<>>] \in Streams
      BY <2>1 DEF Streams
    <2>3. QED
      BY <2>2 DEF Init
  <1>5. QED
    BY <1>1, <1>2, <1>3, <1>4 DEF TypeInv

LEMMA TypeInvariant == Spec => []TypeInv
  <1>1. Init => TypeInv
    BY TypeInitial
  <1>2. TypeInv /\ [Next]_vars => TypeInv'
    <2> SUFFICES ASSUME TypeInv, [Next]_vars PROVE TypeInv'
      OBVIOUS
    <2>1. ASSUME NEW k \in Kinds, PageArrives(k) \/ Waits(k) PROVE TypeInv'
      <3>1. /\ UNCHANGED <<listing, indexed, promised, dropped>>
            /\ \E new \in Streams : stream' = [stream EXCEPT ![k] = new]
        BY <2>1, ArrivesEffect, WaitsEffect
      <3>2. QED
        BY <3>1 DEF TypeInv
    <2>2. ASSUME NEW k \in Kinds, Index(k) PROVE TypeInv'
      <3>1. /\ indexed' = [indexed EXCEPT ![k] = @ + 1] /\ indexed[k] < Len(listing[k])
            /\ UNCHANGED <<listing, promised, dropped, stream>>
        BY <2>2 DEF Index
      <3>2. \A j \in Kinds : /\ indexed[j] \in Nat /\ promised[j] \in Nat
                             /\ Len(listing[j]) \in Nat
        BY DEF TypeInv
      <3>3. QED
        BY <3>1, <3>2 DEF TypeInv
    <2>3. ASSUME NEW k \in Kinds, Reorganise(k) PROVE TypeInv'
      <3>1. /\ listing' \in [Kinds -> Seq(Hashes)] /\ dropped' \in [Kinds -> Seq(Hashes)]
            /\ indexed' = [indexed EXCEPT ![k] = @ - 1] /\ indexed[k] >= 1
            /\ promised' = [j \in Kinds |-> 0] /\ UNCHANGED stream
            /\ Len(listing'[k]) = Len(listing[k]) - 1
            /\ \A j \in Kinds \ {k} : listing'[j] = listing[j]
        BY <2>3, ReorganiseEffect
      <3>2. \A j \in Kinds : indexed[j] \in Nat /\ indexed[j] <= Len(listing[j])
                             /\ Len(listing[j]) \in Nat
        BY DEF TypeInv
      <3>3. indexed' \in [Kinds -> Nat] /\ promised' \in [Kinds -> Nat]
        BY <3>1, <3>2 DEF TypeInv
      <3>4. \A j \in Kinds : promised'[j] <= indexed'[j] /\ indexed'[j] <= Len(listing'[j])
        BY <3>1, <3>2, <3>3 DEF TypeInv
      <3>5. QED
        BY <3>1, <3>3, <3>4 DEF TypeInv
    <2>4. CASE UNCHANGED vars
      BY <2>4 DEF vars, TypeInv
    <2>5. QED
      BY <2>1, <2>2, <2>3, <2>4 DEF Next, StreamStep, Waits
  <1>3. QED
    BY <1>1, <1>2, PTL DEF Spec

-----------------------------------------------------------------------------

LEMMA GuardInvariant == Spec => []GuardInv
  <1>1. Init => GuardInv
    BY DEF Init, GuardInv
  <1>2. TypeInv /\ GuardInv /\ [Next]_vars => GuardInv'
    <2> SUFFICES ASSUME TypeInv, GuardInv, [Next]_vars PROVE GuardInv'
      OBVIOUS
    <2>1. \A k \in Kinds :
              /\ stream[k] \in Streams /\ stream[k].page \in 1 .. MaxPages
              /\ indexed[k] \in Nat /\ promised[k] \in Nat /\ promised[k] <= indexed[k]
              /\ Len(dropped[k]) \in Nat
      BY DEF TypeInv, Streams
    <2>2. MaxPages * Offset \in Nat /\ MaxPages * Offset > 0
      <3>1. 1 * Offset <= MaxPages * Offset /\ Offset > 0 /\ MaxPages * Offset \in Nat
        BY PageAssumption, TimesMonotone
      <3>2. QED
        BY <3>1, PageAssumption
    <2>3. ASSUME NEW k \in Kinds, PageArrives(k) PROVE GuardInv'
      <3>1. PICK page : page = stream[k].page
        OBVIOUS
      <3>2. PICK p : p = PageOf(k, page)
        OBVIOUS
      <3>3. /\ UNCHANGED <<indexed, promised, dropped>>
            /\ \E new \in Streams :
                  /\ stream' = [stream EXCEPT ![k] = new]
                  /\ \/ new.pc = "returned" /\ Len(p) < Offset
                     \/ new.pc = "page"
                     \/ new.pc = "truncated" /\ page >= MaxPages /\ Len(p) >= Offset
        BY <2>3, <3>1, <3>2, ArrivesEffect
      <3>4. /\ page \in 1 .. MaxPages /\ Before(page) \in Nat /\ page * Offset \in Nat
            /\ page * Offset = Before(page) + Offset /\ page * Offset <= MaxPages * Offset
            /\ page >= MaxPages => page * Offset = MaxPages * Offset
            /\ Offset \in Nat \ {0}
        BY <2>1, <3>1, PageBounds, PageAssumption
      <3>5. PICK upTo : upTo = IF page * Offset <= indexed[k] THEN page * Offset ELSE indexed[k]
        OBVIOUS
      <3>6. Len(p) = IF Before(page) <= upTo THEN upTo - Before(page) ELSE 0
        BY <3>2, <3>4, <3>5, PageRead
      <3>7. Len(p) >= Offset => page * Offset <= indexed[k]
        BY <2>1, <3>4, <3>5, <3>6
      <3>8. Len(p) < Offset => indexed[k] < page * Offset
        BY <2>1, <3>4, <3>5, <3>6
      <3>9. /\ Len(p) < Offset => promised[k] < MaxPages * Offset
            /\ page >= MaxPages /\ Len(p) >= Offset
                  => indexed[k] + Len(dropped[k]) >= MaxPages * Offset
        BY <2>1, <2>2, <3>4, <3>7, <3>8
      <3>10. QED
        BY <3>3, <3>9 DEF GuardInv, TypeInv
    <2>4. ASSUME NEW k \in Kinds, Waits(k) PROVE GuardInv'
      <3>1. /\ UNCHANGED <<indexed, promised, dropped>>
            /\ \E new \in Streams : /\ stream' = [stream EXCEPT ![k] = new]
                                    /\ new.pc \in {"failed", "delay", "retry"}
        BY <2>4, WaitsEffect
      <3>2. QED
        BY <3>1 DEF GuardInv, TypeInv
    <2>5. ASSUME NEW k \in Kinds, Index(k) PROVE GuardInv'
      <3>1. indexed' = [indexed EXCEPT ![k] = @ + 1] /\ UNCHANGED <<promised, dropped, stream>>
        BY <2>5 DEF Index
      <3>2. \A j \in Kinds : indexed'[j] \in Nat /\ indexed'[j] >= indexed[j]
        BY <2>1, <3>1 DEF TypeInv
      <3>3. QED
        BY <2>1, <2>2, <3>1, <3>2 DEF GuardInv
    <2>6. ASSUME NEW k \in Kinds, Reorganise(k) PROVE GuardInv'
      <3>1. /\ indexed' = [indexed EXCEPT ![k] = @ - 1]
            /\ promised' = [j \in Kinds |-> 0] /\ UNCHANGED stream
            /\ Len(dropped'[k]) = Len(dropped[k]) + 1
            /\ \A j \in Kinds \ {k} : dropped'[j] = dropped[j]
        BY <2>6, ReorganiseEffect
      <3>2. \A j \in Kinds : indexed'[j] + Len(dropped'[j]) = indexed[j] + Len(dropped[j])
        BY <2>1, <3>1 DEF TypeInv
      <3>3. QED
        BY <2>2, <3>1, <3>2 DEF GuardInv
    <2>7. CASE UNCHANGED vars
      BY <2>7 DEF vars, GuardInv
    <2>8. QED
      BY <2>3, <2>4, <2>5, <2>6, <2>7 DEF Next, StreamStep, Waits
  <1>3. QED
    BY <1>1, <1>2, TypeInvariant, PTL DEF Spec

(***************************************************************************)
(* A range is refused only if it really fills the pages there are, and a   *)
(* stream returns only if it did not when the call began: for any page     *)
(* size and number of pages, those of the code (2000 and 500) included.    *)
(***************************************************************************)
THEOREM GuardExact == Spec => []TruncationOnlyIfFull
  <1>1. GuardInv => TruncationOnlyIfFull
    BY DEF GuardInv, TruncationOnlyIfFull
  <1>2. QED
    BY <1>1, GuardInvariant, PTL

LEMMA PagesInvariant == Spec => []PagesInv
  <1>1. Init => PagesInv
    <2> SUFFICES ASSUME Init, NEW k \in Kinds
                 PROVE  ReadsHead(k) /\ stream[k].pc # "returned"
                        /\ Len(stream[k].got) = Before(stream[k].page)
      BY DEF PagesInv
    <2>1. /\ stream[k].got = <<>> /\ stream[k].page = 1 /\ stream[k].pc = "page"
          /\ indexed[k] \in Nat
      BY TypeInitial DEF Init, TypeInv
    <2>2. Len(stream[k].got) = 0 /\ Before(1) = 0
      BY <2>1, PageAssumption DEF Before
    <2>3. QED
      BY <2>1, <2>2 DEF ReadsHead
  <1>2. TypeInv /\ PagesInv /\ [Next]_vars => PagesInv'
    <2> SUFFICES ASSUME TypeInv, PagesInv, [Next]_vars PROVE PagesInv'
      OBVIOUS
    <2>1. \A k \in Kinds :
              /\ stream[k] \in Streams /\ stream[k].page \in 1 .. MaxPages
              /\ stream[k].got \in Seq(Hashes) /\ listing[k] \in Seq(Hashes)
              /\ indexed[k] \in Nat /\ promised[k] \in Nat /\ promised[k] <= indexed[k]
              /\ Len(dropped[k]) \in Nat
      BY DEF TypeInv, Streams
    <2>2. ASSUME NEW k \in Kinds, PageArrives(k) PROVE PagesInv'
      <3>1. PICK old, p : old = stream[k] /\ p = PageOf(k, old.page)
        OBVIOUS
      <3>2. /\ Requesting(k) /\ UNCHANGED <<listing, indexed, promised, dropped>>
            /\ \E new \in Streams :
                  /\ stream' = [stream EXCEPT ![k] = new]
                  /\ \/ new.pc = "returned" /\ new.got = old.got \o p /\ Len(p) < Offset
                     \/ /\ new.pc = "page" /\ new.got = old.got \o p /\ new.page = old.page + 1
                        /\ Len(p) >= Offset
                     \/ new.pc = "truncated"
        BY <2>2, <3>1, ArrivesEffect
      <3>3. PICK new \in Streams :
                /\ stream' = [stream EXCEPT ![k] = new]
                /\ \/ new.pc = "returned" /\ new.got = old.got \o p /\ Len(p) < Offset
                   \/ /\ new.pc = "page" /\ new.got = old.got \o p /\ new.page = old.page + 1
                      /\ Len(p) >= Offset
                   \/ new.pc = "truncated"
        BY <3>2
      <3>4. /\ old.page \in 1 .. MaxPages /\ Before(old.page) \in Nat /\ old.page * Offset \in Nat
            /\ old.page * Offset = Before(old.page) + Offset
            /\ Before(old.page + 1) = old.page * Offset /\ Offset \in Nat \ {0}
            /\ old.got \in Seq(Hashes)
        BY <2>1, <3>1, PageBounds, PageAssumption
      <3>5. PICK upTo : upTo = IF old.page * Offset <= indexed[k]
                               THEN old.page * Offset ELSE indexed[k]
        OBVIOUS
      <3>6. /\ p \in Seq(Hashes)
            /\ Len(p) = IF Before(old.page) <= upTo THEN upTo - Before(old.page) ELSE 0
            /\ \A i \in 1 .. Len(p) : p[i] = listing[k][Before(old.page) + i]
        BY <3>1, <3>4, <3>5, PageRead
      <3>7. /\ Len(old.got \o p) = Len(old.got) + Len(p)
            /\ \A i \in 1 .. Len(old.got) + Len(p) :
                  (old.got \o p)[i] = IF i <= Len(old.got) THEN old.got[i] ELSE p[i - Len(old.got)]
        BY <3>4, <3>6, ConcatProperties
      <3>8. ASSUME dropped[k] = <<>>, new.pc # "truncated"
            PROVE  /\ Len(new.got) <= indexed[k]
                   /\ \A i \in 1 .. Len(new.got) : new.got[i] = listing[k][i]
                   /\ new.pc = "returned" => Len(new.got) >= promised[k]
                   /\ new.pc = "page" => Len(new.got) = Before(new.page)
        <4>1. /\ Len(old.got) = Before(old.page) /\ Len(old.got) <= indexed[k]
              /\ \A i \in 1 .. Len(old.got) : old.got[i] = listing[k][i]
          BY <3>1, <3>2, <3>8 DEF PagesInv, ReadsHead, Requesting, Threw
        <4>2. new.got = old.got \o p
          BY <3>3, <3>8
        <4>3. Before(old.page) <= upTo /\ upTo \in Nat /\ upTo <= indexed[k]
          BY <2>1, <3>4, <3>5, <4>1
        <4>4. Len(new.got) = upTo
          BY <3>4, <3>6, <3>7, <4>1, <4>2, <4>3
        <4>5. ASSUME NEW i \in 1 .. Len(new.got) PROVE new.got[i] = listing[k][i]
          <5>1. i \in 1 .. Len(old.got) + Len(p)
            BY <3>7, <4>2
          <5>2. CASE i <= Len(old.got)
            BY <3>7, <4>1, <4>2, <5>1, <5>2
          <5>3. CASE ~ (i <= Len(old.got))
            <6>1. Len(p) \in Nat /\ Len(old.got) \in Nat
              BY <3>4, <3>6
            <6>2. i - Len(old.got) \in 1 .. Len(p)
              BY <5>1, <5>3, <6>1
            <6>3. Before(old.page) + (i - Len(old.got)) = i
              BY <3>4, <4>1, <5>1
            <6>4. QED
              BY <3>6, <3>7, <4>2, <5>1, <5>3, <6>2, <6>3
          <5>4. QED
            BY <5>2, <5>3
        <4>6. new.pc = "returned" => upTo = indexed[k]
          BY <2>1, <3>3, <3>4, <3>5, <3>6, <4>3
        <4>7. new.pc = "page" => upTo = old.page * Offset /\ new.page = old.page + 1
          BY <2>1, <3>3, <3>4, <3>5, <3>6, <4>3
        <4>8. QED
          BY <2>1, <3>4, <4>3, <4>4, <4>5, <4>6, <4>7
      <3>9. new.pc \in {"returned", "page", "truncated"}
        BY <3>3
      <3>10. QED
        BY <3>2, <3>3, <3>8, <3>9 DEF PagesInv, ReadsHead, ReadsAll, Threw, TypeInv
    <2>3. ASSUME NEW k \in Kinds, Waits(k) PROVE PagesInv'
      <3>1. /\ UNCHANGED <<listing, indexed, promised, dropped>>
            /\ \E new \in Streams :
                  /\ stream' = [stream EXCEPT ![k] = new]
                  /\ \/ new.pc = "failed"
                     \/ /\ new.pc \in {"delay", "retry"} /\ stream[k].pc \in {"page", "delay"}
                        /\ new.page = stream[k].page /\ new.got = stream[k].got
        BY <2>3, WaitsEffect
      <3>2. QED
        BY <3>1 DEF PagesInv, ReadsHead, ReadsAll, Threw, TypeInv
    <2>4. ASSUME NEW k \in Kinds, Index(k) PROVE PagesInv'
      <3>1. /\ indexed' = [indexed EXCEPT ![k] = @ + 1]
            /\ UNCHANGED <<listing, promised, dropped, stream>>
        BY <2>4 DEF Index
      <3>2. \A j \in Kinds : indexed'[j] \in Nat /\ indexed'[j] >= indexed[j]
                             /\ Len(stream[j].got) \in Nat
        BY <2>1, <3>1 DEF TypeInv
      <3>3. QED
        BY <2>1, <3>1, <3>2 DEF PagesInv, ReadsHead, ReadsAll, Threw
    <2>5. ASSUME NEW k \in Kinds, Reorganise(k) PROVE PagesInv'
      <3>1. /\ indexed' = [indexed EXCEPT ![k] = @ - 1]
            /\ promised' = [j \in Kinds |-> 0] /\ UNCHANGED stream
            /\ Len(dropped'[k]) = Len(dropped[k]) + 1
            /\ \A j \in Kinds \ {k} : listing'[j] = listing[j] /\ dropped'[j] = dropped[j]
        BY <2>5, ReorganiseEffect
      <3>2. dropped'[k] # <<>>
        BY <2>1, <3>1, EmptySeq
      <3>3. \A j \in Kinds : Len(stream[j].got) \in Nat
        BY <2>1
      <3>4. \A j \in Kinds \ {k} : indexed'[j] = indexed[j]
        BY <3>1 DEF TypeInv
      <3>5. QED
        BY <3>1, <3>2, <3>3, <3>4 DEF PagesInv, ReadsHead, ReadsAll, Threw
    <2>6. CASE UNCHANGED vars
      BY <2>6 DEF vars, PagesInv, ReadsHead, ReadsAll, Threw
    <2>7. QED
      BY <2>2, <2>3, <2>4, <2>5, <2>6 DEF Next, StreamStep, Waits
  <1>3. QED
    BY <1>1, <1>2, TypeInvariant, PTL DEF Spec

(***************************************************************************)
(* However the pages arrive, are retried and grow meanwhile, a stream that *)
(* returns has read all that was listed when the call began, and nothing   *)
(* twice.                                                                  *)
(***************************************************************************)
THEOREM PagesWhole == Spec => []StreamWhole
  <1>1. PagesInv => StreamWhole
    BY DEF PagesInv, StreamWhole, Threw
  <1>2. QED
    BY <1>1, PagesInvariant, PTL

-----------------------------------------------------------------------------
(***************************************************************************)
(* The merge.  A stable sort: the items in another order, each before      *)
(* those it goes before.                                                   *)
(***************************************************************************)
SortsTo(sorted, order, items) ==
    /\ order \in [1 .. Len(items) -> 1 .. Len(items)]
    /\ \A p \in 1 .. Len(items) : sorted[p] = items[order[p]]
    /\ \A p, q \in 1 .. Len(items) : p < q => Goes(items, order[p], order[q])
    /\ \A i \in 1 .. Len(items) : \E p \in 1 .. Len(items) : order[p] = i

LEMMA SortedItems ==
    ASSUME NEW items \in Seq(Items)
    PROVE  /\ Sorted[items] \in Seq(Items) /\ Len(Sorted[items]) = Len(items)
           /\ \E order : SortsTo(Sorted[items], order, items)
  <1> DEFINE n == Len(items)
             places == 1 .. n
             R == {e \in places \X places : Goes(items, e[1], e[2])}
             order == Enumerated(places, R)
  <1>1. n \in Nat /\ DOMAIN items = places
    OBVIOUS
  <1>2. IsFiniteSet(places) /\ Cardinality(places) = n
    <2>1. 1 \in Int /\ n \in Int /\ n - 1 + 1 = n /\ (1 > n => n = 0)
      BY <1>1
    <2> HIDE DEF n
    <2>2. QED
      BY <2>1, FS_Interval
  <1>3. \A i, j \in places : <<i, j>> \in R <=> Goes(items, i, j)
    OBVIOUS
  <1>4. \A i \in places : TimeStamp[items[i].hash] \in Nat /\ items[i] \in Items
    <2>1. \A i \in places : items[i] \in Items
      OBVIOUS
    <2>2. QED
      BY <2>1, ListingAssumption DEF Items
  <1>5. StrictOrder(places, R)
    <2>1. \A i \in places : ~ Goes(items, i, i)
      BY <1>1, <1>4 DEF Goes
    <2>2. \A i, j \in places : i # j => Goes(items, i, j) \/ Goes(items, j, i)
      BY <1>1, <1>4 DEF Goes
    <2>3. \A i, j, k \in places : Goes(items, i, j) /\ Goes(items, j, k) => Goes(items, i, k)
      BY <1>1, <1>4 DEF Goes
    <2> HIDE DEF R, places
    <2>4. QED
      BY <1>3, <2>1, <2>2, <2>3 DEF StrictOrder
  <1>6. ASSUME NEW i \in places
        PROVE  Cardinality({j \in DOMAIN items : Goes(items, j, i)}) = Rank(places, R, i)
    <2>1. {j \in DOMAIN items : Goes(items, j, i)} = {j \in places : <<j, i>> \in R}
      BY <1>1
    <2>2. QED
      BY <2>1 DEF Rank
  <1> HIDE DEF R
  <1>7. Sorted[items] = [p \in places |-> items[order[p]]]
    <2>1. Sorted[items] = [p \in DOMAIN items |->
               items[CHOOSE i \in DOMAIN items :
                        Cardinality({j \in DOMAIN items : Goes(items, j, i)}) = p - 1]]
      BY DEF Sorted
    <2>2. ASSUME NEW p \in places
          PROVE  (CHOOSE i \in DOMAIN items :
                     Cardinality({j \in DOMAIN items : Goes(items, j, i)}) = p - 1) = order[p]
      <3> DEFINE A(i) == Cardinality({j \in DOMAIN items : Goes(items, j, i)}) = p - 1
                 B(i) == Rank(places, R, i) = p - 1
      <3>1. order[p] = CHOOSE i \in places : B(i)
        BY <1>2 DEF Enumerated
      <3>2. \A i \in places : A(i) <=> B(i)
        BY <1>6
      <3> HIDE DEF A, B, places
      <3>3. (CHOOSE i \in places : A(i)) = CHOOSE i \in places : B(i)
        BY <3>2
      <3>4. (CHOOSE i \in DOMAIN items : A(i)) = order[p]
        BY <1>1, <3>1, <3>3
      <3>5. QED
        BY <3>4 DEF A
    <2> HIDE DEF order, places
    <2>3. QED
      BY <1>1, <2>1, <2>2
  <1>8. /\ order \in [places -> places]
        /\ \A p, q \in places : p < q => <<order[p], order[q]>> \in R
        /\ \A i \in places : \E p \in places : order[p] = i
    <2> HIDE DEF places
    <2>1. Enumerates(order, n, places, R)
      BY <1>2, <1>5, Enumeration
    <2> HIDE DEF order
    <2>2. QED
      BY <2>1 DEF Enumerates, places
  <1> HIDE DEF order
  <1>9. \A p, q \in places : p < q => Goes(items, order[p], order[q])
    BY <1>3, <1>8
  <1>10. Sorted[items] \in Seq(Items) /\ Len(Sorted[items]) = n
    <2>1. \A p \in places : items[order[p]] \in Items
      BY <1>4, <1>8
    <2>2. Sorted[items] \in [1 .. n -> Items]
      BY <1>7, <2>1
    <2> HIDE DEF n
    <2>3. QED
      BY <1>1, <2>2
  <1>11. \A p \in places : Sorted[items][p] = items[order[p]]
    BY <1>7
  <1>12. SortsTo(Sorted[items], order, items)
    BY <1>8, <1>9, <1>11 DEF SortsTo
  <1>13. QED
    BY <1>10, <1>12

FirstPlaces(items) ==
    {i \in DOMAIN items : \A j \in 1 .. i - 1 : items[j].hash # items[i].hash}

LEMMA FirstExists ==
    ASSUME NEW items \in Seq(Items), NEW i \in DOMAIN items
    PROVE  \E f \in FirstPlaces(items) : f <= i /\ items[f].hash = items[i].hash
  <1> DEFINE HasFirst(k) == \E f \in FirstPlaces(items) : f <= k /\ items[f].hash = items[k].hash
             Reached == {m \in Nat : \A k \in 1 .. m : k \in DOMAIN items => HasFirst(k)}
  <1>1. DOMAIN items = 1 .. Len(items) /\ Len(items) \in Nat
    OBVIOUS
  <1>2. 0 \in Reached
    OBVIOUS
  <1>3. ASSUME NEW m \in Nat, m \in Reached PROVE m + 1 \in Reached
    <2>1. ASSUME m + 1 \in DOMAIN items PROVE HasFirst(m + 1)
      <3>1. CASE \A j \in 1 .. m : items[j].hash # items[m + 1].hash
        <4>1. (m + 1) - 1 = m
          OBVIOUS
        <4>2. m + 1 \in FirstPlaces(items)
          BY <2>1, <3>1, <4>1 DEF FirstPlaces
        <4>3. QED
          BY <4>2
      <3>2. CASE \E j \in 1 .. m : items[j].hash = items[m + 1].hash
        <4>1. PICK j \in 1 .. m : items[j].hash = items[m + 1].hash
          BY <3>2
        <4>2. j \in DOMAIN items
          BY <1>1, <2>1
        <4>3. PICK f \in FirstPlaces(items) : f <= j /\ items[f].hash = items[j].hash
          BY <1>3, <4>2
        <4>4. f \in 1 .. Len(items)
          BY <1>1 DEF FirstPlaces
        <4>5. f <= m + 1
          BY <4>3, <4>4, <1>1
        <4>6. QED
          BY <4>1, <4>3, <4>5
      <3>3. QED
        BY <3>1, <3>2
    <2> HIDE DEF HasFirst
    <2>2. QED
      BY <1>3, <2>1
  <1> HIDE DEF HasFirst, Reached
  <1>4. Nat \subseteq Reached
    BY <1>2, <1>3, InductiveSet
  <1>5. i \in Nat /\ i \in 1 .. i
    BY <1>1
  <1>6. HasFirst(i)
    BY <1>4, <1>5 DEF Reached
  <1>7. QED
    BY <1>6 DEF HasFirst

(***************************************************************************)
(* What the Map keeps: the first item of each hash, in their order.        *)
(***************************************************************************)
KeepsFirst(kept, order, items) ==
    /\ order \in [DOMAIN kept -> FirstPlaces(items)]
    /\ \A p \in DOMAIN kept : kept[p] = items[order[p]]
    /\ \A p, q \in DOMAIN kept : p < q => order[p] < order[q]
    /\ \A i \in FirstPlaces(items) : \E p \in DOMAIN kept : order[p] = i

LEMMA FirstItems ==
    ASSUME NEW items \in Seq(Items)
    PROVE  /\ FirstPerHash[items] \in Seq(Items)
           /\ \E order : KeepsFirst(FirstPerHash[items], order, items)
  <1> DEFINE first == FirstPlaces(items)
             n == Cardinality(first)
             R == {e \in first \X first : e[1] < e[2]}
             order == Enumerated(first, R)
  <1>1. DOMAIN items = 1 .. Len(items) /\ Len(items) \in Nat
    OBVIOUS
  <1>2. first \in SUBSET (1 .. Len(items))
    BY <1>1 DEF FirstPlaces
  <1>3. IsFiniteSet(first) /\ n \in Nat
    <2>1. IsFiniteSet(1 .. Len(items))
      BY <1>1, FS_Interval
    <2>2. QED
      BY <1>2, <2>1, FS_Subset, FS_CardinalityType
  <1>4. \A i \in first : i \in Nat /\ i \in DOMAIN items /\ items[i] \in Items
    BY <1>1, <1>2
  <1> HIDE DEF first
  <1>5. \A i, j \in first : <<i, j>> \in R <=> i < j
    OBVIOUS
  <1>6. ASSUME NEW i \in first
        PROVE  Cardinality(first \cap 1 .. i - 1) = Rank(first, R, i)
    <2>1. first \cap 1 .. i - 1 = {j \in first : <<j, i>> \in R}
      <3>1. ASSUME NEW j PROVE j \in first \cap 1 .. i - 1 <=> j \in first /\ <<j, i>> \in R
        <4>1. \A m \in first : m \in 1 .. i - 1 <=> m < i
          BY <1>2, <1>4
        <4>2. QED
          BY <1>5, <4>1
      <3> HIDE DEF R
      <3>2. QED
        BY <3>1
    <2>2. QED
      BY <2>1 DEF Rank
  <1> HIDE DEF R
  <1>7. StrictOrder(first, R)
    <2>1. \A i \in first : ~ (i < i)
      BY <1>4
    <2>2. \A i, j \in first : i # j => i < j \/ j < i
      BY <1>4
    <2>3. \A i, j, k \in first : i < j /\ j < k => i < k
      BY <1>4
    <2>4. QED
      BY <1>5, <2>1, <2>2, <2>3 DEF StrictOrder
  <1>8. FirstPerHash[items] = [p \in 1 .. n |-> items[order[p]]]
    <2>1. FirstPerHash[items] = [p \in 1 .. n |->
               items[CHOOSE i \in first : Cardinality(first \cap 1 .. i - 1) = p - 1]]
      BY DEF FirstPerHash, first, FirstPlaces
    <2>2. ASSUME NEW p \in 1 .. n
          PROVE  (CHOOSE i \in first : Cardinality(first \cap 1 .. i - 1) = p - 1) = order[p]
      <3> DEFINE A(i) == Cardinality(first \cap 1 .. i - 1) = p - 1
                 B(i) == Rank(first, R, i) = p - 1
      <3>1. order[p] = CHOOSE i \in first : B(i)
        BY DEF Enumerated
      <3>2. \A i \in first : A(i) <=> B(i)
        BY <1>6
      <3> HIDE DEF A, B
      <3>3. (CHOOSE i \in first : A(i)) = CHOOSE i \in first : B(i)
        BY <3>2
      <3>4. (CHOOSE i \in first : A(i)) = order[p]
        BY <3>1, <3>3
      <3>5. QED
        BY <3>4 DEF A
    <2> HIDE DEF order, n
    <2>3. QED
      BY <2>1, <2>2
  <1>9. /\ order \in [1 .. n -> first]
        /\ \A p, q \in 1 .. n : p < q => <<order[p], order[q]>> \in R
        /\ \A i \in first : \E p \in 1 .. n : order[p] = i
    <2>1. Enumerates(order, n, first, R)
      BY <1>3, <1>7, Enumeration
    <2> HIDE DEF order, n
    <2>2. QED
      BY <2>1 DEF Enumerates
  <1> HIDE DEF order
  <1>10. FirstPerHash[items] \in Seq(Items) /\ DOMAIN FirstPerHash[items] = 1 .. n
    <2>1. \A p \in 1 .. n : items[order[p]] \in Items
      BY <1>4, <1>9
    <2>2. FirstPerHash[items] \in [1 .. n -> Items] /\ DOMAIN FirstPerHash[items] = 1 .. n
      BY <1>8, <2>1
    <2> HIDE DEF n
    <2>3. QED
      BY <1>3, <2>2
  <1>11. \A p, q \in 1 .. n : p < q => order[p] < order[q]
    BY <1>5, <1>9
  <1>12. \A p \in 1 .. n : FirstPerHash[items][p] = items[order[p]]
    BY <1>8
  <1> HIDE DEF n
  <1>13. KeepsFirst(FirstPerHash[items], order, items)
    BY <1>9, <1>10, <1>11, <1>12 DEF KeepsFirst, first
  <1>14. QED
    BY <1>10, <1>13

(***************************************************************************)
(* The two lists one after the other, each item with its kind.             *)
(***************************************************************************)
Joined(normal, internal) == Tagged(normal, "normal") \o Tagged(internal, "internal")

LEMMA JoinedItems ==
    ASSUME NEW normal \in Seq(Hashes), NEW internal \in Seq(Hashes)
    PROVE  /\ Joined(normal, internal) \in Seq(Items)
           /\ Len(Joined(normal, internal)) = Len(normal) + Len(internal)
           /\ \A i \in 1 .. Len(normal) :
                 /\ Joined(normal, internal)[i].hash = normal[i]
                 /\ Joined(normal, internal)[i].kind = "normal"
           /\ \A i \in 1 .. Len(internal) :
                 Joined(normal, internal)[Len(normal) + i].hash = internal[i]
  <1> DEFINE a == Tagged(normal, "normal")
             b == Tagged(internal, "internal")
             n == Len(normal)
             m == Len(internal)
  <1>1. /\ n \in Nat /\ m \in Nat /\ DOMAIN normal = 1 .. n /\ DOMAIN internal = 1 .. m
        /\ \A i \in 1 .. n : normal[i] \in Hashes
        /\ \A i \in 1 .. m : internal[i] \in Hashes
    OBVIOUS
  <1> HIDE DEF n, m
  <1>2. /\ a \in [1 .. n -> Items]
        /\ \A i \in 1 .. n : a[i].hash = normal[i] /\ a[i].kind = "normal"
    BY <1>1 DEF Tagged, Items, Kinds
  <1>3. /\ b \in [1 .. m -> Items]
        /\ \A i \in 1 .. m : b[i].hash = internal[i]
    BY <1>1 DEF Tagged, Items, Kinds
  <1>4. Joined(normal, internal) = a \o b
    BY DEF Joined
  <1> HIDE DEF a, b
  <1>5. a \in Seq(Items) /\ Len(a) = n /\ b \in Seq(Items) /\ Len(b) = m
    BY <1>1, <1>2, <1>3
  <1>6. /\ a \o b \in Seq(Items) /\ Len(a \o b) = n + m
        /\ \A i \in 1 .. n + m : (a \o b)[i] = IF i <= n THEN a[i] ELSE b[i - n]
    BY <1>5, ConcatProperties
  <1>7. ASSUME NEW i \in 1 .. n PROVE (a \o b)[i] = a[i]
    BY <1>1, <1>6
  <1>8. ASSUME NEW i \in 1 .. m PROVE (a \o b)[n + i] = b[i]
    <2>1. n + i \in 1 .. n + m /\ ~ (n + i <= n) /\ (n + i) - n = i
      BY <1>1
    <2>2. QED
      BY <1>6, <2>1
  <1>9. QED
    BY <1>2, <1>3, <1>4, <1>6, <1>7, <1>8 DEF n, m

(***************************************************************************)
(* What the merge of two lists is: ordered by time, each hash once, as the *)
(* normal transaction if there is one, and the hashes of both.             *)
(***************************************************************************)
IsMerged(merged, normal, internal) ==
    /\ merged \in Seq(Items)
    /\ \A i, j \in DOMAIN merged :
          i < j => /\ TimeStamp[merged[i].hash] <= TimeStamp[merged[j].hash]
                   /\ merged[i].hash # merged[j].hash
    /\ \A i \in DOMAIN merged : merged[i].hash \in ToSet(normal) => merged[i].kind = "normal"
    /\ HashesOf(merged) = ToSet(normal) \cup ToSet(internal)

LEMMA MergeIsMerged ==
    ASSUME NEW normal \in Seq(Hashes), NEW internal \in Seq(Hashes)
    PROVE  IsMerged(Merge(normal, internal), normal, internal)
  <1> DEFINE n == Len(normal)
             m == Len(internal)
  <1>1. PICK items : items = Joined(normal, internal)
    OBVIOUS
  <1>2. /\ items \in Seq(Items) /\ Len(items) = n + m /\ n \in Nat /\ m \in Nat
        /\ \A i \in 1 .. n : items[i].hash = normal[i] /\ items[i].kind = "normal"
        /\ \A i \in 1 .. m : items[n + i].hash = internal[i]
    BY <1>1, JoinedItems
  <1>3. PICK sorted : sorted = Sorted[items]
    OBVIOUS
  <1>4. /\ sorted \in Seq(Items) /\ Len(sorted) = n + m
        /\ \E order : SortsTo(sorted, order, items)
    BY <1>2, <1>3, SortedItems
  <1>5. PICK order : SortsTo(sorted, order, items)
    BY <1>4
  <1>6. PICK merged : merged = FirstPerHash[sorted]
    OBVIOUS
  <1>7. merged \in Seq(Items) /\ \E kept : KeepsFirst(merged, kept, sorted)
    BY <1>4, <1>6, FirstItems
  <1>8. PICK kept : KeepsFirst(merged, kept, sorted)
    BY <1>7
  <1>9. Merge(normal, internal) = merged
    BY <1>1, <1>3, <1>6 DEF Merge, Joined
  <1>d. DOMAIN sorted = 1 .. n + m /\ DOMAIN items = 1 .. n + m
    BY <1>2, <1>4
  <1>t. \A i \in 1 .. n : normal[i] \in Hashes
    OBVIOUS
  <1>u. \A i \in 1 .. m : internal[i] \in Hashes
    OBVIOUS
  <1>v. ToSet(normal) = {normal[i] : i \in 1 .. n} /\ ToSet(internal) = {internal[i] : i \in 1 .. m}
    BY DEF ToSet
  <1> HIDE DEF n, m
  <1>10. /\ \A p \in 1 .. n + m : order[p] \in 1 .. n + m /\ sorted[p] = items[order[p]]
         /\ \A p, q \in 1 .. n + m : p < q => Goes(items, order[p], order[q])
         /\ \A i \in 1 .. n + m : \E p \in 1 .. n + m : order[p] = i
    BY <1>2, <1>5 DEF SortsTo
  <1>11. /\ \A p \in DOMAIN merged : /\ kept[p] \in 1 .. n + m /\ merged[p] = sorted[kept[p]]
                                     /\ \A q \in 1 .. kept[p] - 1 :
                                           sorted[q].hash # sorted[kept[p]].hash
         /\ \A p, q \in DOMAIN merged : p < q => kept[p] < kept[q]
         /\ \A i \in FirstPlaces(sorted) : \E p \in DOMAIN merged : kept[p] = i
    BY <1>8, <1>d DEF KeepsFirst, FirstPlaces
  <1>12. ASSUME NEW i \in DOMAIN merged, NEW j \in DOMAIN merged, i < j
         PROVE  /\ TimeStamp[merged[i].hash] <= TimeStamp[merged[j].hash]
                /\ merged[i].hash # merged[j].hash
    <2>1. kept[i] < kept[j] /\ kept[i] \in 1 .. n + m /\ kept[j] \in 1 .. n + m
      BY <1>11, <1>12
    <2>2. Goes(items, order[kept[i]], order[kept[j]])
      BY <1>10, <2>1
    <2>3. merged[i] = items[order[kept[i]]] /\ merged[j] = items[order[kept[j]]]
      BY <1>10, <1>11
    <2>4. merged[i] \in Items /\ merged[j] \in Items
      BY <1>7
    <2>5. TimeStamp[merged[i].hash] \in Nat /\ TimeStamp[merged[j].hash] \in Nat
      BY <2>4, ListingAssumption DEF Items
    <2>6. TimeStamp[merged[i].hash] <= TimeStamp[merged[j].hash]
      BY <2>2, <2>3, <2>5 DEF Goes
    <2>7. kept[i] \in 1 .. kept[j] - 1
      BY <2>1, <1>2
    <2>8. QED
      BY <1>11, <2>6, <2>7
  <1>13. ASSUME NEW i \in DOMAIN merged, merged[i].hash \in ToSet(normal)
         PROVE  merged[i].kind = "normal"
    <2>1. PICK a \in 1 .. n : merged[i].hash = normal[a]
      BY <1>13, <1>v
    <2>2. a \in 1 .. n + m
      BY <1>2
    <2>3. PICK q \in 1 .. n + m : order[q] = a
      BY <1>10, <2>2
    <2>4. sorted[q] = items[a] /\ sorted[q].hash = merged[i].hash /\ sorted[q].kind = "normal"
      BY <1>2, <1>10, <2>1, <2>3
    <2>5. kept[i] \in 1 .. n + m /\ merged[i] = sorted[kept[i]]
      BY <1>11
    <2>6. kept[i] <= q
      <3>1. q \notin 1 .. kept[i] - 1
        BY <1>11, <2>4, <2>5
      <3>2. QED
        BY <1>2, <2>5, <3>1
    <2>7. CASE kept[i] = q
      BY <2>4, <2>5, <2>7
    <2>8. CASE kept[i] < q
      <3> DEFINE b == order[kept[i]]
      <3>1. b \in 1 .. n + m /\ merged[i] = items[b]
        BY <1>10, <2>5
      <3>2. Goes(items, b, a)
        BY <1>10, <2>3, <2>5, <2>8
      <3>3. items[b].hash = items[a].hash
        BY <2>4, <3>1
      <3>4. merged[i] \in Items
        BY <1>7
      <3>5. TimeStamp[items[b].hash] \in Nat
        BY <3>1, <3>4, ListingAssumption DEF Items
      <3> HIDE DEF b
      <3>6. b < a
        BY <3>2, <3>3, <3>5 DEF Goes
      <3>7. b \in 1 .. n
        BY <1>2, <3>1, <3>6
      <3>8. QED
        BY <1>2, <3>1, <3>7
    <2>9. QED
      BY <1>2, <2>5, <2>6, <2>7, <2>8
  <1>14. HashesOf(merged) \subseteq ToSet(normal) \cup ToSet(internal)
    <2>1. ASSUME NEW p \in DOMAIN merged
          PROVE  merged[p].hash \in ToSet(normal) \cup ToSet(internal)
      <3> DEFINE b == order[kept[p]]
      <3>1. b \in 1 .. n + m /\ merged[p] = items[b]
        BY <1>10, <1>11
      <3> HIDE DEF b
      <3>2. CASE b <= n
        <4>1. b \in 1 .. n
          BY <1>2, <3>1, <3>2
        <4>2. QED
          BY <1>2, <1>v, <3>1, <4>1
      <3>3. CASE ~ (b <= n)
        <4>1. b - n \in 1 .. m /\ n + (b - n) = b
          BY <1>2, <3>1, <3>3
        <4>2. merged[p].hash = internal[b - n]
          BY <1>2, <3>1, <4>1
        <4>3. QED
          BY <1>v, <4>1, <4>2
      <3>4. QED
        BY <3>2, <3>3
    <2>2. QED
      BY <2>1 DEF HashesOf
  <1>15. ASSUME NEW a \in 1 .. n + m PROVE items[a].hash \in HashesOf(merged)
    <2>1. PICK q \in 1 .. n + m : order[q] = a
      BY <1>10
    <2>2. q \in DOMAIN sorted /\ sorted[q] = items[a]
      BY <1>10, <1>d, <2>1
    <2>3. PICK f \in FirstPlaces(sorted) : f <= q /\ sorted[f].hash = sorted[q].hash
      BY <1>4, <2>2, FirstExists
    <2>4. PICK p \in DOMAIN merged : kept[p] = f
      BY <1>11
    <2>5. merged[p].hash = items[a].hash
      BY <1>11, <2>2, <2>3, <2>4
    <2>6. QED
      BY <2>5 DEF HashesOf
  <1>16. ToSet(normal) \cup ToSet(internal) \subseteq HashesOf(merged)
    <2>1. ASSUME NEW i \in 1 .. n PROVE normal[i] \in HashesOf(merged)
      <3>1. i \in 1 .. n + m /\ items[i].hash = normal[i]
        BY <1>2
      <3>2. QED
        BY <1>15, <3>1
    <2>2. ASSUME NEW i \in 1 .. m PROVE internal[i] \in HashesOf(merged)
      <3>1. n + i \in 1 .. n + m /\ items[n + i].hash = internal[i]
        BY <1>2
      <3>2. QED
        BY <1>15, <3>1
    <2>3. QED
      BY <1>v, <2>1, <2>2
  <1>17. IsMerged(merged, normal, internal)
    BY <1>7, <1>12, <1>13, <1>14, <1>16 DEF IsMerged
  <1>18. QED
    BY <1>9, <1>17

-----------------------------------------------------------------------------
(***************************************************************************)
(* How the steps of a stream settle the call.                              *)
(***************************************************************************)
SettlesOne(k, new) ==
    \/ /\ new.pc = "returned" /\ Requesting(k)
       /\ IF outcome = "running" /\ \A j \in Kinds \ {k} : stream[j].pc = "returned"
          THEN /\ outcome' = "resolved"
               /\ history' = Merge(stream'["normal"].got, stream'["internal"].got)
          ELSE UNCHANGED <<outcome, history>>
    \/ /\ new.pc \in {"truncated", "failed"} /\ Requesting(k)
       /\ outcome' = IF outcome = "running" THEN "rejected" ELSE outcome
       /\ UNCHANGED history
    \/ /\ new.pc \in {"page", "delay", "retry"}
       /\ stream[k].pc \in {"page", "delay", "retry"}
       /\ UNCHANGED <<outcome, history>>

LEMMA StreamEffect ==
    ASSUME TypeInv, NEW k \in Kinds, StreamStep(k)
    PROVE  /\ UNCHANGED <<listing, indexed, promised, dropped>>
           /\ \E new \in Streams : stream' = [stream EXCEPT ![k] = new] /\ SettlesOne(k, new)
  <1> DEFINE old == stream[k]
             page == PageOf(k, old.page)
             all == old.got \o page
             new == stream'[k]
  <1>1. old \in Streams /\ old.page \in 1 .. MaxPages /\ old.got \in Seq(Hashes)
    BY DEF TypeInv, Streams
  <1>2. all \in Seq(Hashes)
    <2>1. page \in Seq(Hashes)
      BY <1>1, PageRead
    <2>2. QED
      BY <1>1, <2>1, ConcatProperties
  <1>3. UNCHANGED <<listing, indexed, promised, dropped>>
    BY DEF StreamStep, PageArrives, RateLimited, RetryPage, RequestFails
  <1>4. \A n \in Streams : stream' = [stream EXCEPT ![k] = n] => new = n
    BY DEF TypeInv
  <1>5. CASE PageArrives(k)
    <2>1. \E n \in Streams : stream' = [stream EXCEPT ![k] = n]
      BY <1>5, ArrivesEffect
    <2>2. new \in Streams /\ stream' = [stream EXCEPT ![k] = new]
      BY <1>4, <2>1
    <2>3. old.pc \in {"page", "retry"}
      BY <1>5 DEF PageArrives, Requesting
    <2>4. CASE Return(k, all)
      <3>1. new.pc = "returned"
        BY <1>1, <2>4 DEF Return, TypeInv, Streams
      <3>2. QED
        BY <1>3, <2>2, <2>3, <2>4, <3>1 DEF Return, SettlesOne, Requesting
    <2>5. CASE /\ stream' = [stream EXCEPT ![k] = [ pc   |-> "page",
                                                    page |-> @.page + 1,
                                                    got  |-> all ]]
               /\ UNCHANGED <<outcome, history>>
      <3>1. new.pc = "page"
        BY <2>5 DEF TypeInv
      <3>2. QED
        BY <1>3, <2>2, <2>3, <2>5, <3>1 DEF SettlesOne
    <2>6. CASE Throw(k, "truncated")
      <3>1. new.pc = "truncated"
        BY <1>1, <2>6 DEF Throw, TypeInv, Streams
      <3>2. QED
        BY <1>3, <2>2, <2>3, <2>6, <3>1 DEF Throw, SettlesOne, Requesting
    <2>7. QED
      BY <1>5, <2>4, <2>5, <2>6 DEF PageArrives
  <1>6. CASE Waits(k)
    <2>1. \E n \in Streams : stream' = [stream EXCEPT ![k] = n]
      BY <1>6, WaitsEffect
    <2>2. new \in Streams /\ stream' = [stream EXCEPT ![k] = new]
      BY <1>4, <2>1
    <2>3. CASE RateLimited(k)
      <3>1. new.pc = "delay" /\ old.pc = "page" /\ UNCHANGED <<outcome, history>>
        BY <1>1, <2>3 DEF RateLimited, TypeInv, Streams
      <3>2. QED
        BY <1>3, <2>2, <3>1 DEF SettlesOne
    <2>4. CASE RetryPage(k)
      <3>1. new.pc = "retry" /\ old.pc = "delay" /\ UNCHANGED <<outcome, history>>
        BY <1>1, <2>4 DEF RetryPage, TypeInv, Streams
      <3>2. QED
        BY <1>3, <2>2, <3>1 DEF SettlesOne
    <2>5. CASE RequestFails(k)
      <3>1. new.pc = "failed" /\ old.pc \in {"page", "retry"} /\ Throw(k, "failed")
        BY <1>1, <2>5 DEF RequestFails, Requesting, Throw, TypeInv, Streams
      <3>2. QED
        BY <1>3, <2>2, <3>1 DEF Throw, SettlesOne, Requesting
    <2>6. QED
      BY <1>6, <2>3, <2>4, <2>5 DEF Waits
  <1>7. QED
    BY <1>5, <1>6 DEF StreamStep, Waits

(***************************************************************************)
(* The call has resolved, with the merge of what was read, exactly if both *)
(* streams have returned, and rejects only after one has thrown.           *)
(***************************************************************************)
SettledInv ==
    /\ outcome \in {"running", "resolved", "rejected"}
    /\ outcome = "resolved" <=> \A k \in Kinds : stream[k].pc = "returned"
    /\ outcome = "rejected" => \E k \in Kinds : Threw(k)
    /\ outcome = "resolved" =>
           history = Merge(stream["normal"].got, stream["internal"].got)
    /\ outcome # "resolved" => history = <<>>

LEMMA SettledInvariant == Spec => []SettledInv
  <1>1. Init => SettledInv
    BY DEF Init, SettledInv, Kinds
  <1>2. TypeInv /\ SettledInv /\ [Next]_vars => SettledInv'
    <2> SUFFICES ASSUME TypeInv, SettledInv, [Next]_vars PROVE SettledInv'
      OBVIOUS
    <2>1. ASSUME NEW k \in Kinds, StreamStep(k) PROVE SettledInv'
      <3>1. PICK new \in Streams :
                stream' = [stream EXCEPT ![k] = new] /\ SettlesOne(k, new)
        BY <2>1, StreamEffect
      <3>2. stream'[k] = new /\ \A j \in Kinds \ {k} : stream'[j] = stream[j]
        BY <3>1 DEF TypeInv
      <3>3. CASE new.pc = "returned" /\ Requesting(k)
        <4>1. outcome # "resolved"
          BY <3>3 DEF SettledInv, Requesting
        <4>2. IF outcome = "running" /\ \A j \in Kinds \ {k} : stream[j].pc = "returned"
              THEN /\ outcome' = "resolved"
                   /\ history' = Merge(stream'["normal"].got, stream'["internal"].got)
              ELSE UNCHANGED <<outcome, history>>
          BY <3>1, <3>3 DEF SettlesOne
        <4>3. outcome = "rejected" => \E j \in Kinds \ {k} : Threw(j)
          BY <3>1, <3>3, <4>1 DEF SettledInv, Requesting, Threw
        <4>4. QED
          BY <3>2, <3>3, <4>1, <4>2, <4>3 DEF SettledInv, Threw
      <3>4. CASE new.pc \in {"truncated", "failed"} /\ Requesting(k)
        BY <3>1, <3>2, <3>4 DEF SettledInv, SettlesOne, Requesting, Threw
      <3>5. CASE new.pc \in {"page", "delay", "retry"} /\ stream[k].pc \in {"page", "delay", "retry"}
        BY <3>1, <3>2, <3>5 DEF SettledInv, SettlesOne, Requesting, Threw
      <3>6. QED
        BY <3>1, <3>3, <3>4, <3>5 DEF SettlesOne
    <2>2. ASSUME NEW k \in Kinds, Index(k) \/ Reorganise(k) PROVE SettledInv'
      BY <2>2 DEF Index, Reorganise, SettledInv, Threw
    <2>3. CASE UNCHANGED vars
      BY <2>3 DEF vars, SettledInv, Threw
    <2>4. QED
      BY <2>1, <2>2, <2>3 DEF Next
  <1>3. QED
    BY <1>1, <1>2, TypeInvariant, PTL DEF Spec

(***************************************************************************)
(* The types, and the order of promised, indexed and listed.               *)
(***************************************************************************)
THEOREM HistoryTypes == Spec => []TypeOK
  <1>1. TypeInv /\ SettledInv => TypeOK
    <2> SUFFICES ASSUME TypeInv, SettledInv PROVE TypeOK
      OBVIOUS
    <2>1. ASSUME NEW k \in Kinds
          PROVE  /\ indexed[k] \in 0 .. Len(listing[k]) /\ promised[k] \in 0 .. indexed[k]
                 /\ dropped[k] \in Seq(Hashes) /\ stream[k].got \in Seq(Hashes)
      BY DEF TypeInv, Streams
    <2>2. history \in Seq(Items)
      <3>1. stream["normal"].got \in Seq(Hashes) /\ stream["internal"].got \in Seq(Hashes)
        BY <2>1 DEF Kinds
      <3>2. Merge(stream["normal"].got, stream["internal"].got) \in Seq(Items)
        BY <3>1, MergeIsMerged DEF IsMerged
      <3>3. QED
        BY <3>2, EmptySeq DEF SettledInv
    <2>3. QED
      BY <2>1, <2>2 DEF TypeInv, SettledInv, TypeOK
  <1>2. QED
    BY <1>1, TypeInvariant, SettledInvariant, PTL

(***************************************************************************)
(* Whatever the explorer lists, and in whatever order the two streams end, *)
(* a call that resolves has its history ordered by time, each hash once,   *)
(* and as a normal transaction if it was read as one.                      *)
(***************************************************************************)
THEOREM MergedHistory == Spec => []HistoryMerged
  <1>1. TypeInv /\ SettledInv => HistoryMerged
    <2> SUFFICES ASSUME TypeInv, SettledInv, outcome = "resolved" PROVE HistoryMerged
      BY DEF HistoryMerged
    <2>1. stream["normal"].got \in Seq(Hashes) /\ stream["internal"].got \in Seq(Hashes)
      BY DEF TypeInv, Streams, Kinds
    <2>2. IsMerged(history, stream["normal"].got, stream["internal"].got)
      BY <2>1, MergeIsMerged DEF SettledInv
    <2>3. QED
      BY <2>2 DEF IsMerged, HistoryMerged
  <1>2. QED
    BY <1>1, TypeInvariant, SettledInvariant, PTL

-----------------------------------------------------------------------------
(***************************************************************************)
(* The safety part of the caller's view.  What a stream has read is listed *)
(* still, or was dropped.                                                  *)
(***************************************************************************)
Shown(k) == {listing[k][i] : i \in 1 .. indexed[k]}

HeardInv ==
    \A k \in Kinds :
        /\ ToSet(stream[k].got) \subseteq Shown(k) \cup ToSet(dropped[k])
        /\ dropped[k] # <<>> => \A j \in Kinds : promised[j] = 0

(***************************************************************************)
(* Every step of the explorer keeps what was shown, as shown or dropped;   *)
(* only a reorganisation takes an item off, and nothing comes back.        *)
(***************************************************************************)
LEMMA IndexShows ==
    ASSUME TypeInv, NEW k \in Kinds, Index(k)
    PROVE  \A j \in Kinds : Shown(j) \subseteq Shown(j)'
  <1>1. indexed' = [indexed EXCEPT ![k] = @ + 1] /\ UNCHANGED listing
    BY DEF Index
  <1>2. \A j \in Kinds : indexed[j] \in Nat /\ indexed'[j] \in Nat /\ indexed[j] <= indexed'[j]
    BY <1>1 DEF TypeInv
  <1>3. ASSUME NEW j \in Kinds, NEW i \in 1 .. indexed[j]
        PROVE  i \in 1 .. indexed'[j] /\ listing'[j][i] = listing[j][i]
    BY <1>1, <1>2
  <1>4. QED
    BY <1>3 DEF Shown

LEMMA RemovedItems ==
    ASSUME NEW S, NEW s \in Seq(S), NEW i \in 1 .. Len(s)
    PROVE  \A j \in 1 .. Len(s) - 1 :
              RemoveAt(s, i)[j] = IF j < i THEN s[j] ELSE s[j + 1]
  <1>1. /\ SubSeq(s, 1, i - 1) \in Seq(S) /\ Len(SubSeq(s, 1, i - 1)) = i - 1
        /\ \A j \in 1 .. i - 1 : SubSeq(s, 1, i - 1)[j] = s[j]
    <2>1. /\ 1 \in Int /\ i - 1 \in Int /\ \A j \in 1 .. i - 1 : s[j] \in S
          /\ i - 1 - 1 + 1 = i - 1 /\ \A j \in 1 .. i - 1 : 1 + j - 1 = j
          /\ IF 1 <= i - 1 THEN i - 1 - 1 + 1 = i - 1 ELSE 0 = i - 1
      OBVIOUS
    <2>2. /\ SubSeq(s, 1, i - 1) \in Seq(S)
          /\ Len(SubSeq(s, 1, i - 1)) = IF 1 <= i - 1 THEN i - 1 - 1 + 1 ELSE 0
          /\ \A j \in 1 .. i - 1 - 1 + 1 : SubSeq(s, 1, i - 1)[j] = s[1 + j - 1]
      BY <2>1, SubSeqProperties
    <2>3. QED
      BY <2>1, <2>2
  <1>2. /\ SubSeq(s, i + 1, Len(s)) \in Seq(S) /\ Len(SubSeq(s, i + 1, Len(s))) = Len(s) - i
        /\ \A j \in 1 .. Len(s) - i : SubSeq(s, i + 1, Len(s))[j] = s[i + j]
    <2>1. PICK f, n : f = i + 1 /\ n = Len(s)
      OBVIOUS
    <2>2. f \in Int /\ n \in Int /\ f >= 1 /\ n <= Len(s) /\ \A j \in f .. n : s[j] \in S
      BY <2>1
    <2>3. /\ SubSeq(s, f, n) \in Seq(S)
          /\ Len(SubSeq(s, f, n)) = IF f <= n THEN n - f + 1 ELSE 0
          /\ \A j \in 1 .. n - f + 1 : SubSeq(s, f, n)[j] = s[f + j - 1]
      BY <2>2, SubSeqProperties
    <2>4. n \in Nat /\ i \in 1 .. n
      BY <2>1
    <2>5. n - f + 1 = n - i /\ (IF f <= n THEN n - f + 1 ELSE 0) = n - i
      BY <2>1, <2>4
    <2>6. \A j \in 1 .. n - i : f + j - 1 = i + j
      BY <2>1, <2>4
    <2>7. QED
      BY <2>1, <2>3, <2>5, <2>6
  <1>3. PICK a, b : a = SubSeq(s, 1, i - 1) /\ b = SubSeq(s, i + 1, Len(s))
    OBVIOUS
  <1>4. \A j \in 1 .. Len(a) + Len(b) :
           (a \o b)[j] = IF j <= Len(a) THEN a[j] ELSE b[j - Len(a)]
    BY <1>1, <1>2, <1>3, ConcatProperties
  <1>5. RemoveAt(s, i) = a \o b
    BY <1>3 DEF RemoveAt
  <1>6. /\ Len(a) = i - 1 /\ Len(b) = Len(s) - i /\ Len(s) \in Nat
        /\ \A j \in 1 .. i - 1 : a[j] = s[j]
        /\ \A j \in 1 .. Len(s) - i : b[j] = s[i + j]
    BY <1>1, <1>2, <1>3
  <1>7. ASSUME NEW j \in 1 .. Len(s) - 1
        PROVE  (a \o b)[j] = IF j < i THEN s[j] ELSE s[j + 1]
    <2>1. j \in 1 .. Len(a) + Len(b)
      BY <1>6
    <2>2. CASE j < i
      <3>1. j <= Len(a) /\ j \in 1 .. i - 1
        BY <1>6, <2>2
      <3>2. QED
        BY <1>4, <1>6, <2>1, <2>2, <3>1
    <2>3. CASE ~ (j < i)
      <3>1. ~ (j <= Len(a)) /\ j - Len(a) \in 1 .. Len(s) - i /\ i + (j - Len(a)) = j + 1
        BY <1>6, <2>3
      <3>2. QED
        BY <1>4, <1>6, <2>1, <2>3, <3>1
    <2>4. QED
      BY <2>2, <2>3
  <1>8. QED
    BY <1>5, <1>7

LEMMA ReorganiseKeeps ==
    ASSUME TypeInv, NEW k \in Kinds, Reorganise(k)
    PROVE  \A j \in Kinds :
              /\ Shown(j)' \subseteq Shown(j)
              /\ Shown(j)' \cup ToSet(dropped'[j]) = Shown(j) \cup ToSet(dropped[j])
  <1>1. PICK i \in 1 .. indexed[k] :
            /\ listing' = [listing EXCEPT ![k] = RemoveAt(@, i)]
            /\ dropped' = [dropped EXCEPT ![k] = Append(@, listing[k][i])]
    BY DEF Reorganise
  <1>2. PICK s : s = listing[k]
    OBVIOUS
  <1>3. /\ s \in Seq(Hashes) /\ indexed[k] \in Nat /\ indexed[k] <= Len(s) /\ Len(s) \in Nat
        /\ dropped[k] \in Seq(Hashes) /\ indexed' = [indexed EXCEPT ![k] = @ - 1]
    BY <1>2 DEF TypeInv, Reorganise
  <1>4. i \in 1 .. Len(s) /\ i \in Nat
    BY <1>3
  <1>5. /\ listing'[k] = RemoveAt(s, i) /\ indexed'[k] = indexed[k] - 1
        /\ dropped'[k] = Append(dropped[k], s[i])
    BY <1>1, <1>2, <1>3 DEF TypeInv
  <1>6. \A j \in Kinds \ {k} : /\ listing'[j] = listing[j] /\ indexed'[j] = indexed[j]
                               /\ dropped'[j] = dropped[j]
    BY <1>1, <1>3 DEF TypeInv
  <1>7. ASSUME NEW m \in 1 .. indexed[k] - 1
        PROVE  listing'[k][m] = IF m < i THEN s[m] ELSE s[m + 1]
    <2>1. m \in 1 .. Len(s) - 1
      BY <1>3
    <2>2. QED
      BY <1>3, <1>4, <1>5, <2>1, RemovedItems
  <1>8. Shown(k) = {s[m] : m \in 1 .. indexed[k]}
    BY <1>2 DEF Shown
  <1>9. Shown(k)' = {listing'[k][m] : m \in 1 .. indexed[k] - 1}
    BY <1>5 DEF Shown
  <1>10. Shown(k)' \subseteq Shown(k)
    <2>1. ASSUME NEW m \in 1 .. indexed[k] - 1 PROVE listing'[k][m] \in Shown(k)
      <3>1. m \in 1 .. indexed[k] /\ m + 1 \in 1 .. indexed[k]
        BY <1>3
      <3>2. QED
        BY <1>7, <1>8, <3>1
    <2>2. QED
      BY <1>9, <2>1
  <1>11. Shown(k) \subseteq Shown(k)' \cup {s[i]}
    <2>1. ASSUME NEW m \in 1 .. indexed[k] PROVE s[m] \in Shown(k)' \cup {s[i]}
      <3>1. CASE m < i
        <4>1. m \in 1 .. indexed[k] - 1
          BY <1>3, <3>1
        <4>2. QED
          BY <1>7, <1>9, <3>1, <4>1
      <3>2. CASE m > i
        <4>1. m - 1 \in 1 .. indexed[k] - 1 /\ ~ (m - 1 < i) /\ (m - 1) + 1 = m
          BY <1>3, <1>4, <3>2
        <4>2. listing'[k][m - 1] = s[m]
          BY <1>7, <4>1
        <4>3. QED
          BY <1>9, <4>1, <4>2
      <3>3. CASE m = i
        BY <3>3
      <3>4. QED
        BY <1>4, <3>1, <3>2, <3>3
    <2>2. QED
      BY <1>8, <2>1
  <1>12. s[i] \in Shown(k)
    BY <1>8
  <1>13. ToSet(dropped'[k]) = ToSet(dropped[k]) \cup {s[i]}
    <2> DEFINE d == dropped[k]
               e == Append(d, s[i])
    <2>1. s[i] \in Hashes
      BY <1>3, <1>4
    <2>2. /\ DOMAIN d = 1 .. Len(d) /\ Len(d) \in Nat /\ DOMAIN e = 1 .. Len(d) + 1
          /\ e[Len(d) + 1] = s[i] /\ \A m \in 1 .. Len(d) : e[m] = d[m]
      BY <1>3, <2>1
    <2> HIDE DEF d, e
    <2>3. \A m \in 1 .. Len(d) + 1 : m \in 1 .. Len(d) \/ m = Len(d) + 1
      BY <2>2
    <2>4. ToSet(e) \subseteq ToSet(d) \cup {s[i]}
      BY <2>2, <2>3 DEF ToSet
    <2>5. Len(d) + 1 \in 1 .. Len(d) + 1 /\ \A m \in 1 .. Len(d) : m \in 1 .. Len(d) + 1
      BY <2>2
    <2>6. ToSet(d) \cup {s[i]} \subseteq ToSet(e)
      BY <2>2, <2>5 DEF ToSet
    <2>7. QED
      BY <1>5, <2>4, <2>6 DEF d, e
  <1>14. ASSUME NEW j \in Kinds, j # k
         PROVE  Shown(j)' = Shown(j) /\ ToSet(dropped'[j]) = ToSet(dropped[j])
    BY <1>6, <1>14 DEF Shown
  <1>15. QED
    BY <1>10, <1>11, <1>12, <1>13, <1>14

LEMMA JoinedSet ==
    ASSUME NEW S, NEW s \in Seq(S), NEW t \in Seq(S)
    PROVE  ToSet(s \o t) \subseteq ToSet(s) \cup ToSet(t)
  <1>1. PICK n, m, all : n = Len(s) /\ m = Len(t) /\ all = s \o t
    OBVIOUS
  <1>2. /\ DOMAIN s = 1 .. n /\ DOMAIN t = 1 .. m /\ n \in Nat /\ m \in Nat
    BY <1>1
  <1>3. /\ all \in Seq(S) /\ Len(all) = n + m
        /\ \A i \in 1 .. n + m : all[i] = IF i <= n THEN s[i] ELSE t[i - n]
    BY <1>1, ConcatProperties
  <1>4. DOMAIN all = 1 .. n + m
    BY <1>3
  <1>5. ASSUME NEW i \in 1 .. n + m PROVE all[i] \in ToSet(s) \cup ToSet(t)
    <2>1. CASE i <= n
      <3>1. i \in 1 .. n /\ all[i] = s[i]
        BY <1>2, <1>3, <2>1
      <3>2. QED
        BY <1>2, <3>1 DEF ToSet
    <2>2. CASE ~ (i <= n)
      <3>1. i - n \in 1 .. m /\ all[i] = t[i - n]
        BY <1>2, <1>3, <2>2
      <3>2. QED
        BY <1>2, <3>1 DEF ToSet
    <2>3. QED
      BY <2>1, <2>2
  <1>6. ToSet(all) = {all[i] : i \in 1 .. n + m}
    BY <1>4 DEF ToSet
  <1>7. QED
    BY <1>1, <1>5, <1>6

LEMMA HeardInvariant == Spec => []HeardInv
  <1>1. Init => HeardInv
    <2> SUFFICES ASSUME Init, NEW k \in Kinds
                 PROVE  ToSet(stream[k].got) = {} /\ dropped[k] = <<>>
      BY DEF HeardInv
    <2>1. stream[k].got = <<>> /\ dropped[k] = <<>>
      BY DEF Init
    <2>2. ToSet(<<>>) = {}
      BY DEF ToSet
    <2>3. QED
      BY <2>1, <2>2
  <1>2. TypeInv /\ HeardInv /\ [Next]_vars => HeardInv'
    <2> SUFFICES ASSUME TypeInv, HeardInv, [Next]_vars PROVE HeardInv'
      OBVIOUS
    <2>1. ASSUME NEW k \in Kinds, PageArrives(k) PROVE HeardInv'
      <3>1. PICK old, p : old = stream[k] /\ p = PageOf(k, old.page)
        OBVIOUS
      <3>2. /\ UNCHANGED <<listing, indexed, promised, dropped>>
            /\ \E n \in Streams :
                  /\ stream' = [stream EXCEPT ![k] = n]
                  /\ n.got = old.got \o p \/ n.got = <<>>
        BY <2>1, <3>1, ArrivesEffect
      <3>3. /\ stream'[k].got = old.got \o p \/ stream'[k].got = <<>>
            /\ \A j \in Kinds \ {k} : stream'[j] = stream[j]
        BY <3>2 DEF TypeInv
      <3>4. CASE stream'[k].got = <<>>
        <4>1. ToSet(<<>>) = {}
          BY DEF ToSet
        <4>2. QED
          BY <3>2, <3>3, <3>4, <4>1 DEF HeardInv, Shown
      <3>5. CASE stream'[k].got = old.got \o p
        <4>2. /\ old.got \in Seq(Hashes) /\ old.page \in 1 .. MaxPages /\ indexed[k] \in Nat
          BY <3>1 DEF TypeInv, Streams
        <4>3. PICK upTo : upTo = IF old.page * Offset <= indexed[k]
                                 THEN old.page * Offset ELSE indexed[k]
          OBVIOUS
        <4>4. /\ p \in Seq(Hashes)
              /\ Len(p) = IF Before(old.page) <= upTo THEN upTo - Before(old.page) ELSE 0
              /\ \A i \in 1 .. Len(p) : p[i] = listing[k][Before(old.page) + i]
          BY <3>1, <4>2, <4>3, PageRead
        <4>5. Before(old.page) \in Nat /\ old.page * Offset \in Nat
          BY <4>2, PageBounds
        <4>6. ToSet(p) \subseteq Shown(k)
          <5>1. ASSUME NEW i \in 1 .. Len(p) PROVE p[i] \in Shown(k)
            <6>1. Before(old.page) + i \in 1 .. indexed[k]
              BY <4>2, <4>3, <4>4, <4>5
            <6>2. QED
              BY <4>4, <6>1 DEF Shown
          <5>2. QED
            BY <4>4, <5>1 DEF ToSet
        <4>7. ToSet(old.got \o p) \subseteq ToSet(old.got) \cup ToSet(p)
          BY <4>2, <4>4, JoinedSet
        <4>8. ToSet(old.got) \subseteq Shown(k) \cup ToSet(dropped[k])
          BY <3>1 DEF HeardInv
        <4>9. ToSet(stream'[k].got) \subseteq Shown(k) \cup ToSet(dropped[k])
          BY <3>5, <4>6, <4>7, <4>8
        <4>10. \A j \in Kinds : Shown(j)' = Shown(j)
          BY <3>2 DEF Shown
        <4>11. QED
          BY <3>2, <3>3, <4>9, <4>10 DEF HeardInv
      <3>6. QED
        BY <3>3, <3>4, <3>5
    <2>2. ASSUME NEW k \in Kinds, Waits(k) PROVE HeardInv'
      <3>1. /\ UNCHANGED <<listing, indexed, promised, dropped>>
            /\ stream'[k].got = stream[k].got \/ stream'[k].got = <<>>
            /\ \A j \in Kinds \ {k} : stream'[j] = stream[j]
        BY <2>2 DEF Waits, RateLimited, RetryPage, RequestFails, Throw, TypeInv, Streams
      <3>2. ToSet(<<>>) = {}
        BY DEF ToSet
      <3>3. QED
        BY <3>1, <3>2 DEF HeardInv, Shown
    <2>3. ASSUME NEW k \in Kinds, Index(k) PROVE HeardInv'
      <3>1. \A j \in Kinds : Shown(j) \subseteq Shown(j)'
        BY <2>3, IndexShows
      <3>2. UNCHANGED <<promised, dropped, stream>>
        BY <2>3 DEF Index
      <3> HIDE DEF Shown
      <3>3. QED
        BY <3>1, <3>2 DEF HeardInv
    <2>4. ASSUME NEW k \in Kinds, Reorganise(k) PROVE HeardInv'
      <3>1. \A j \in Kinds :
               Shown(j)' \cup ToSet(dropped'[j]) = Shown(j) \cup ToSet(dropped[j])
        BY <2>4, ReorganiseKeeps
      <3>2. promised' = [j \in Kinds |-> 0] /\ UNCHANGED stream
        BY <2>4 DEF Reorganise
      <3>3. ASSUME NEW j \in Kinds
            PROVE  ToSet(stream'[j].got) \subseteq Shown(j)' \cup ToSet(dropped'[j])
        BY <3>1, <3>2 DEF HeardInv
      <3>4. QED
        BY <3>2, <3>3 DEF HeardInv
    <2>5. CASE UNCHANGED vars
      BY <2>5 DEF vars, HeardInv, Shown
    <2>6. QED
      BY <2>1, <2>2, <2>3, <2>4, <2>5 DEF Next, StreamStep, Waits
  <1>3. QED
    BY <1>1, <1>2, TypeInvariant, PTL DEF Spec

DroppedHashes == UNION {ToSet(dropped[k]) : k \in Kinds}

LEMMA ListedAreHashes ==
    ASSUME TypeInv
    PROVE  ListedHashes(indexed) \in SUBSET Hashes /\ DroppedHashes \in SUBSET Hashes
  <1>1. ASSUME NEW k \in Kinds, NEW i \in 1 .. indexed[k] PROVE listing[k][i] \in Hashes
    <2>1. /\ listing[k] \in Seq(Hashes) /\ indexed[k] \in Nat /\ indexed[k] <= Len(listing[k])
      BY DEF TypeInv
    <2>2. i \in 1 .. Len(listing[k])
      BY <2>1
    <2>3. QED
      BY <2>1, <2>2
  <1>2. ASSUME NEW k \in Kinds PROVE ToSet(dropped[k]) \subseteq Hashes
    <2>1. dropped[k] \in Seq(Hashes)
      BY DEF TypeInv
    <2>2. QED
      BY <2>1 DEF ToSet
  <1>3. QED
    BY <1>1, <1>2 DEF ListedHashes, DroppedHashes

LEMMA ResolvesWhole ==
    ASSUME TypeInv, PagesInv, HeardInv, \A k \in Kinds : stream[k].pc = "returned",
           history = Merge(stream["normal"].got, stream["internal"].got)
    PROVE  /\ HashesOf(history) \subseteq ListedHashes(indexed) \cup DroppedHashes
           /\ ListedHashes(promised) \subseteq HashesOf(history)
  <1>1. \A k \in Kinds : stream[k].got \in Seq(Hashes) /\ k \in {"normal", "internal"}
    BY DEF TypeInv, Streams, Kinds
  <1>2. HashesOf(history) = ToSet(stream["normal"].got) \cup ToSet(stream["internal"].got)
    <2>1. stream["normal"].got \in Seq(Hashes) /\ stream["internal"].got \in Seq(Hashes)
      BY <1>1 DEF Kinds
    <2>2. QED
      BY <2>1, MergeIsMerged DEF IsMerged
  <1>3. \A k \in Kinds : ToSet(stream[k].got) \subseteq Shown(k) \cup ToSet(dropped[k])
    BY DEF HeardInv
  <1>4. ListedHashes(indexed) = UNION {Shown(k) : k \in Kinds}
    BY DEF ListedHashes, Shown
  <1>5. HashesOf(history) \subseteq ListedHashes(indexed) \cup DroppedHashes
    <2>1. "normal" \in Kinds /\ "internal" \in Kinds
      BY DEF Kinds
    <2>2. QED
      BY <1>2, <1>3, <1>4, <2>1 DEF DroppedHashes
  <1>6. ASSUME NEW k \in Kinds, NEW i \in 1 .. promised[k]
        PROVE  listing[k][i] \in HashesOf(history)
    <2>1. promised[k] \in Nat /\ promised[k] # 0
      BY DEF TypeInv
    <2>2. dropped[k] = <<>>
      BY <2>1 DEF HeardInv
    <2>3. ReadsHead(k) /\ ReadsAll(k)
      BY <2>2 DEF PagesInv, Threw
    <2>4. i \in 1 .. Len(stream[k].got) /\ stream[k].got[i] = listing[k][i]
      BY <1>1, <2>1, <2>3 DEF ReadsHead, ReadsAll
    <2>5. listing[k][i] \in ToSet(stream[k].got)
      BY <1>1, <2>4 DEF ToSet
    <2>6. QED
      BY <1>1, <1>2, <2>5
  <1>7. ListedHashes(promised) \subseteq HashesOf(history)
    BY <1>6 DEF ListedHashes
  <1>8. QED
    BY <1>5, <1>7

(***************************************************************************)
(* What a call has resolved with, in the terms of the caller.              *)
(***************************************************************************)
ResolvedInv ==
    /\ ListedHashes(indexed) \in SUBSET Hashes /\ DroppedHashes \in SUBSET Hashes
    /\ outcome = "resolved" =>
           /\ HashesOf(history) \subseteq ListedHashes(indexed) \cup DroppedHashes
           /\ ListedHashes(promised) \subseteq HashesOf(history)

LEMMA ResolvedInvariant == Spec => []ResolvedInv
  <1>1. TypeInv /\ SettledInv /\ PagesInv /\ HeardInv => ResolvedInv
    <2> SUFFICES ASSUME TypeInv, SettledInv, PagesInv, HeardInv PROVE ResolvedInv
      OBVIOUS
    <2>1. ASSUME outcome = "resolved"
          PROVE  /\ \A k \in Kinds : stream[k].pc = "returned"
                 /\ history = Merge(stream["normal"].got, stream["internal"].got)
      BY <2>1 DEF SettledInv
    <2>2. QED
      BY <2>1, ResolvesWhole, ListedAreHashes DEF ResolvedInv
  <1>2. QED
    BY <1>1, TypeInvariant, SettledInvariant, PagesInvariant, HeardInvariant, PTL

(***************************************************************************)
(* However the two streams interleave with the explorer's indexing and     *)
(* reorganisations, each step is a step of the caller's view, or none of   *)
(* its business: the call resolves once, with everything that was listed   *)
(* when it began and nothing the explorer never listed, or rejects once.   *)
(* (That it settles at all, the fairness of WholeHistoryOrError, is left   *)
(* to TLC.)                                                                *)
(***************************************************************************)
THEOREM WholeOrError == Spec => Contract!Init /\ [][Contract!Next]_Contract!vars
  <1>1. Init => Contract!Init
    <2> SUFFICES ASSUME Init PROVE Contract!Init
      OBVIOUS
    <2>1. TypeInv /\ promised = indexed /\ outcome = "running"
      BY TypeInitial DEF Init
    <2>2. ListedHashes(indexed) \in SUBSET Hashes
      BY <2>1, ListedAreHashes
    <2>3. ToSet(<<>>) = {} /\ HashesOf(<<>>) = {}
      BY DEF ToSet, HashesOf
    <2>4. DroppedHashes = {} /\ HashesOf(history) = {}
      BY <2>3 DEF Init, DroppedHashes
    <2>5. QED
      BY <2>1, <2>2, <2>4 DEF Contract!Init, DroppedHashes
  <1>2. TypeInv /\ SettledInv /\ ResolvedInv' /\ [Next]_vars => [Contract!Next]_Contract!vars
    <2> SUFFICES ASSUME TypeInv, SettledInv, ResolvedInv', [Next]_vars PROVE [Contract!Next]_Contract!vars
      OBVIOUS
    <2>1. ASSUME NEW k \in Kinds, StreamStep(k) PROVE [Contract!Next]_Contract!vars
      <3>1. /\ UNCHANGED <<listing, indexed, promised, dropped>>
            /\ \E new \in Streams : SettlesOne(k, new)
        BY <2>1, StreamEffect
      <3>2. /\ ListedHashes(indexed)' = ListedHashes(indexed)
            /\ ListedHashes(promised)' = ListedHashes(promised)
            /\ DroppedHashes' = DroppedHashes
        BY <3>1 DEF ListedHashes, DroppedHashes
      <3>3. CASE outcome' = "resolved" /\ outcome # "resolved"
        <4>1. outcome = "running"
          BY <3>1, <3>3 DEF SettlesOne, SettledInv
        <4>2. /\ HashesOf(history)' \subseteq ListedHashes(indexed)' \cup DroppedHashes'
              /\ ListedHashes(promised)' \subseteq HashesOf(history)'
          BY <3>3 DEF ResolvedInv
        <4>3. Contract!Resolve
          BY <3>2, <3>3, <4>1, <4>2 DEF Contract!Resolve, DroppedHashes
        <4>4. QED
          BY <4>3 DEF Contract!Next
      <3>4. CASE outcome' = outcome
        <4>1. UNCHANGED history
          BY <3>1, <3>4 DEF SettlesOne
        <4>2. UNCHANGED Contract!vars
          BY <3>2, <3>4, <4>1 DEF Contract!vars, DroppedHashes
        <4>3. QED
          BY <4>2
      <3>5. CASE outcome' = "rejected" /\ outcome # "rejected"
        <4>1. outcome = "running" /\ UNCHANGED history
          BY <3>1, <3>5 DEF SettlesOne
        <4>2. Contract!Reject
          BY <3>2, <3>5, <4>1 DEF Contract!Reject, DroppedHashes
        <4>3. QED
          BY <4>2 DEF Contract!Next
      <3>6. QED
        BY <3>1, <3>3, <3>4, <3>5 DEF SettlesOne
    <2>2. ASSUME NEW k \in Kinds, Index(k) PROVE [Contract!Next]_Contract!vars
      <3>1. \A j \in Kinds : Shown(j) \subseteq Shown(j)'
        BY <2>2, IndexShows
      <3>2. UNCHANGED <<listing, promised, dropped, outcome, history>>
        BY <2>2 DEF Index
      <3>3. /\ ListedHashes(indexed) = UNION {Shown(j) : j \in Kinds}
            /\ ListedHashes(indexed)' = UNION {Shown(j)' : j \in Kinds}
        BY DEF ListedHashes, Shown
      <3>4. ListedHashes(indexed) \subseteq ListedHashes(indexed)'
        <4> HIDE DEF Shown
        <4>1. QED
          BY <3>1, <3>3
      <3>5. ListedHashes(indexed)' \in SUBSET Hashes
        BY DEF ResolvedInv
      <3>6. ListedHashes(promised)' = ListedHashes(promised) /\ DroppedHashes' = DroppedHashes
        BY <3>2 DEF ListedHashes, DroppedHashes
      <3>7. Contract!Index
        BY <3>2, <3>4, <3>5, <3>6 DEF Contract!Index, DroppedHashes
      <3>8. QED
        BY <3>7 DEF Contract!Next
    <2>3. ASSUME NEW k \in Kinds, Reorganise(k) PROVE [Contract!Next]_Contract!vars
      <3>1. \A j \in Kinds :
               /\ Shown(j)' \subseteq Shown(j)
               /\ Shown(j)' \cup ToSet(dropped'[j]) = Shown(j) \cup ToSet(dropped[j])
        BY <2>3, ReorganiseKeeps
      <3>2. promised' = [j \in Kinds |-> 0] /\ UNCHANGED <<stream, outcome, history>>
        BY <2>3 DEF Reorganise
      <3>3. /\ ListedHashes(indexed) = UNION {Shown(j) : j \in Kinds}
            /\ ListedHashes(indexed)' = UNION {Shown(j)' : j \in Kinds}
            /\ DroppedHashes' = UNION {ToSet(dropped'[j]) : j \in Kinds}
        BY DEF ListedHashes, Shown, DroppedHashes
      <3>4. /\ ListedHashes(indexed)' \subseteq ListedHashes(indexed)
            /\ ListedHashes(indexed) \cup DroppedHashes
                  = ListedHashes(indexed)' \cup DroppedHashes'
        <4> HIDE DEF Shown
        <4>1. QED
          BY <3>1, <3>3 DEF DroppedHashes
      <3>5. DroppedHashes' \in SUBSET Hashes
        BY DEF ResolvedInv
      <3>6. ListedHashes(promised)' = {}
        <4>1. \A j \in Kinds : 1 .. promised'[j] = {}
          BY <3>2
        <4>2. QED
          BY <4>1 DEF ListedHashes
      <3>7. Contract!Reorganise
        BY <3>2, <3>4, <3>5, <3>6 DEF Contract!Reorganise, DroppedHashes
      <3>8. QED
        BY <3>7 DEF Contract!Next
    <2>4. CASE UNCHANGED vars
      <3>1. UNCHANGED Contract!vars
        BY <2>4 DEF vars, Contract!vars, ListedHashes
      <3>2. QED
        BY <3>1
    <2>5. QED
      BY <2>1, <2>2, <2>3, <2>4 DEF Next
  <1>3. QED
    BY <1>1, <1>2, TypeInvariant, SettledInvariant, ResolvedInvariant, PTL DEF Spec

=============================================================================
